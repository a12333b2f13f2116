------------------------------ MODULE PagesProofs ------------------------------
(***************************************************************************)
(* What the pages of the browser client promise, for any accounts, units,  *)
(* endpoints and numbers of them: each page is proved by itself, as a      *)
(* system of its own variables.                                            *)
(***************************************************************************)
EXTENDS Console, Verdicts, Evidence, Guides, Targets, Dialogs, FiniteSetTheorems, TLAPS

-----------------------------------------------------------------------------
(* Dialogs: the page is given back, whatever was opened over what and      *)
(* whoever closed it.                                                      *)

\* Only the sign-in screen hides the page; what makes it inert is the panel,
\* the screen or a dialog that is drawn. This is inductive where PageReleased
\* is not: it also says who has the page while somebody has it.
PageHeld ==
    /\ rootHidden = signingIn
    /\ rootInert => panelOpen \/ signingIn
    /\ drawn = {} => inertFor = NoDialog
    /\ panelOpen \in BOOLEAN /\ signingIn \in BOOLEAN /\ rootInert \in BOOLEAN

\* Drawing the page leaves it inert for a dialog only if one is drawn.
LEMMA DrawingReleases ==
  ASSUME Rendered
  PROVE  (drawn = {} => inertFor = NoDialog)'
  BY DEF Rendered, Sync, drawn

\* A step that neither opens nor closes a dialog and does not draw leaves the
\* dialogs as they were.
LEMMA NotDrawing ==
  ASSUME PageHeld, UNCHANGED <<open, route, inertFor>>
  PROVE  (drawn = {} => inertFor = NoDialog)'
  BY DEF PageHeld, drawn

\* Every step keeps the invariant.
LEMMA DialogsStep ==
  ASSUME PageHeld, DialogsNext
  PROVE  PageHeld'
<1>1. ASSUME Rendered, UNCHANGED <<panelOpen, signingIn, rootInert, rootHidden>> PROVE PageHeld'
  BY <1>1, DrawingReleases DEF PageHeld
<1>2. ASSUME Escape PROVE PageHeld'
  BY <1>2, DrawingReleases, NotDrawing DEF Escape, PanelEscape, PageHeld
<1>3. ASSUME NEW to \in Routes, Follow(to) PROVE PageHeld'
  BY <1>3, DrawingReleases DEF Follow, PageHeld
<1>4. ASSUME OpenSettings PROVE PageHeld'
  BY <1>4, DrawingReleases, NotDrawing DEF OpenSettings, PageHeld
<1>5. ASSUME CloseSettings PROVE PageHeld'
  BY <1>5, DrawingReleases, NotDrawing DEF CloseSettings, PageHeld
<1>6. ASSUME Prompt PROVE PageHeld'
  BY <1>6, NotDrawing DEF Prompt, PageHeld
<1>7. ASSUME FinishPrompt PROVE PageHeld'
  BY <1>7, NotDrawing DEF FinishPrompt, PageHeld
<1>8. ASSUME NEW setup \in BOOLEAN, SessionAnswered(setup) PROVE PageHeld'
  <2>1. UNCHANGED <<open, route, inertFor, signingIn, rootHidden>>
    BY <1>8 DEF SessionAnswered
  <2>2. /\ rootInert' \in BOOLEAN /\ panelOpen' \in BOOLEAN
        /\ rootInert' => panelOpen'
    BY <1>8 DEF SessionAnswered, PageHeld
  <2> QED
    BY <2>1, <2>2, NotDrawing DEF PageHeld
<1> QED
  BY <1>1, <1>2, <1>3, <1>4, <1>5, <1>6, <1>7, <1>8
     DEF DialogsNext, DrawAgain, AssessmentConfirms, InspectMember, ShowDialog, DismissDialog

\* With no dialog, panel or sign-in screen left the page can be used, and while
\* the sign-in screen is up nothing of the page can (PageReleased).
THEOREM PageIsReleased == DialogsSpec => []PageReleased
<1>1. DialogsInit => PageHeld
  BY DEF DialogsInit, PageHeld, drawn
<1>2. PageHeld /\ UNCHANGED dialogVars => PageHeld'
  BY DEF PageHeld, dialogVars, drawn
<1>3. PageHeld => PageReleased
  BY DEF PageHeld, PageReleased, PageReachable, DialogReachable
<1> QED
  BY DialogsStep, <1>1, <1>2, <1>3, PTL DEF DialogsSpec

-----------------------------------------------------------------------------
(* Evidence: the reports of the assurance page are about what its form     *)
(* shows.                                                                  *)

EvidenceTypeOK ==
    /\ onPage \in BOOLEAN
    /\ DOMAIN form = TargetFields \cup RunFields
    /\ DOMAIN answers = DOMAIN FieldsOf

\* A report is about the form as it was last drawn; what is read was asked
\* about what the page was drawn for; a page that is shown was drawn for the
\* account that is connected, unless that one has ended or signs in just now.
ReportsCurrent ==
    /\ \A kind \in DOMAIN FieldsOf :
          answers[kind] # NoReport => answers[kind] = About(kind, context)
    /\ reading.kind \in DOMAIN FieldsOf => reading.of = reading.key
    /\ onPage => connectedAs \in {context, NoOne} \/ reading = SigningIn

EvidenceInv == EvidenceTypeOK /\ ReportsCurrent

\* The page starts hidden and without reports.
LEMMA EvidenceInitInv == EvidenceInit => EvidenceInv
<1> SUFFICES ASSUME EvidenceInit PROVE EvidenceInv
  OBVIOUS
<1>1. EvidenceTypeOK
  BY DEF EvidenceInit, EvidenceTypeOK
<1>2. reading.kind \notin DOMAIN FieldsOf
  BY DEF EvidenceInit, NoReading, FieldsOf
<1>3. ReportsCurrent
  BY <1>2 DEF EvidenceInit, ReportsCurrent
<1> QED
  BY <1>1, <1>3 DEF EvidenceInv

\* Drawing the page drops the reports of another account.
LEMMA DrawnKeeps ==
  ASSUME EvidenceInv, NEW who, NEW fields, NEW reports, Drawn(who, fields, reports),
         DOMAIN fields = DOMAIN form, DOMAIN reports = DOMAIN answers,
         \A kind \in DOMAIN FieldsOf :
            reports[kind] # NoReport =>
               /\ reports[kind].account = context
               /\ reports[kind] = [account |-> context, about |-> [f \in FieldsOf[kind] |-> fields[f]]]
  PROVE  /\ context' = who
         /\ DOMAIN form' = TargetFields \cup RunFields
         /\ DOMAIN answers' = DOMAIN FieldsOf
         /\ \A kind \in DOMAIN FieldsOf :
               answers'[kind] # NoReport => answers'[kind] = About(kind, context)'
<1>1. CASE who = context
  BY <1>1 DEF EvidenceInv, EvidenceTypeOK, Drawn, About
<1>2. CASE who # context
  BY <1>2 DEF EvidenceInv, EvidenceTypeOK, Drawn
<1> QED
  BY <1>1, <1>2

\* A step that draws the page, or whatever is on the screen, with nothing but
\* current reports keeps the invariant.
LEMMA RefreshedKeeps ==
  ASSUME EvidenceInv, NEW reports, Refreshed(reports), UNCHANGED <<connectedAs, onPage>>,
         DOMAIN reports = DOMAIN answers,
         \A kind \in DOMAIN FieldsOf :
            reports[kind] # NoReport => reports[kind] = About(kind, context),
         reading'.kind \in DOMAIN FieldsOf => reading'.of = reading'.key
  PROVE  EvidenceInv'
<1>1. CASE onPage
  <2>1. Drawn(connectedAs, form, reports)
    BY <1>1 DEF Refreshed
  <2>2. /\ context' = connectedAs
        /\ DOMAIN form' = TargetFields \cup RunFields
        /\ DOMAIN answers' = DOMAIN FieldsOf
        /\ \A kind \in DOMAIN FieldsOf :
              answers'[kind] # NoReport => answers'[kind] = About(kind, context)'
    BY <2>1, DrawnKeeps DEF About
  <2> QED
    BY <2>2 DEF EvidenceInv, EvidenceTypeOK, ReportsCurrent
<1>2. CASE ~onPage
  BY <1>2 DEF Refreshed, EvidenceInv, EvidenceTypeOK, ReportsCurrent, About
<1> QED
  BY <1>1, <1>2

\* A step that edits the form of the page that is shown draws it.
LEMMA EditedKeeps ==
  ASSUME EvidenceInv, onPage, NEW fields, NEW reports, Drawn(connectedAs, fields, reports),
         DOMAIN fields = DOMAIN form, DOMAIN reports = DOMAIN answers,
         UNCHANGED <<connectedAs, onPage, reading>>,
         \A kind \in DOMAIN FieldsOf :
            reports[kind] = NoReport \/
               (reports[kind] = answers[kind] /\ \A g \in FieldsOf[kind] : fields[g] = form[g])
  PROVE  EvidenceInv'
<1>1. \A kind \in DOMAIN FieldsOf :
         reports[kind] # NoReport =>
            /\ reports[kind].account = context
            /\ reports[kind] = [account |-> context, about |-> [f \in FieldsOf[kind] |-> fields[f]]]
  BY DEF EvidenceInv, ReportsCurrent, About
<1>2. /\ context' = connectedAs
      /\ DOMAIN form' = TargetFields \cup RunFields
      /\ DOMAIN answers' = DOMAIN FieldsOf
      /\ \A kind \in DOMAIN FieldsOf :
            answers'[kind] # NoReport => answers'[kind] = About(kind, context)'
  BY <1>1, DrawnKeeps
<1> QED
  BY <1>2 DEF EvidenceInv, EvidenceTypeOK, ReportsCurrent

\* Every step keeps the invariant.
LEMMA EvidenceStep ==
  ASSUME EvidenceInv, EvidenceNext
  PROVE  EvidenceInv'
<1>1. \A kind \in DOMAIN FieldsOf :
         answers[kind] # NoReport => answers[kind] = About(kind, context)
  BY DEF EvidenceInv, ReportsCurrent
<1>2. ASSUME Navigate PROVE EvidenceInv'
  <2>1. CASE onPage
    BY <1>2, <2>1 DEF Navigate, EvidenceInv, EvidenceTypeOK, ReportsCurrent, About
  <2>2. CASE ~onPage
    <3>1. Drawn(connectedAs, form, answers) /\ onPage' = TRUE /\ UNCHANGED <<connectedAs, reading>>
      BY <1>2, <2>2 DEF Navigate
    <3>2. /\ context' = connectedAs
          /\ DOMAIN form' = TargetFields \cup RunFields
          /\ DOMAIN answers' = DOMAIN FieldsOf
          /\ \A kind \in DOMAIN FieldsOf :
                answers'[kind] # NoReport => answers'[kind] = About(kind, context)'
      <4>1. \A kind \in DOMAIN FieldsOf :
               answers[kind] # NoReport =>
                  /\ answers[kind].account = context
                  /\ answers[kind] = [account |-> context, about |-> [f \in FieldsOf[kind] |-> form[f]]]
        BY <1>1 DEF About
      <4> QED
        BY <3>1, <4>1, DrawnKeeps
    <3> QED
      BY <3>1, <3>2 DEF EvidenceInv, EvidenceTypeOK, ReportsCurrent
  <2> QED
    BY <2>1, <2>2
<1>3. ASSUME AccountEnds \/ \E who \in Account : AccountSignsIn(who) PROVE EvidenceInv'
  BY <1>3 DEF AccountEnds, AccountSignsIn, EvidenceInv, EvidenceTypeOK, ReportsCurrent, About
<1>4. ASSUME Redraw \/ SignInBegins \/ TaskEnds \/ OpenScopes \/ CloseScopes PROVE EvidenceInv'
  <2>1. Refreshed(answers) /\ UNCHANGED <<connectedAs, onPage>>
    BY <1>4 DEF Redraw, SignInBegins, TaskEnds, OpenScopes, CloseScopes
  <2>2. reading' \in {reading, NoReading, SigningIn}
    BY <1>4 DEF Redraw, SignInBegins, TaskEnds, OpenScopes, CloseScopes
  <2>3. reading'.kind \in DOMAIN FieldsOf => reading'.of = reading'.key
    BY <2>2 DEF EvidenceInv, ReportsCurrent, NoReading, SigningIn
  <2> QED
    BY <1>1, <2>1, <2>3, RefreshedKeeps
<1>5. ASSUME NEW f \in TargetFields \cup RunFields, NEW value \in Subject \cup {NoOne},
             Field(f, value)
      PROVE  EvidenceInv'
  <2> DEFINE fields == IF f = "operation" THEN [form EXCEPT !.operation = value, !.host = NoOne]
                       ELSE [form EXCEPT ![f] = value]
             reports == [kind \in DOMAIN answers |->
                            IF f \in FieldsOf[kind] THEN NoReport ELSE answers[kind]]
  <2>1. /\ onPage /\ Drawn(connectedAs, fields, reports)
        /\ UNCHANGED <<connectedAs, onPage, reading>>
    BY <1>5 DEF Field
  <2>2. DOMAIN fields = DOMAIN form /\ DOMAIN reports = DOMAIN answers
    OBVIOUS
  <2>3. ASSUME NEW kind \in DOMAIN FieldsOf, reports[kind] # NoReport
        PROVE  reports[kind] = answers[kind] /\ \A g \in FieldsOf[kind] : fields[g] = form[g]
    <3>1. f \notin FieldsOf[kind] /\ reports[kind] = answers[kind]
      BY <2>3 DEF EvidenceInv, EvidenceTypeOK
    <3>2. f = "operation" => "host" \notin FieldsOf[kind]
      BY <3>1, <2>3 DEF FieldsOf, TargetFields, RunFields
    <3>3. \A g \in FieldsOf[kind] : g \in DOMAIN form
      BY DEF EvidenceInv, EvidenceTypeOK, FieldsOf
    <3> QED
      BY <3>1, <3>2, <3>3
  <2> HIDE DEF fields, reports
  <2> QED
    BY <2>1, <2>2, <2>3, EditedKeeps
<1>6. ASSUME NEW value \in Subject, ChooseReportScope(value) PROVE EvidenceInv'
  <2> DEFINE fields == [form EXCEPT !.scope = value]
             reports == [answers EXCEPT !.access = NoReport]
  <2>1. /\ onPage /\ Drawn(connectedAs, fields, reports)
        /\ UNCHANGED <<connectedAs, onPage, reading>>
    BY <1>6 DEF ChooseReportScope
  <2>2. DOMAIN fields = DOMAIN form /\ DOMAIN reports = DOMAIN answers
    OBVIOUS
  <2>3. ASSUME NEW kind \in DOMAIN FieldsOf, reports[kind] # NoReport
        PROVE  reports[kind] = answers[kind] /\ \A g \in FieldsOf[kind] : fields[g] = form[g]
    <3>1. kind = "explanation" /\ reports[kind] = answers[kind]
      BY <2>3 DEF FieldsOf, EvidenceInv, EvidenceTypeOK
    <3>2. \A g \in FieldsOf[kind] : g \in DOMAIN form /\ g # "scope"
      BY <3>1 DEF FieldsOf, RunFields, EvidenceInv, EvidenceTypeOK
    <3> QED
      BY <3>1, <3>2
  <2> HIDE DEF fields, reports
  <2> QED
    BY <2>1, <2>2, <2>3, EditedKeeps
<1>7. ASSUME NEW kind \in DOMAIN FieldsOf, Ask(kind) PROVE EvidenceInv'
  <2>1. /\ onPage /\ Drawn(connectedAs, form, answers) /\ UNCHANGED <<connectedAs, onPage>>
        /\ reading' = [kind |-> kind, key |-> About(kind, context)', of |-> About(kind, connectedAs)']
    BY <1>7 DEF Ask
  <2>2. context' = connectedAs'
    BY <2>1 DEF Drawn
  <2>3. reading'.of = reading'.key
    BY <2>1, <2>2 DEF About
  <2>4. Refreshed(answers)
    BY <2>1 DEF Refreshed
  <2> QED
    BY <1>1, <2>1, <2>3, <2>4, RefreshedKeeps
<1>8. ASSUME ReportAnswered PROVE EvidenceInv'
  <2> DEFINE reports == IF StillAsked(reading.kind)
                        THEN [answers EXCEPT ![reading.kind] = reading.of] ELSE answers
  <2>1. /\ Refreshed(reports) /\ UNCHANGED <<connectedAs, onPage>> /\ reading' = NoReading
        /\ reading.kind \in DOMAIN FieldsOf /\ reading.of = reading.key
    BY <1>8 DEF ReportAnswered, EvidenceInv, ReportsCurrent
  <2>2. DOMAIN reports = DOMAIN answers
    OBVIOUS
  <2>3. \A kind \in DOMAIN FieldsOf :
           reports[kind] = answers[kind] \/ reports[kind] = About(kind, context)
    BY <2>1 DEF StillAsked
  <2>4. reading'.kind \notin DOMAIN FieldsOf
    BY <2>1 DEF NoReading, FieldsOf
  <2> HIDE DEF reports
  <2> QED
    BY <1>1, <2>1, <2>2, <2>3, <2>4, RefreshedKeeps
<1> QED
  BY <1>2, <1>3, <1>4, <1>5, <1>6, <1>7, <1>8 DEF EvidenceNext

\* A permission report or an explanation that is shown was read under the
\* account the page was drawn for and is about what the form shows; that
\* account is connected, unless it ended or one signs in (AnswerForSelection).
THEOREM AnswersFitTheForm == EvidenceSpec => []AnswerForSelection
<1>1. EvidenceInv /\ UNCHANGED evidenceVars => EvidenceInv'
  BY DEF evidenceVars, EvidenceInv, EvidenceTypeOK, ReportsCurrent, About
<1>2. EvidenceInv => AnswerForSelection
  <2> SUFFICES ASSUME EvidenceInv, onPage PROVE AnswerForSelection
    BY DEF AnswerForSelection
  <2>1. /\ answers.access # NoReport => answers.access = About("access", context)
        /\ answers.explanation # NoReport =>
              answers.explanation = About("explanation", context)
        /\ connectedAs \in {context, NoOne} \/ reading = SigningIn
    BY DEF EvidenceInv, ReportsCurrent, FieldsOf
  <2>2. About("explanation", context).about.operation = form.operation
    BY DEF About, FieldsOf, RunFields
  <2> QED
    BY <2>1, <2>2 DEF AnswerForSelection, accessView, explanationView
<1> QED
  BY EvidenceInitInv, EvidenceStep, <1>1, <1>2, PTL DEF EvidenceSpec

-----------------------------------------------------------------------------
(* Guides: what a block of the guided procedure set is on record.          *)

\* What the endpoints, the files and the blocks can hold.
Anything == Values \cup {"unset"}
Files == [computer : Endpoint \cup {"none"}, previous : Anything, applied : Anything]
Blocks == [kind : {"none", "apply", "rollback"},
           next : {"none", "drift", "protection", "backup", "set", "confirm"},
           on : Endpoint \cup {"none"}, before : Anything, file : Files]
Sides == [value : Anything, protected : BOOLEAN, by : {"management", "block"}]
GuidesTypeOK ==
    /\ registry \in [Endpoint -> Sides]
    /\ backups \subseteq Files /\ block \in Blocks /\ desired \in Values

\* A block runs on an endpoint that is no controller; before it sets a value,
\* the backup that names this value is written, or was what it started from.
BlockPrepared ==
    /\ block.kind # "none" => block.on \in Endpoint \ DomainControllers
    /\ block.kind = "none" <=> block.next = "none"
    /\ block.kind = "apply" => block.next # "drift"
    /\ block.kind = "rollback" =>
          /\ block.next # "backup"
          /\ block.file \in backups /\ block.file.computer = block.on
    /\ block.kind = "apply" /\ block.next \in {"set", "confirm"} =>
          \E file \in backups : file.computer = block.on /\ file.applied = desired

GuidesInv == GuidesTypeOK /\ BlockPrepared /\ ChangeHasBackup

\* Nothing runs and nothing was set by a block at the start.
LEMMA GuidesInitInv == GuidesInit => GuidesInv
<1> SUFFICES ASSUME GuidesInit PROVE GuidesInv
  OBVIOUS
<1>1. GuidesTypeOK
  BY DEF GuidesInit, GuidesTypeOK, Sides, Anything, Values, Files, Blocks, NoBlock, NoFile
<1>2. BlockPrepared /\ ChangeHasBackup
  BY DEF GuidesInit, BlockPrepared, ChangeHasBackup, NoBlock
<1> QED
  BY <1>1, <1>2 DEF GuidesInv

\* A block that goes on to its next command, or ends, is a block.
LEMMA BlockUpdates ==
  ASSUME NEW b \in Blocks
  PROVE  /\ NoBlock \in Blocks
         /\ \A n \in {"drift", "protection", "backup", "set", "confirm"} :
               [b EXCEPT !.next = n] \in Blocks
  BY DEF Blocks, NoBlock, NoFile, Files, Anything

\* What a block or management does to an endpoint leaves it one.
LEMMA SideUpdates ==
  ASSUME NEW s \in Sides
  PROVE  /\ \A v \in Anything : /\ [s EXCEPT !.value = v, !.by = "management"] \in Sides
                                /\ [s EXCEPT !.value = v, !.by = "block"] \in Sides
         /\ [s EXCEPT !.protected = ~s.protected] \in Sides
  BY DEF Sides

\* Every step keeps the invariant.
LEMMA GuidesStep ==
  ASSUME GuidesInv, GuidesNext
  PROVE  GuidesInv'
<1> USE DEF GuidesInv, BlockPrepared, ChangeHasBackup
<1>1. ASSUME CheckDrift PROVE GuidesInv'
  <2>1. GuidesTypeOK'
    BY <1>1, BlockUpdates DEF CheckDrift, Continue, GuidesTypeOK
  <2>2. block' = NoBlock \/ (block' = [block EXCEPT !.next = "protection"] /\ block.kind = "rollback")
    BY <1>1 DEF CheckDrift, Continue, CommandAt
  <2> QED
    BY <1>1, <2>1, <2>2 DEF CheckDrift, NoBlock, GuidesTypeOK, Blocks
<1>2. ASSUME CheckProtection PROVE GuidesInv'
  <2>1. GuidesTypeOK'
    BY <1>2, BlockUpdates DEF CheckProtection, Continue, GuidesTypeOK
  <2>2. \/ block' = NoBlock
        \/ block' = [block EXCEPT !.next = "backup"] /\ block.kind = "apply"
        \/ block' = [block EXCEPT !.next = "set"] /\ block.kind = "rollback"
    BY <1>2 DEF CheckProtection, Continue, GuidesTypeOK, Blocks
  <2> QED
    BY <1>2, <2>1, <2>2 DEF CheckProtection, NoBlock, GuidesTypeOK, Blocks
<1>3. ASSUME WriteBackup PROVE GuidesInv'
  <2> DEFINE file == [computer |-> block.on, previous |-> block.before, applied |-> desired]
  <2>1. file \in Files
    BY DEF GuidesTypeOK, Blocks, Files, Anything
  <2>2. GuidesTypeOK'
    BY <1>3, <2>1, BlockUpdates DEF WriteBackup, Continue, GuidesTypeOK
  <2>3. file \in backups' /\ file.computer = block.on /\ file.applied = desired
    BY <1>3 DEF WriteBackup
  <2>4. block' = [block EXCEPT !.next = "set"] /\ block.kind = "apply"
    BY <1>3 DEF WriteBackup, Continue, CommandAt
  <2>5. block'.kind = "apply" /\ block'.next = "set" /\ block'.on = block.on
    BY <2>4 DEF GuidesTypeOK, Blocks
  <2>6. BlockPrepared'
    BY <1>3, <2>3, <2>4, <2>5 DEF WriteBackup
  <2>7. ChangeHasBackup'
    BY <1>3 DEF WriteBackup
  <2> QED
    BY <2>2, <2>6, <2>7
<1>4. ASSUME SetValue PROVE GuidesInv'
  <2> DEFINE value == IF block.kind = "apply" THEN desired ELSE block.file.previous
  <2>1. block' = [block EXCEPT !.next = "confirm"] /\ block.kind # "none"
    BY <1>4 DEF SetValue, Continue
  <2>2. block'.kind = block.kind /\ block'.next = "confirm" /\ block'.on = block.on /\ block'.file = block.file
    BY <2>1 DEF GuidesTypeOK, Blocks
  <2>3. value \in Anything
    BY DEF GuidesTypeOK, Blocks, Files, Anything
  <2>4. \/ registry' = registry
        \/ registry' = [registry EXCEPT ![block.on].value = value, ![block.on].by = "block"]
    BY <1>4 DEF SetValue, SetPreference
  <2>5. GuidesTypeOK'
    <3>1. registry' \in [Endpoint -> Sides]
      <4>1. block.on \in Endpoint
        BY <2>1
      <4>2. [registry[block.on] EXCEPT !.value = value, !.by = "block"] \in Sides
        BY <2>3, <4>1, SideUpdates DEF GuidesTypeOK
      <4>3. CASE registry' = registry
        BY <4>3 DEF GuidesTypeOK
      <4>4. CASE registry' = [registry EXCEPT ![block.on] =
                                 [registry[block.on] EXCEPT !.value = value, !.by = "block"]]
        BY <4>1, <4>2, <4>4 DEF GuidesTypeOK
      <4> QED
        BY <2>4, <4>1, <4>3, <4>4 DEF GuidesTypeOK
    <3> QED
      BY <1>4, <2>1, <3>1, BlockUpdates DEF SetValue, GuidesTypeOK
  <2>6. BlockPrepared'
    BY <1>4, <2>1, <2>2 DEF SetValue
  <2>7. \E file \in backups : file.computer = block.on /\ value \in {file.applied, file.previous}
    <3>1. CASE block.kind = "apply"
      BY <1>4, <3>1 DEF SetValue
    <3>2. CASE block.kind = "rollback"
      BY <3>2
    <3> QED
      BY <2>1, <3>1, <3>2 DEF GuidesTypeOK, Blocks
  <2>8. ChangeHasBackup'
    <3> SUFFICES ASSUME NEW e \in Endpoint, registry'[e].by = "block"
                 PROVE  /\ e \notin DomainControllers
                        /\ \E file \in backups : file.computer = e
                              /\ registry'[e].value \in {file.applied, file.previous}
      BY <1>4 DEF SetValue
    <3>1. CASE registry'[e] = registry[e]
      BY <3>1
    <3>2. CASE registry'[e] # registry[e]
      <4>1. e = block.on /\ registry'[e].value = value
        <5>1. registry' = [registry EXCEPT ![block.on] =
                              [registry[block.on] EXCEPT !.value = value, !.by = "block"]]
          BY <2>4, <3>2 DEF GuidesTypeOK
        <5>2. e = block.on
          BY <3>2, <5>1 DEF GuidesTypeOK
        <5>3. registry'[e] = [registry[e] EXCEPT !.value = value, !.by = "block"]
          BY <5>1, <5>2 DEF GuidesTypeOK
        <5> QED
          BY <5>2, <5>3 DEF GuidesTypeOK, Sides
      <4> QED
        BY <2>1, <2>7, <4>1
    <3> QED
      BY <3>1, <3>2
  <2> QED
    BY <2>5, <2>6, <2>8
<1>5. ASSUME block' = NoBlock, UNCHANGED <<registry, backups, desired>> PROVE GuidesInv'
  BY <1>5, BlockUpdates DEF GuidesTypeOK, NoBlock
<1>6. ASSUME NEW e \in Endpoint, RunApply(e) PROVE GuidesInv'
  <2> DEFINE started == [NoBlock EXCEPT !.kind = "apply", !.next = "protection", !.on = e,
                                        !.before = registry[e].value]
  <2>1. started \in Blocks
    BY DEF GuidesTypeOK, Sides, Blocks, NoBlock, NoFile, Files, Anything
  <2>2. CASE block' = NoBlock
    BY <1>5, <1>6, <2>2 DEF RunApply
  <2>3. CASE block' = started /\ e \notin DomainControllers
    <3>1. block'.kind = "apply" /\ block'.next = "protection" /\ block'.on = e
      BY <2>3 DEF NoBlock
    <3> QED
      BY <1>6, <2>1, <2>3, <3>1 DEF RunApply, GuidesTypeOK
  <2> QED
    BY <1>6, <2>2, <2>3 DEF RunApply
<1>7. ASSUME NEW e \in Endpoint, NEW file \in backups, RunRollback(e, file) PROVE GuidesInv'
  <2> DEFINE started == [NoBlock EXCEPT !.kind = "rollback", !.next = "drift", !.on = e,
                                        !.file = file]
  <2>1. started \in Blocks
    BY DEF GuidesTypeOK, Sides, Blocks, NoBlock, NoFile, Files, Anything
  <2>2. CASE block' = NoBlock
    BY <1>5, <1>7, <2>2 DEF RunRollback
  <2>3. CASE block' = started /\ e \notin DomainControllers /\ file.computer = e
    <3>1. block'.kind = "rollback" /\ block'.next = "drift" /\ block'.on = e /\ block'.file = file
      BY <2>3 DEF NoBlock
    <3> QED
      BY <1>7, <2>1, <2>3, <3>1 DEF RunRollback, GuidesTypeOK
  <2> QED
    BY <1>7, <2>2, <2>3 DEF RunRollback
<1>8. ASSUME NEW e \in Endpoint, NEW value \in Values, ManagementSets(e, value) PROVE GuidesInv'
  <2>1. registry' \in [Endpoint -> Sides]
    <3>1. [registry[e] EXCEPT !.value = value, !.by = "management"] \in Sides
      BY SideUpdates DEF GuidesTypeOK, Anything
    <3>2. registry' = [registry EXCEPT ![e] = [registry[e] EXCEPT !.value = value, !.by = "management"]]
      BY <1>8 DEF ManagementSets, GuidesTypeOK
    <3> QED
      BY <3>1, <3>2 DEF GuidesTypeOK
  <2>2. GuidesTypeOK' /\ BlockPrepared'
    BY <1>8, <2>1 DEF ManagementSets, GuidesTypeOK
  <2>3. ASSUME NEW x \in Endpoint, registry'[x].by = "block"
        PROVE  registry'[x].by = registry[x].by /\ registry'[x].value = registry[x].value
    <3>1. CASE x = e
      BY <1>8, <2>3, <3>1 DEF ManagementSets, GuidesTypeOK
    <3>2. CASE x # e
      BY <1>8, <3>2 DEF ManagementSets, GuidesTypeOK
    <3> QED
      BY <3>1, <3>2
  <2>4. ChangeHasBackup'
    BY <1>8, <2>3 DEF ManagementSets
  <2> QED
    BY <2>2, <2>4
<1>9. ASSUME NEW e \in Endpoint, ManagementProtects(e) PROVE GuidesInv'
  <2>1. registry' \in [Endpoint -> Sides]
    <3>1. [registry[e] EXCEPT !.protected = ~registry[e].protected] \in Sides
      BY SideUpdates DEF GuidesTypeOK, Anything
    <3>2. registry' = [registry EXCEPT ![e] = [registry[e] EXCEPT !.protected = ~registry[e].protected]]
      BY <1>9 DEF ManagementProtects, GuidesTypeOK
    <3> QED
      BY <3>1, <3>2 DEF GuidesTypeOK
  <2>2. GuidesTypeOK' /\ BlockPrepared'
    BY <1>9, <2>1 DEF ManagementProtects, GuidesTypeOK
  <2>3. ASSUME NEW x \in Endpoint, registry'[x].by = "block"
        PROVE  registry'[x].by = registry[x].by /\ registry'[x].value = registry[x].value
    <3>1. CASE x = e
      BY <1>9, <2>3, <3>1 DEF ManagementProtects, GuidesTypeOK
    <3>2. CASE x # e
      BY <1>9, <3>2 DEF ManagementProtects, GuidesTypeOK
    <3> QED
      BY <3>1, <3>2
  <2>4. ChangeHasBackup'
    BY <1>9, <2>3 DEF ManagementProtects
  <2> QED
    BY <2>2, <2>4
<1> QED
  BY <1>1, <1>2, <1>3, <1>4, <1>5, <1>6, <1>7, <1>8, <1>9
     DEF GuidesNext, ConfirmValue, Interrupt

\* What a block set on an endpoint is in a backup of that endpoint, and no
\* controller is ever touched (ChangeHasBackup).
THEOREM ChangesAreBackedUp == GuidesSpec => []ChangeHasBackup
<1>1. GuidesInv /\ UNCHANGED guideVars => GuidesInv'
  BY DEF guideVars, GuidesInv, GuidesTypeOK, BlockPrepared, ChangeHasBackup
<1>2. GuidesInv => ChangeHasBackup
  BY DEF GuidesInv
<1> QED
  BY GuidesInitInv, GuidesStep, <1>1, <1>2, PTL DEF GuidesSpec

-----------------------------------------------------------------------------
(* The connection: what the page knows of the service, whoever learns of a *)
(* restart first and whatever is in flight then.                           *)

\* What the page, a task, the probe, the poll and the service can hold.
Modes == {"SETUP", "WINDOWS"}
Knowledge == [process : Nat, mode : Modes, session : Nat, record : Nat, offline : BOOLEAN,
              transition : BOOLEAN, dialog : {"none", "rollback", "gpupdate"},
              unprobed : BOOLEAN]
Duties == [kind : {"none", "refresh", "readiness", "sign-in", "inspect", "confirm", "submit",
                   "gate", "promote"},
           stage : {"none", "service", "account", "report", "prompt", "session", "asked", "read",
                    "authorize", "post", "reload", "wait", "save"},
           previous : Nat, session : Nat, record : Nat, seen : Nat, can : BOOLEAN]
Probes == [on : BOOLEAN, previous : Nat, mode : Modes]
Polls == [stage : {"none", "asked", "read"}, previous : Nat, record : Nat]
Hosts == [process : Nat \ {0}, mode : Modes, up : BOOLEAN, session : BOOLEAN, record : Nat]

\* What the page knows is not ahead of the service. An account of an earlier
\* process is known under a later one only in setup mode, which is then the
\* mode of that process too (and where a place that keeps it is written down).
Known(c, h) ==
    /\ c \in Knowledge /\ h \in Hosts
    /\ c.process <= h.process /\ c.session <= h.process /\ c.record <= h.record
    /\ c.session # 0 /\ ~c.unprobed /\ c.session < c.process =>
          c.mode = "SETUP" /\ (c.process = h.process => h.mode = "SETUP")
\* A task began with what the page knew then. What an inspection read is not
\* older than the record that was on the screen when it was asked for.
Began(d, c, h) ==
    /\ d \in Duties /\ d.previous <= c.process
    /\ d.kind \in {"inspect", "confirm"} =>
          /\ d.session # 0 /\ d.record <= h.record
          /\ d.stage = "read" => d.record <= d.seen
Asked(p, c, h) == p \in Polls /\ p.previous <= c.process /\ p.record <= h.record
ConsoleInv ==
    Known(con, host) /\ Began(duty, con, host) /\ Asked(poll, con, host) /\ probe \in Probes

-----------------------------------------------------------------------------
\* A page that learns more under the same service keeps its task and its poll.
LEMMA LearnedKeeps ==
  ASSUME ConsoleInv, NEW c, Known(c, host), con.process <= c.process
  PROVE  Began(duty, c, host) /\ Asked(poll, c, host) /\ Began(NoDuty, c, host)
         /\ Asked(NoPoll, c, host)
  BY DEF ConsoleInv, Known, Began, Asked, Knowledge, Hosts, Duties, Polls, NoDuty, NoPoll

\* Dropping the account leaves nothing to be foreign.
LEMMA Cleared ==
  ASSUME NEW c, NEW h, c \in Knowledge, h \in Hosts, c.process <= h.process, c.record <= h.record
  PROVE  /\ Known(clearDelegatedState(c), h)
         /\ clearDelegatedState(c).process = c.process
         /\ clearDelegatedState(c).record = c.record
         /\ clearDelegatedState(c).dialog = c.dialog
<1> DEFINE left == clearDelegatedState(c)
<1>1. /\ left \in Knowledge /\ left.session = 0
      /\ left.process = c.process /\ left.record = c.record /\ left.dialog = c.dialog
  BY DEF Knowledge, clearDelegatedState
<1>2. h.process \in Nat /\ 0 <= h.process
  BY DEF Hosts
<1> HIDE DEF left
<1>3. Known(left, h)
  BY <1>1, <1>2 DEF Known
<1> QED
  BY <1>1, <1>3 DEF left

\* Whoever reads the service and knew its process before keeps an account of
\* that process only.
LEMMA NoticedKnown ==
  ASSUME ConsoleInv, NEW previous \in Nat, previous <= con.process
  PROVE  /\ Known(Noticed(con, previous), host)
         /\ Noticed(con, previous).process = host.process
         /\ Noticed(con, previous).dialog = con.dialog
<1> DEFINE read == [con EXCEPT !.process = host.process, !.mode = host.mode, !.offline = FALSE]
<1>1. /\ read \in Knowledge /\ read.process = host.process /\ read.session = con.session
      /\ read.record = con.record /\ read.unprobed = con.unprobed /\ read.mode = host.mode
      /\ read.dialog = con.dialog
  BY DEF ConsoleInv, Known, Knowledge, Hosts
<1>2. host \in Hosts /\ host.process \in Nat /\ con.process \in Nat /\ con.process <= host.process
      /\ con.record <= host.record
  BY DEF ConsoleInv, Known, Hosts, Knowledge
<1>3. CASE host.process # previous \/ host.mode # "WINDOWS"
  <2>1. Noticed(con, previous) = clearDelegatedState(read)
    BY <1>3 DEF Noticed
  <2> HIDE DEF read
  <2>2. read.process <= host.process /\ read.record <= host.record
    BY <1>1, <1>2
  <2> QED
    BY <1>1, <1>2, <2>1, <2>2, Cleared
<1>4. CASE host.process = previous /\ host.mode = "WINDOWS"
  <2>1. Noticed(con, previous) = read
    BY <1>4 DEF Noticed
  <2>2. con.process = host.process
    BY <1>2, <1>4
  <2>3. con.session # 0 /\ ~con.unprobed => ~(con.session < con.process)
    BY <1>4, <2>2 DEF ConsoleInv, Known
  <2> HIDE DEF read
  <2> QED
    BY <1>1, <1>2, <2>1, <2>2, <2>3 DEF Known, ConsoleInv
<1> QED
  BY <1>3, <1>4 DEF ConsoleInv, Known, Hosts

\* The same without the records of a service in setup mode, and after a fault.
LEMMA WithoutRecordsKnown ==
  ASSUME NEW c, NEW h, Known(c, h)
  PROVE  /\ Known(WithoutRecords(c), h) /\ WithoutRecords(c).process = c.process
         /\ WithoutRecords(c).dialog = c.dialog
  BY DEF Known, Knowledge, Hosts, WithoutRecords
\* What the page makes of a failed request is still of a process that ran.
LEMMA FaultKnown ==
  ASSUME ConsoleInv, NEW previous \in Nat, previous <= con.process
  PROVE  /\ Known(syncServiceAfterFault(con, previous), host)
         /\ con.process <= syncServiceAfterFault(con, previous).process
         /\ syncServiceAfterFault(con, previous).dialog = con.dialog
<1> DEFINE unreached(c) == [c EXCEPT !.offline = TRUE]
<1>1. ASSUME NEW c, Known(c, host)
      PROVE  Known(unreached(c), host) /\ unreached(c).process = c.process
             /\ unreached(c).dialog = c.dialog
  BY <1>1 DEF Known, Knowledge
<1>2. Known(clearDelegatedState(con), host) /\ clearDelegatedState(con).process = con.process
      /\ clearDelegatedState(con).dialog = con.dialog
  BY Cleared DEF ConsoleInv, Known
<1>3. Known(con, host) /\ con.process <= con.process /\ con.process <= host.process
  BY DEF ConsoleInv, Known, Knowledge
<1>4. CASE con.transition
  <2>1. syncServiceAfterFault(con, previous) = unreached(clearDelegatedState(con))
    BY <1>4 DEF syncServiceAfterFault
  <2> HIDE DEF unreached
  <2> QED
    BY <1>1, <1>2, <1>3, <2>1
<1>5. CASE ~con.transition /\ host.up
  <2>1. syncServiceAfterFault(con, previous) = WithoutRecords(Noticed(con, previous))
    BY <1>5 DEF syncServiceAfterFault
  <2> QED
    BY <1>3, <2>1, NoticedKnown, WithoutRecordsKnown
<1>6. CASE ~con.transition /\ ~host.up
  <2>1. syncServiceAfterFault(con, previous) = unreached(con)
    BY <1>6 DEF syncServiceAfterFault
  <2> HIDE DEF unreached
  <2> QED
    BY <1>1, <1>3, <2>1
<1> QED
  BY <1>4, <1>5, <1>6
\* A service that goes on leaves what was known of it known.
LEMMA ServiceMoves ==
  ASSUME NEW h, NEW c, NEW g, NEW d, NEW p, Known(c, h), g \in Hosts,
         h.process <= g.process, h.record <= g.record,
         h.process = g.process => g.mode = h.mode
  PROVE  /\ Known(c, g)
         /\ Began(d, c, h) => Began(d, c, g)
         /\ Asked(p, c, h) => Asked(p, c, g)
<1>1. /\ c \in Knowledge /\ c.process \in Nat /\ c.session \in Nat /\ c.record \in Nat
      /\ h.process \in Nat /\ g.process \in Nat /\ h.record \in Nat /\ g.record \in Nat
      /\ h.process # 0 /\ g.process # 0
  BY DEF Known, Knowledge, Hosts
<1>2. Known(c, g)
  <2>1. c.process <= g.process /\ c.session <= g.process /\ c.record <= g.record
    BY <1>1 DEF Known
  <2>2. c.process = g.process => h.process = g.process
    BY <1>1 DEF Known
  <2> QED
    BY <1>1, <2>1, <2>2 DEF Known
<1>3. Began(d, c, h) => Began(d, c, g)
  BY <1>1 DEF Began, Duties
<1>4. Asked(p, c, h) => Asked(p, c, g)
  BY <1>1 DEF Asked, Polls
<1> QED
  BY <1>2, <1>3, <1>4

\* The page as it is loaded knows of nothing the process does not have.
LEMMA ConsoleInitInv == ConsoleInit => ConsoleInv
<1> SUFFICES ASSUME ConsoleInit PROVE ConsoleInv
  OBVIOUS
<1>1. host \in Hosts /\ host.process = 1 /\ host.record = 1
  <2>1. PICK m \in Modes :
            host = [process |-> 1, mode |-> m, up |-> TRUE, session |-> FALSE, record |-> 1]
    BY DEF ConsoleInit, Modes
  <2>2. [process |-> 1, mode |-> m, up |-> TRUE, session |-> FALSE, record |-> 1] \in Hosts
    BY DEF Hosts
  <2> QED
    BY <2>1, <2>2
<1>2. con \in Knowledge /\ con.process = 1 /\ con.session = 0 /\ con.record = 0
  BY <1>1 DEF ConsoleInit, Fresh, Knowledge, Hosts, Modes
<1>3. Known(con, host)
  BY <1>1, <1>2 DEF Known
<1> QED
  BY <1>2, <1>3 DEF ConsoleInit, ConsoleInv, Began, Asked, NoDuty, NoPoll, NoProbe, Duties, Polls,
                    Probes, Modes, Known, Hosts

\* The service by itself.
LEMMA ServiceSteps ==
  ASSUME ConsoleInv, HostStops \/ HostStarts \/ AccountExpires \/ RecordMoves
  PROVE  ConsoleInv'
<1>1. host \in Hosts /\ UNCHANGED <<con, duty, probe, poll>>
  BY DEF ConsoleInv, Known, HostStops, HostStarts, AccountExpires, RecordMoves
<1>2. /\ host' \in Hosts /\ host.process <= host'.process /\ host.record <= host'.record
      /\ host.process = host'.process => host'.mode = host.mode
  <2> host.process \in Nat /\ host.record \in Nat
    BY <1>1 DEF Hosts
  <2>1. CASE HostStops
    <3>1. host' = [host EXCEPT !.up = FALSE, !.session = FALSE]
      BY <2>1 DEF HostStops
    <3>2. host' \in Hosts
      BY <1>1, <3>1 DEF Hosts
    <3>3. host'.process = host.process /\ host'.mode = host.mode /\ host'.record = host.record
      BY <1>1, <3>1 DEF Hosts
    <3> QED
      BY <3>2, <3>3
  <2>2. CASE HostStarts
    <3>1. PICK m \in Modes : host' = [host EXCEPT !.up = TRUE, !.process = @ + 1, !.mode = m]
      BY <2>2 DEF HostStarts, Modes
    <3>2. host' \in Hosts
      <4>1. host.process + 1 \in Nat \ {0}
        OBVIOUS
      <4>2. host' = [[[host EXCEPT !.up = TRUE] EXCEPT !.process = host.process + 1]
                        EXCEPT !.mode = m]
        BY <1>1, <3>1 DEF Hosts
      <4> QED
        BY <1>1, <4>1, <4>2 DEF Hosts
    <3>3. host'.process = host.process + 1 /\ host'.record = host.record
      BY <1>1, <3>1 DEF Hosts
    <3> QED
      BY <3>2, <3>3
  <2>3. CASE AccountExpires
    <3>1. host' = [host EXCEPT !.session = FALSE]
      BY <2>3 DEF AccountExpires
    <3>2. host' \in Hosts
      BY <1>1, <3>1 DEF Hosts
    <3>3. host'.process = host.process /\ host'.mode = host.mode /\ host'.record = host.record
      BY <1>1, <3>1 DEF Hosts
    <3> QED
      BY <3>2, <3>3
  <2>4. CASE RecordMoves
    BY <1>1, <2>4 DEF RecordMoves, Hosts
  <2> QED
    BY <2>1, <2>2, <2>3, <2>4
<1>3. Known(con, host') /\ Began(duty, con, host') /\ Asked(poll, con, host')
  BY <1>2, ServiceMoves DEF ConsoleInv
<1> QED
  BY <1>1, <1>3 DEF ConsoleInv, Known, Began, Asked

\* The page learns: what it knows is replaced, the service stands still, and
\* the task and the poll go on, end, or are left.
LEMMA PageLearns ==
  ASSUME ConsoleInv, UNCHANGED host, Known(con', host), con.process <= con'.process,
         \/ duty' = duty \/ duty' = NoDuty
         \/ Began(duty', con', host),
         poll' = poll \/ poll' = NoPoll \/ Asked(poll', con', host),
         probe' \in Probes
  PROVE  ConsoleInv'
<1>1. Known(con', host')
  BY DEF Known
<1>2. Began(duty', con', host)
  BY LearnedKeeps
<1>3. Asked(poll', con', host)
  BY LearnedKeeps
<1>4. Known(con, host)'
  BY <1>1 DEF Known
<1>5. Began(duty, con, host)'
  BY <1>2 DEF Began
<1>6. Asked(poll, con, host)'
  BY <1>3 DEF Asked
<1> QED
  BY <1>4, <1>5, <1>6 DEF ConsoleInv
\* What is shown of the same account changes nothing of what is known of it.
LEMMA SameAccount ==
  ASSUME NEW c, NEW h, NEW d \in Knowledge, Known(c, h), d.process = c.process,
         d.session = c.session, d.mode = c.mode, d.unprobed = c.unprobed, d.record <= h.record
  PROVE  Known(d, h)
  BY DEF Known
\* An account that was just read is that of the process that answered.
LEMMA SessionJustRead ==
  ASSUME NEW c \in Knowledge, host \in Hosts, c.process <= host.process, c.record <= host.record
  PROVE  /\ Known([c EXCEPT !.session = Session, !.unprobed = FALSE], host)
         /\ [c EXCEPT !.session = Session, !.unprobed = FALSE].process = c.process
<1> DEFINE d == [c EXCEPT !.session = Session, !.unprobed = FALSE]
<1>1. Session \in Nat /\ Session <= host.process /\ (Session # 0 => Session = host.process)
  BY DEF Session, Hosts
<1>2. d \in Knowledge /\ d.session = Session /\ d.process = c.process /\ d.record = c.record
  BY <1>1 DEF Knowledge
<1>3. c.process \in Nat /\ host.process \in Nat
  BY DEF Knowledge, Hosts
<1> HIDE DEF d
<1>4. Known(d, host)
  BY <1>1, <1>2, <1>3 DEF Known
<1> QED
  BY <1>2, <1>4 DEF d

\* A task that begins, and one that goes on.
LEMMA TaskBegins ==
  ASSUME ConsoleInv, NEW kind, NEW stage, TakeDuty(kind, stage), con.process <= con'.process,
         con'.process \in Nat,
         kind \in {"refresh", "readiness", "sign-in", "inspect", "confirm", "submit", "gate",
                   "promote"},
         stage \in {"service", "prompt", "asked", "authorize", "wait", "save"},
         kind \in {"inspect", "confirm"} => con.session # 0
  PROVE  Began(duty', con', host)
<1>1. con.process \in Nat /\ con.session \in Nat /\ con.record \in Nat /\ con.record <= host.record
  BY DEF ConsoleInv, Known, Knowledge
<1>2. duty' = [kind |-> kind, stage |-> stage, previous |-> con.process, session |-> con.session,
               record |-> con.record, seen |-> 0, can |-> FALSE]
  BY DEF TakeDuty, NoDuty
<1>3. duty' \in Duties
  BY <1>1, <1>2 DEF Duties
<1>4. /\ duty'.kind = kind /\ duty'.stage = stage /\ duty'.previous = con.process
      /\ duty'.session = con.session /\ duty'.record = con.record
  BY <1>2
<1> QED
  BY <1>1, <1>3, <1>4 DEF Began
\* A task that goes on to its next request keeps what it read before.
LEMMA TaskGoesOn ==
  ASSUME ConsoleInv, NEW stage, Onward(stage) \/ duty' = [duty EXCEPT !.stage = stage],
         con.process <= con'.process, con'.process \in Nat,
         stage \in {"account", "report", "session", "service", "post", "reload", "wait"}
  PROVE  Began(duty', con', host)
<1>1. duty' = [duty EXCEPT !.stage = stage]
  BY DEF Onward
<1>2. duty \in Duties /\ duty.previous \in Nat /\ con.process \in Nat
  BY DEF ConsoleInv, Known, Began, Knowledge, Duties
<1>3. /\ duty' \in Duties /\ duty'.kind = duty.kind /\ duty'.stage = stage
      /\ duty'.previous = duty.previous /\ duty'.session = duty.session
      /\ duty'.record = duty.record
  BY <1>1, <1>2 DEF Duties
<1> QED
  BY <1>2, <1>3 DEF ConsoleInv, Began

\* The health probe.
LEMMA ProbeSteps ==
  ASSUME ConsoleInv, ProbeStarts \/ ProbeEnds \/ ProbeFails
  PROVE  ConsoleInv'
<1>1. /\ Known(con, host) /\ con \in Knowledge /\ host \in Hosts /\ con.process \in Nat
      /\ host.process \in Nat /\ con.process <= host.process /\ con.record <= host.record
      /\ con.process <= con.process /\ probe \in Probes /\ con.mode \in Modes /\ NoProbe \in Probes
  BY DEF ConsoleInv, Known, Knowledge, Hosts, NoProbe, Probes, Modes
<1>2. CASE ProbeStarts
  <2>1. UNCHANGED <<con, duty, poll, host>> /\ probe' = [on |-> TRUE, previous |-> con.process, mode |-> con.mode]
    BY <1>2 DEF ProbeStarts
  <2>2. probe' \in Probes
    BY <1>1, <2>1 DEF Probes
  <2> QED
    BY <1>1, <2>1, <2>2, PageLearns
<1>3. CASE ProbeFails
  <2>1. UNCHANGED <<duty, poll, host>> /\ probe' = NoProbe /\ con' = [con EXCEPT !.offline = TRUE]
    BY <1>3 DEF ProbeFails, Others
  <2>2. con' \in Knowledge /\ con'.process = con.process /\ con'.session = con.session
        /\ con'.mode = con.mode /\ con'.unprobed = con.unprobed /\ con'.record = con.record
    BY <1>1, <2>1 DEF Knowledge
  <2>3. Known(con', host)
    BY <1>1, <2>2, SameAccount
  <2> QED
    BY <1>1, <2>1, <2>2, <2>3, PageLearns
<1>4. CASE ProbeEnds
  <2> DEFINE read == [con EXCEPT !.process = host.process, !.mode = host.mode,
                                 !.offline = FALSE, !.transition = FALSE]
             lost == IF host.mode # "WINDOWS" THEN probe.mode # host.mode
                     ELSE host.process # probe.previous \/ Session = 0
             account == IF lost THEN clearDelegatedState(read)
                        ELSE IF host.mode = "WINDOWS" /\ con.session # 0
                             THEN [read EXCEPT !.session = Session, !.unprobed = FALSE]
                        ELSE read
  <2>1. UNCHANGED <<duty, poll, host>> /\ probe' = NoProbe
        /\ (con' = account \/ con' = [account EXCEPT !.record = host.record])
    BY <1>4 DEF ProbeEnds, Others
  <2>2. /\ read \in Knowledge /\ read.process = host.process /\ read.record = con.record
        /\ read.session = con.session /\ read.mode = host.mode /\ read.unprobed = con.unprobed
    BY <1>1 DEF Knowledge, Hosts
  <2>3. Known(account, host) /\ account.process = host.process
    <3> HIDE DEF read
    <3>1. read.process <= host.process /\ read.record <= host.record
      BY <1>1, <2>2
    <3>2. CASE lost
      BY <1>1, <2>2, <3>1, <3>2, Cleared
    <3>3. CASE ~lost /\ host.mode = "WINDOWS" /\ con.session # 0
      BY <1>1, <2>2, <3>1, <3>3, SessionJustRead
    <3>4. CASE ~lost /\ ~(host.mode = "WINDOWS" /\ con.session # 0)
      <4>1. account = read /\ (con.session = 0 \/ host.mode = "SETUP")
        BY <1>1, <3>4 DEF Hosts, Modes
      <4>2. con.session <= host.process
        BY DEF ConsoleInv, Known
      <4> QED
        BY <1>1, <2>2, <3>1, <4>1, <4>2 DEF Known
    <3> QED
      BY <3>2, <3>3, <3>4
  <2> HIDE DEF account
  <2>4. Known(con', host) /\ con'.process = host.process
    <3>1. account \in Knowledge /\ host.record \in Nat /\ host.record <= host.record
      BY <1>1, <2>3 DEF Known, Hosts
    <3>2. CASE con' = [account EXCEPT !.record = host.record]
      <4>1. con' \in Knowledge /\ con'.process = account.process /\ con'.session = account.session
            /\ con'.mode = account.mode /\ con'.unprobed = account.unprobed
            /\ con'.record = host.record
        BY <3>1, <3>2 DEF Knowledge
      <4> QED
        BY <2>3, <3>1, <4>1, SameAccount
    <3> QED
      BY <2>1, <2>3, <3>2
  <2> QED
    BY <1>1, <2>1, <2>4, PageLearns
<1> QED
  BY <1>2, <1>3, <1>4
\* A record that is no newer than the service's, and what is shown.
LEMMA RecordDrawn ==
  ASSUME ConsoleInv, NEW r \in Nat, r <= host.record
  PROVE  Known([con EXCEPT !.record = r], host) /\ [con EXCEPT !.record = r].process = con.process
<1> DEFINE c == [con EXCEPT !.record = r]
<1>1. Known(con, host) /\ con \in Knowledge
  BY DEF ConsoleInv, Known
<1>2. c \in Knowledge
  BY <1>1 DEF Knowledge
<1>3. /\ c.process = con.process /\ c.session = con.session /\ c.mode = con.mode
      /\ c.unprobed = con.unprobed /\ c.record = r
  BY <1>1 DEF Knowledge
<1> HIDE DEF c
<1>4. Known(c, host)
  BY <1>1, <1>2, <1>3, SameAccount
<1> QED
  BY <1>3, <1>4 DEF c
\* The transition and offline flags say nothing of a session or a record.
LEMMA FlagsDrawn ==
  ASSUME ConsoleInv, NEW w \in BOOLEAN, NEW o \in BOOLEAN, NEW c,
         \/ c = [con EXCEPT !.transition = w, !.offline = o]
         \/ c = [con EXCEPT !.transition = w] \/ c = [con EXCEPT !.offline = o]
  PROVE  Known(c, host) /\ c.process = con.process
<1>1. Known(con, host) /\ con \in Knowledge /\ con.record <= host.record
  BY DEF ConsoleInv, Known
<1>2. c \in Knowledge
  BY <1>1 DEF Knowledge
<1>3. /\ c.process = con.process /\ c.session = con.session /\ c.mode = con.mode
      /\ c.unprobed = con.unprobed /\ c.record = con.record
  BY <1>1 DEF Knowledge
<1> QED
  BY <1>1, <1>2, <1>3, SameAccount
\* A dialog that opens or closes says nothing of a session or a record.
LEMMA DialogDrawn ==
  ASSUME ConsoleInv, NEW d \in {"none", "rollback", "gpupdate"}, con' = [con EXCEPT !.dialog = d]
  PROVE  Known(con', host) /\ con'.process = con.process
<1>1. Known(con, host) /\ con \in Knowledge /\ con.record <= host.record
  BY DEF ConsoleInv, Known
<1>2. con' \in Knowledge
  BY <1>1 DEF Knowledge
<1>3. /\ con'.process = con.process /\ con'.session = con.session /\ con'.mode = con.mode
      /\ con'.unprobed = con.unprobed /\ con'.record = con.record
  BY <1>1 DEF Knowledge
<1> QED
  BY <1>1, <1>2, <1>3, SameAccount

\* What the page knows of the service, as the steps below need it.
LEMMA Basics ==
  ASSUME ConsoleInv
  PROVE  /\ Known(con, host) /\ con \in Knowledge /\ host \in Hosts
         /\ con.process \in Nat /\ host.process \in Nat /\ host.record \in Nat
         /\ con.process <= con.process /\ con.process <= host.process
         /\ con.record <= host.record /\ host.record <= host.record
         /\ probe \in Probes /\ duty \in Duties /\ poll \in Polls
         /\ duty.previous \in Nat /\ duty.previous <= con.process
         /\ poll.previous \in Nat /\ poll.previous <= con.process
         /\ poll.record \in Nat /\ poll.record <= host.record
         /\ Known(clearDelegatedState(con), host)
         /\ clearDelegatedState(con).process = con.process
         /\ Began(duty, con, host)
<1>1. Known(con, host) /\ con \in Knowledge /\ host \in Hosts /\ con.process <= host.process
      /\ con.record <= host.record
  BY DEF ConsoleInv, Known
<1> QED
  BY <1>1, Cleared DEF ConsoleInv, Known, Began, Asked, Knowledge, Hosts, Duties, Polls

\* A task that an event of the page starts.
LEMMA TaskByItself ==
  ASSUME ConsoleInv, Known(con', host), con.process <= con'.process,
         NEW p \in {0, con.process, host.process}, p <= con'.process,
         NEW kind \in {"sign-in", "refresh", "readiness"}, NEW stage \in {"prompt", "service"},
         \/ duty' = [NoDuty EXCEPT !.kind = kind, !.stage = stage, !.previous = p]
         \/ duty' = [NoDuty EXCEPT !.kind = kind, !.stage = stage] /\ p = 0
  PROVE  Began(duty', con', host)
<1>1. duty' = [kind |-> kind, stage |-> stage, previous |-> p, session |-> 0,
               record |-> 0, seen |-> 0, can |-> FALSE]
  BY DEF NoDuty
<1>2. p \in Nat
  BY Basics
<1>3. [kind |-> kind, stage |-> stage, previous |-> p, session |-> 0,
               record |-> 0, seen |-> 0, can |-> FALSE] \in Duties
  BY <1>2 DEF Duties
<1>4. duty'.kind = kind /\ duty'.previous = p
  BY <1>1
<1> QED
  BY <1>1, <1>3, <1>4 DEF Began

\* The poll of the jobs.
LEMMA PollSteps ==
  ASSUME ConsoleInv, PollStarts \/ PollAnswered \/ PollEnds \/ PollFaults
  PROVE  ConsoleInv'
<1>1. CASE PollStarts
  <2>1. UNCHANGED <<con, duty, probe, host>>
        /\ poll' = [stage |-> "asked", previous |-> con.process, record |-> 0]
    BY <1>1 DEF PollStarts, NoPoll
  <2>2. Asked(poll', con', host)
    BY <2>1, Basics DEF Asked, Polls, Hosts
  <2> QED
    BY <2>1, <2>2, Basics, PageLearns
<1>2. CASE PollAnswered
  <2>1. UNCHANGED <<con, duty, probe, host>>
        /\ poll' = [poll EXCEPT !.stage = "read", !.record = host.record]
    BY <1>2 DEF PollAnswered
  <2>2. Asked(poll', con', host)
    BY <2>1, Basics DEF Asked, Polls
  <2> QED
    BY <2>1, <2>2, Basics, PageLearns
<1>3. CASE PollEnds
  <2>1. UNCHANGED <<duty, probe, host>> /\ poll' = NoPoll /\ con' = [con EXCEPT !.record = poll.record]
    BY <1>3 DEF PollEnds
  <2>2. Known(con', host) /\ con'.process = con.process
    BY <2>1, Basics, RecordDrawn
  <2> QED
    BY <2>1, <2>2, Basics, PageLearns
<1>4. CASE PollFaults
  <2>1. UNCHANGED <<probe, host>> /\ poll' = NoPoll
    BY <1>4 DEF PollFaults
  <2>2. CASE con' = syncServiceAfterFault(con, poll.previous) /\ UNCHANGED duty
    <3>1. Known(con', host) /\ con.process <= con'.process
      BY <2>2, Basics, FaultKnown
    <3> QED
      BY <2>1, <2>2, <3>1, Basics, PageLearns
  <2>3. CASE ExpiredOutside
    <3>1. Known(con', host) /\ con'.process = con.process
      BY <2>3, Basics DEF ExpiredOutside
    <3>2. duty' = duty \/ Began(duty', con', host)
      <4>1. CASE duty' = duty
        BY <4>1
      <4>2. CASE duty' = [NoDuty EXCEPT !.kind = "sign-in", !.stage = "prompt"]
        <5>1. 0 <= con'.process
          BY <3>1, Basics
        <5> QED
          BY <3>1, <4>2, <5>1, Basics, TaskByItself
      <4> QED
        BY <2>3, <4>1, <4>2 DEF ExpiredOutside
    <3> QED
      BY <2>1, <3>1, <3>2, Basics, PageLearns
  <2> QED
    BY <1>4, <2>2, <2>3 DEF PollFaults
<1> QED
  BY <1>1, <1>2, <1>3, <1>4

\* Reading the service and the readiness, and tasks that fail.
LEMMA ReadingSteps ==
  ASSUME ConsoleInv,
         \/ DutyFaults \/ Refresh \/ RefreshReads \/ RefreshEnds
         \/ checkReadiness \/ ReadinessReads \/ ReadinessReported
  PROVE  ConsoleInv'
<1>1. CASE DutyFaults
  <2>1. UNCHANGED <<probe, poll, host>> /\ duty' = NoDuty
        /\ \/ con' = syncServiceAfterFault(con, con.process)
           \/ con' = clearDelegatedState(con) \/ con' = con
    BY <1>1 DEF DutyFaults, Finished
  <2>2. Known(con', host) /\ con.process <= con'.process
    BY <2>1, Basics, FaultKnown
  <2> QED
    BY <2>1, <2>2, Basics, PageLearns
<1>2. CASE Refresh
  <2>1. UNCHANGED con /\ TakeDuty("refresh", "service")
    BY <1>2 DEF Refresh
  <2>2. UNCHANGED <<probe, poll, host>>
    BY <2>1 DEF TakeDuty
  <2>3. Began(duty', con', host)
    BY <2>1, Basics, TaskBegins
  <2> QED
    BY <2>1, <2>2, <2>3, Basics, PageLearns
<1>3. CASE RefreshReads
  <2>1. UNCHANGED <<probe, poll, host>>
        /\ con' = WithoutRecords([Noticed(con, duty.previous) EXCEPT !.transition = FALSE])
        /\ (duty' = NoDuty \/ Onward("account"))
    BY <1>3 DEF RefreshReads, Finished, Onward
  <2> DEFINE seen == Noticed(con, duty.previous)
             shown == [seen EXCEPT !.transition = FALSE]
  <2>2. Known(seen, host) /\ seen.process = host.process
    BY Basics, NoticedKnown
  <2> HIDE DEF seen
  <2>3. shown \in Knowledge /\ shown.process = seen.process /\ shown.session = seen.session
        /\ shown.mode = seen.mode /\ shown.unprobed = seen.unprobed /\ shown.record = seen.record
        /\ seen.record <= host.record
    BY <2>2 DEF Known, Knowledge
  <2> HIDE DEF shown
  <2>4. Known(shown, host)
    BY <2>2, <2>3, SameAccount
  <2>5. con' = WithoutRecords(shown)
    BY <2>1 DEF shown, seen
  <2>6. Known(con', host) /\ con'.process = host.process
    BY <2>2, <2>3, <2>4, <2>5, WithoutRecordsKnown
  <2>7. duty' = NoDuty \/ Began(duty', con', host)
    BY <2>1, <2>6, Basics, TaskGoesOn
  <2> QED
    BY <2>1, <2>6, <2>7, Basics, PageLearns
<1>4. CASE RefreshEnds
  <2>1. UNCHANGED <<probe, poll, host>> /\ duty' = NoDuty
        /\ con' = IF Session = 0 THEN [clearDelegatedState(con) EXCEPT !.record = host.record]
                  ELSE [con EXCEPT !.session = Session, !.record = host.record, !.unprobed = FALSE]
    BY <1>4 DEF RefreshEnds, Finished
  <2> DEFINE base == IF Session = 0 THEN clearDelegatedState(con)
                     ELSE [con EXCEPT !.session = Session, !.unprobed = FALSE]
  <2>2. Known(base, host) /\ base.process = con.process
    BY Basics, SessionJustRead
  <2>3. con' = [base EXCEPT !.record = host.record]
    BY <2>1, Basics DEF Knowledge
  <2> HIDE DEF base
  <2>4. con' \in Knowledge /\ con'.process = base.process /\ con'.session = base.session
        /\ con'.mode = base.mode /\ con'.unprobed = base.unprobed /\ con'.record = host.record
    BY <2>2, <2>3, Basics DEF Known, Knowledge
  <2>5. Known(con', host)
    BY <2>2, <2>4, Basics, SameAccount
  <2> QED
    BY <2>1, <2>2, <2>4, <2>5, Basics, PageLearns
<1>5. CASE checkReadiness
  <2>1. UNCHANGED con /\ TakeDuty("readiness", "service")
    BY <1>5 DEF checkReadiness
  <2>2. UNCHANGED <<probe, poll, host>>
    BY <2>1 DEF TakeDuty
  <2>3. Began(duty', con', host)
    BY <2>1, Basics, TaskBegins
  <2> QED
    BY <2>1, <2>2, <2>3, Basics, PageLearns
<1>6. CASE ReadinessReads
  <2>1. /\ con' = IF host.up THEN WithoutRecords(Noticed(con, duty.previous))
                  ELSE [con EXCEPT !.offline = TRUE]
        /\ Finished \/ Onward("report")
    BY <1>6 DEF ReadinessReads
  <2>2. Known(con', host) /\ con.process <= con'.process /\ con'.process \in Nat
    <3>1. CASE host.up
      BY <2>1, <3>1, Basics, NoticedKnown, WithoutRecordsKnown
    <3>2. CASE ~host.up
      BY <2>1, <3>2, Basics, FlagsDrawn
    <3> QED
      BY <3>1, <3>2
  <2>3. duty' = NoDuty \/ Began(duty', con', host)
    BY <2>1, <2>2, TaskGoesOn DEF Finished
  <2>4. UNCHANGED <<probe, poll, host>>
    BY <2>1 DEF Finished, Onward
  <2> QED
    BY <2>2, <2>3, <2>4, Basics, PageLearns
<1>7. CASE ReadinessReported
  <2>1. UNCHANGED <<con, probe, poll, host>> /\ duty' = NoDuty
    BY <1>7 DEF ReadinessReported, Finished
  <2> QED
    BY <2>1, Basics, PageLearns
<1> QED
  BY <1>1, <1>2, <1>3, <1>4, <1>5, <1>6, <1>7
\* Signing in and out.
LEMMA SignInSteps ==
  ASSUME ConsoleInv,
         OpenSignInScreen \/ AccountAccepted \/ completeDomainSignIn \/ DisconnectAccount
  PROVE  ConsoleInv'
<1>1. CASE OpenSignInScreen
  <2>1. UNCHANGED con /\ TakeDuty("sign-in", "prompt")
    BY <1>1 DEF OpenSignInScreen
  <2>2. UNCHANGED <<probe, poll, host>>
    BY <2>1 DEF TakeDuty
  <2>3. Began(duty', con', host)
    BY <2>1, Basics, TaskBegins
  <2> QED
    BY <2>1, <2>2, <2>3, Basics, PageLearns
<1>2. CASE AccountAccepted
  <2>1. /\ UNCHANGED <<con, probe, poll>> /\ duty' = [duty EXCEPT !.stage = "session"]
        /\ host' = [host EXCEPT !.session = TRUE]
    BY <1>2 DEF AccountAccepted
  <2>2. host' \in Hosts
    BY <2>1, Basics DEF Hosts
  <2>3. host'.process = host.process /\ host'.mode = host.mode /\ host'.record = host.record
    BY <2>1, Basics DEF Hosts
  <2>4. Began(duty', con, host)
    BY <2>1, Basics, TaskGoesOn
  <2>5. Known(con, host') /\ Began(duty', con, host') /\ Asked(poll, con, host')
    BY <2>2, <2>3, <2>4, Basics, ServiceMoves DEF ConsoleInv
  <2> QED
    BY <2>1, <2>5 DEF ConsoleInv, Known, Began, Asked
<1>3. CASE completeDomainSignIn
  <2>1. CASE /\ con' = [con EXCEPT !.session = Session, !.unprobed = FALSE]
             /\ Onward("service")
    <3>1. Known(con', host) /\ con'.process = con.process
      BY <2>1, Basics, SessionJustRead
    <3>2. Began(duty', con', host)
      BY <2>1, <3>1, Basics, TaskGoesOn
    <3>3. UNCHANGED <<probe, poll, host>>
      BY <2>1 DEF Onward
    <3> QED
      BY <3>1, <3>2, <3>3, Basics, PageLearns
  <2>2. CASE /\ con' = [con EXCEPT !.process = host.process,
                          !.unprobed = con.session # 0 /\ host.process # con.session]
             /\ duty' = [NoDuty EXCEPT !.kind = "readiness", !.stage = "service",
                                       !.previous = host.process]
             /\ UNCHANGED <<probe, poll, host>>
    <3> DEFINE straddled == con.session # 0 /\ host.process # con.session
    <3>1. con' = [con EXCEPT !.process = host.process, !.unprobed = straddled]
      BY <2>2
    <3>2. straddled \in BOOLEAN
      OBVIOUS
    <3>3. ~straddled => con.session = 0 \/ con.session = host.process
      OBVIOUS
    <3> HIDE DEF straddled
    <3>4. con' \in Knowledge
      BY <3>1, <3>2, Basics DEF Knowledge
    <3>5. con'.process = host.process /\ con'.session = con.session /\ con'.record = con.record
      BY <3>1, Basics DEF Knowledge
    <3>6. con'.unprobed = straddled
      BY <3>1, Basics DEF Knowledge
    <3>7. Known(con', host)
      <4>1. con'.session # 0 /\ ~con'.unprobed => ~(con'.session < con'.process)
        BY <3>3, <3>5, <3>6, Basics
      <4> QED
        BY <3>4, <3>5, <4>1, Basics DEF Known
    <3>8. Began(duty', con', host)
      BY <2>2, <3>5, <3>7, Basics, TaskByItself
    <3> QED
      BY <2>2, <3>5, <3>7, <3>8, Basics, PageLearns
  <2> QED
    BY <1>3, <2>1, <2>2 DEF completeDomainSignIn
<1>4. CASE DisconnectAccount
  <2>1. /\ UNCHANGED <<duty, probe, poll>> /\ con' = clearDelegatedState(con)
        /\ host' = [host EXCEPT !.session = FALSE]
    BY <1>4 DEF DisconnectAccount
  <2>2. host' \in Hosts
    BY <2>1, Basics DEF Hosts
  <2>3. host'.process = host.process /\ host'.mode = host.mode /\ host'.record = host.record
    BY <2>1, Basics DEF Hosts
  <2>4. Known(con', host) /\ con'.process = con.process
    BY <2>1, Basics
  <2>5. Began(duty, con', host) /\ Asked(poll, con', host)
    BY <2>4, Basics, LearnedKeeps
  <2>6. Known(con', host') /\ Began(duty', con', host') /\ Asked(poll', con', host')
    <3>1. host.process <= host'.process /\ host.record <= host'.record
      BY <2>3, Basics
    <3>2. Known(con', host')
      BY <2>2, <2>3, <2>4, <3>1, ServiceMoves
    <3>3. Began(duty, con', host')
      BY <2>2, <2>3, <2>4, <2>5, <3>1, ServiceMoves
    <3>4. Asked(poll, con', host')
      BY <2>2, <2>3, <2>4, <2>5, <3>1, ServiceMoves
    <3> QED
      BY <2>1, <3>2, <3>3, <3>4
  <2> QED
    BY <2>1, <2>6, Basics DEF ConsoleInv, Known, Began, Asked
<1> QED
  BY <1>1, <1>2, <1>3, <1>4

\* Inspecting a recorded operation, and submitting what was confirmed.
LEMMA OperationSteps ==
  ASSUME ConsoleInv,
         \/ \E purpose \in {"inspect", "confirm"} : inspectRollback(purpose)
         \/ InspectionAnswered \/ InspectionEnds \/ AskGpupdate \/ CloseDialogs \/ ConfirmDialog
         \/ Authorized \/ JobPosted \/ Reloaded
  PROVE  ConsoleInv'
<1>1. ASSUME NEW purpose \in {"inspect", "confirm"}, inspectRollback(purpose) PROVE ConsoleInv'
  <2>1. UNCHANGED con /\ TakeDuty(purpose, "asked") /\ con.session # 0
    BY <1>1 DEF inspectRollback
  <2>2. UNCHANGED <<probe, poll, host>>
    BY <2>1 DEF TakeDuty
  <2>3. Began(duty', con', host)
    BY <2>1, Basics, TaskBegins
  <2> QED
    BY <2>1, <2>2, <2>3, Basics, PageLearns
<1>2. CASE InspectionAnswered
  <2>1. PICK can \in BOOLEAN :
            duty' = [duty EXCEPT !.stage = "read", !.seen = host.record, !.can = can]
    BY <1>2 DEF InspectionAnswered
  <2>2. UNCHANGED <<con, probe, poll, host>> /\ Inspecting
    BY <1>2 DEF InspectionAnswered
  <2>3. duty' \in Duties
    BY <2>1, Basics DEF Duties
  <2>4. /\ duty'.kind = duty.kind /\ duty'.previous = duty.previous /\ duty'.seen = host.record
        /\ duty'.session = duty.session /\ duty'.record = duty.record
    BY <2>1, Basics DEF Duties
  <2>5. Began(duty', con', host)
    BY <2>2, <2>3, <2>4, Basics DEF Began, Inspecting
  <2> QED
    BY <2>2, <2>5, Basics, PageLearns
<1>3. CASE InspectionEnds
  <2>1. /\ UNCHANGED <<probe, poll, host>> /\ duty' = NoDuty
        /\ con' = con \/ con' = [con EXCEPT !.dialog = "rollback"]
    BY <1>3 DEF InspectionEnds, Finished
  <2>2. Known(con', host) /\ con'.process = con.process
    BY <2>1, Basics, DialogDrawn
  <2> QED
    BY <2>1, <2>2, Basics, PageLearns
<1>4. CASE AskGpupdate \/ CloseDialogs
  <2>1. /\ UNCHANGED <<duty, probe, poll, host>>
        /\ con' = [con EXCEPT !.dialog = "gpupdate"] \/ con' = [con EXCEPT !.dialog = "none"]
    BY <1>4 DEF AskGpupdate, CloseDialogs
  <2>2. Known(con', host) /\ con'.process = con.process
    BY <2>1, DialogDrawn
  <2> QED
    BY <2>1, <2>2, Basics, PageLearns
<1>5. CASE ConfirmDialog
  <2>1. con' = [con EXCEPT !.dialog = "none"] /\ TakeDuty("submit", "authorize")
    BY <1>5 DEF ConfirmDialog
  <2>2. Known(con', host) /\ con'.process = con.process
    BY <2>1, DialogDrawn
  <2>3. UNCHANGED <<probe, poll, host>>
    BY <2>1 DEF TakeDuty
  <2>4. Began(duty', con', host)
    BY <2>1, <2>2, Basics, TaskBegins
  <2> QED
    BY <2>2, <2>3, <2>4, Basics, PageLearns
<1>6. CASE Authorized
  <2>1. UNCHANGED con /\ Onward("post")
    BY <1>6 DEF Authorized
  <2>2. Began(duty', con', host) /\ UNCHANGED <<probe, poll, host>>
    BY <2>1, Basics, TaskGoesOn DEF Onward
  <2> QED
    BY <2>1, <2>2, Basics, PageLearns
<1>7. CASE JobPosted
  <2>1. /\ UNCHANGED <<con, probe, poll>> /\ duty' = [duty EXCEPT !.stage = "reload"]
        /\ host' = [host EXCEPT !.record = host.record + 1]
    BY <1>7, Basics DEF JobPosted, Hosts
  <2>2. host' \in Hosts
    BY <2>1, Basics DEF Hosts
  <2>3. /\ host'.process = host.process /\ host'.mode = host.mode
        /\ host.process <= host'.process /\ host.record <= host'.record
    BY <2>1, Basics DEF Hosts
  <2>4. Began(duty', con, host)
    BY <2>1, Basics, TaskGoesOn
  <2>5. Known(con, host') /\ Began(duty', con, host') /\ Asked(poll, con, host')
    BY <2>2, <2>3, <2>4, Basics, ServiceMoves DEF ConsoleInv
  <2> QED
    BY <2>1, <2>5 DEF ConsoleInv, Known, Began, Asked
<1>8. CASE Reloaded
  <2>1. /\ UNCHANGED <<probe, poll, host>> /\ duty' = NoDuty
        /\ con' = con \/ con' = [con EXCEPT !.record = host.record]
    BY <1>8 DEF Reloaded, Finished
  <2>2. Known(con', host) /\ con'.process = con.process
    BY <2>1, Basics, RecordDrawn
  <2> QED
    BY <2>1, <2>2, Basics, PageLearns
<1> QED
  BY <1>1, <1>2, <1>3, <1>4, <1>5, <1>6, <1>7, <1>8
\* A page that is loaded anew knows what the service is and no account.
LEMMA FreshKnown ==
  ASSUME ConsoleInv
  PROVE  Known(Fresh(host.process, host.mode), host)
         /\ Fresh(host.process, host.mode).process = host.process
<1> DEFINE c == Fresh(host.process, host.mode)
<1>1. c \in Knowledge
  BY Basics DEF Fresh, Knowledge, Hosts, Modes
<1>2. c.process = host.process /\ c.session = 0 /\ c.record = 0
  BY DEF Fresh
<1> HIDE DEF c
<1>3. Known(c, host)
  BY <1>1, <1>2, Basics DEF Known
<1> QED
  BY <1>2, <1>3 DEF c

\* Restarts that the page waits for, and those it is told of.
LEMMA RestartSteps ==
  ASSUME ConsoleInv,
         \/ AwaitRestart \/ RestartAwaited \/ StartWindows \/ PromotionSaved
         \/ waitForWindowsPromotion \/ RestartAnnounced \/ ReadyAnnounced
  PROVE  ConsoleInv'
<1>1. CASE AwaitRestart
  <2>1. con' = [con EXCEPT !.transition = TRUE, !.offline = FALSE] /\ TakeDuty("gate", "wait")
    BY <1>1 DEF AwaitRestart
  <2>2. Known(con', host) /\ con'.process = con.process
    BY <2>1, FlagsDrawn
  <2>3. UNCHANGED <<probe, poll, host>>
    BY <2>1 DEF TakeDuty
  <2>4. Began(duty', con', host)
    BY <2>1, <2>2, Basics, TaskBegins
  <2> QED
    BY <2>2, <2>3, <2>4, Basics, PageLearns
<1>2. CASE RestartAwaited
  <2>1. UNCHANGED <<probe, poll, host>> /\ duty' = NoDuty
    BY <1>2 DEF RestartAwaited, Finished
  <2>2. CASE con' = [con EXCEPT !.transition = FALSE]
    <3>1. Known(con', host) /\ con'.process = con.process
      BY <2>2, FlagsDrawn
    <3> QED
      BY <2>1, <3>1, Basics, PageLearns
  <2>3. CASE con' = [con EXCEPT !.process = host.process, !.transition = FALSE,
                                !.unprobed = con.session # 0]
    <3> DEFINE kept == con.session # 0
    <3>1. con' = [con EXCEPT !.process = host.process, !.transition = FALSE, !.unprobed = kept]
      BY <2>3
    <3>2. kept \in BOOLEAN /\ (~kept => con.session = 0)
      OBVIOUS
    <3> HIDE DEF kept
    <3>3. con' \in Knowledge
      BY <3>1, <3>2, Basics DEF Knowledge
    <3>4. con'.process = host.process /\ con'.session = con.session /\ con'.record = con.record
          /\ con'.unprobed = kept
      BY <3>1, Basics DEF Knowledge
    <3>5. con.session <= host.process /\ host.process <= host.process
      BY Basics DEF Known
    <3>6. Known(con', host)
      BY <3>2, <3>3, <3>4, <3>5, Basics DEF Known
    <3> QED
      BY <2>1, <3>4, <3>6, Basics, PageLearns
  <2> QED
    BY <1>2, <2>2, <2>3 DEF RestartAwaited
<1>3. CASE StartWindows
  <2>1. UNCHANGED con /\ TakeDuty("promote", "save")
    BY <1>3 DEF StartWindows
  <2>2. UNCHANGED <<probe, poll, host>>
    BY <2>1 DEF TakeDuty
  <2>3. Began(duty', con', host)
    BY <2>1, Basics, TaskBegins
  <2> QED
    BY <2>1, <2>2, <2>3, Basics, PageLearns
<1>4. CASE PromotionSaved
  <2>1. CASE con' = [con EXCEPT !.transition = TRUE, !.offline = FALSE] /\ Onward("wait")
    <3>1. Known(con', host) /\ con'.process = con.process
      BY <2>1, FlagsDrawn
    <3>2. Began(duty', con', host) /\ UNCHANGED <<probe, poll, host>>
      BY <2>1, <3>1, Basics, TaskGoesOn DEF Onward
    <3> QED
      BY <3>1, <3>2, Basics, PageLearns
  <2>2. CASE con' = syncServiceAfterFault(con, duty.previous) /\ Finished
    <3>1. Known(con', host) /\ con.process <= con'.process
      BY <2>2, Basics, FaultKnown
    <3>2. duty' = NoDuty /\ UNCHANGED <<probe, poll, host>>
      BY <2>2 DEF Finished
    <3> QED
      BY <3>1, <3>2, Basics, PageLearns
  <2> QED
    BY <1>4, <2>1, <2>2 DEF PromotionSaved
<1>5. CASE waitForWindowsPromotion
  <2>1. CASE /\ con' = Fresh(host.process, host.mode) /\ duty' = NoDuty
             /\ probe' = NoProbe /\ poll' = NoPoll /\ UNCHANGED host
    <3>1. Known(con', host) /\ con'.process = host.process
      BY <2>1, FreshKnown
    <3>2. NoProbe \in Probes
      BY DEF NoProbe, Probes, Modes
    <3> QED
      BY <2>1, <3>1, <3>2, Basics, PageLearns
  <2>2. CASE /\ con' = [con EXCEPT !.process = host.process, !.offline = FALSE,
                          !.unprobed = @ \/ (con.session # 0 /\ host.process # con.process)]
             /\ Onward("wait")
    <3> DEFINE kept == con.unprobed \/ (con.session # 0 /\ host.process # con.process)
    <3>1. con' = [con EXCEPT !.process = host.process, !.offline = FALSE, !.unprobed = kept]
      BY <2>2, Basics DEF Knowledge
    <3>2. kept \in BOOLEAN
      BY Basics DEF Knowledge
    <3>3. ~kept => ~con.unprobed /\ (con.session = 0 \/ host.process = con.process)
      OBVIOUS
    <3> HIDE DEF kept
    <3>4. con' \in Knowledge
      BY <3>1, <3>2, Basics DEF Knowledge
    <3>5. con'.process = host.process /\ con'.session = con.session /\ con'.record = con.record
          /\ con'.mode = con.mode
      BY <3>1, Basics DEF Knowledge
    <3>6. con'.unprobed = kept
      BY <3>1, Basics DEF Knowledge
    <3>7. Known(con', host)
      BY <3>3, <3>4, <3>5, <3>6, Basics DEF Known
    <3>8. Began(duty', con', host) /\ UNCHANGED <<probe, poll, host>>
      BY <2>2, <3>5, Basics, TaskGoesOn DEF Onward
    <3> QED
      BY <3>5, <3>7, <3>8, Basics, PageLearns
  <2>3. CASE con' = [con EXCEPT !.offline = TRUE] /\ Onward("wait")
    <3>1. Known(con', host) /\ con'.process = con.process
      BY <2>3, FlagsDrawn
    <3>2. Began(duty', con', host) /\ UNCHANGED <<probe, poll, host>>
      BY <2>3, <3>1, Basics, TaskGoesOn DEF Onward
    <3> QED
      BY <3>1, <3>2, Basics, PageLearns
  <2>4. CASE con' = [con EXCEPT !.transition = FALSE] /\ Finished
    <3>1. Known(con', host) /\ con'.process = con.process
      BY <2>4, FlagsDrawn
    <3>2. duty' = NoDuty /\ UNCHANGED <<probe, poll, host>>
      BY <2>4 DEF Finished
    <3> QED
      BY <3>1, <3>2, Basics, PageLearns
  <2> QED
    BY <1>5, <2>1, <2>2, <2>3, <2>4 DEF waitForWindowsPromotion
<1>6. CASE RestartAnnounced
  <2> DEFINE left == clearDelegatedState(con)
  <2>1. UNCHANGED <<duty, probe, poll, host>>
        /\ con' = [left EXCEPT !.transition = TRUE, !.offline = FALSE]
    BY <1>6 DEF RestartAnnounced
  <2>2. Known(left, host) /\ left.process = con.process /\ left \in Knowledge
        /\ left.record <= host.record
    BY Basics DEF Known
  <2> HIDE DEF left
  <2>3. con' \in Knowledge
    BY <2>1, <2>2 DEF Knowledge
  <2>4. con'.process = left.process /\ con'.session = left.session /\ con'.mode = left.mode
        /\ con'.unprobed = left.unprobed /\ con'.record = left.record
    BY <2>1, <2>2 DEF Knowledge
  <2>5. Known(con', host)
    BY <2>2, <2>3, <2>4, SameAccount
  <2> QED
    BY <2>1, <2>2, <2>4, <2>5, Basics, PageLearns
<1>7. CASE ReadyAnnounced
  <2>1. UNCHANGED <<probe, poll, host>> /\ con' = [con EXCEPT !.transition = FALSE, !.offline = FALSE]
    BY <1>7 DEF ReadyAnnounced
  <2>2. Known(con', host) /\ con'.process = con.process
    BY <2>1, FlagsDrawn
  <2>3. CASE duty' = duty
    BY <2>1, <2>2, <2>3, Basics, PageLearns
  <2>4. CASE duty' = [NoDuty EXCEPT !.kind = "refresh", !.stage = "service",
                                    !.previous = con.process]
    <3>1. Began(duty', con', host)
      BY <2>2, <2>4, Basics, TaskByItself
    <3> QED
      BY <2>1, <2>2, <3>1, Basics, PageLearns
  <2> QED
    BY <1>7, <2>3, <2>4 DEF ReadyAnnounced
<1> QED
  BY <1>1, <1>2, <1>3, <1>4, <1>5, <1>6, <1>7

\* Every step of the page and of the service keeps what the page knows true.
LEMMA ConsoleStep == ConsoleInv /\ [ConsoleNext]_consoleVars => ConsoleInv'
<1>1. ASSUME ConsoleInv, UNCHANGED consoleVars PROVE ConsoleInv'
  BY <1>1 DEF consoleVars, ConsoleInv, Known, Began, Asked
<1> QED
  BY <1>1, ServiceSteps, ProbeSteps, PollSteps, ReadingSteps, SignInSteps, OperationSteps,
     RestartSteps DEF ConsoleNext

\* The invariant of the connection holds in every behaviour: what the page
\* keeps of the service was true of a process that ran.
THEOREM ConsoleInductive == ConsoleSpec => []ConsoleInv
  BY ConsoleInitInv, ConsoleStep, PTL DEF ConsoleSpec

\* Numbers are ordered.
LEMMA AtLeast == ASSUME NEW a \in Nat, NEW b \in Nat, ~(a < b) PROVE a >= b
  OBVIOUS

\* The page shows no account of an earlier process as signed in to the one it
\* knows now (NoForeignSession), but where it is written down that it may.
THEOREM AccountsAreOfTheProcess == ConsoleSpec => []NoForeignSession
<1>1. ConsoleInv => NoForeignSession
  <2> SUFFICES ASSUME ConsoleInv, renderConnection = "signed in", ~con.unprobed
               PROVE  con.session >= con.process
    BY DEF NoForeignSession
  <2>1. con.mode = "WINDOWS" /\ con.session # 0
    BY DEF renderConnection
  <2>2. con.session \in Nat /\ con.process \in Nat
    BY Basics DEF Knowledge
  <2>3. ~(con.session < con.process)
    BY <2>1, Basics DEF Known
  <2> QED
    BY <2>2, <2>3, AtLeast
<1> QED
  BY <1>1, ConsoleInductive, PTL

\* A step that keeps the dialog or shows another one.
Undrawn(c) == c.dialog \in {con.dialog, "none", "gpupdate"}

\* Only the end of an inspection opens the rollback dialog.
LEMMA OnlyInspectionsOpen ==
  ASSUME ConsoleInv, ConsoleNext, ~InspectionEnds
  PROVE  Undrawn(con')
<1>1. con \in Knowledge /\ Undrawn(con)
  BY Basics DEF Undrawn
<1>2. Undrawn(clearDelegatedState(con)) /\ clearDelegatedState(con) \in Knowledge
  BY <1>1, Cleared, Basics DEF Undrawn, Known
<1>3. /\ \A previous \in {duty.previous, poll.previous, con.process} :
            /\ Undrawn(syncServiceAfterFault(con, previous))
            /\ Noticed(con, previous) \in Knowledge /\ Undrawn(Noticed(con, previous))
            /\ Undrawn(WithoutRecords(Noticed(con, previous)))
  BY Basics, NoticedKnown, FaultKnown, WithoutRecordsKnown DEF Undrawn, Known
<1>4. CASE UNCHANGED con
  BY <1>1, <1>4 DEF Undrawn
<1>5. CASE ProbeEnds
  <2> DEFINE read == [con EXCEPT !.process = host.process, !.mode = host.mode,
                                 !.offline = FALSE, !.transition = FALSE]
  <2>1. PICK base \in {read, clearDelegatedState(read), [read EXCEPT !.session = Session, !.unprobed = FALSE]} :
            con' = base \/ con' = [base EXCEPT !.record = host.record]
    BY <1>5 DEF ProbeEnds
  <2>2. read \in Knowledge /\ read.dialog = con.dialog
    BY <1>1, Basics DEF Knowledge, Hosts
  <2> HIDE DEF read
  <2>3. Session \in Nat
    BY Basics DEF Session, Hosts
  <2>4. base \in Knowledge /\ base.dialog = con.dialog
    <3>1. CASE base = read
      BY <2>2, <3>1
    <3>2. CASE base = [read EXCEPT !.session = 0, !.unprobed = FALSE]
      BY <2>2, <3>2 DEF Knowledge
    <3>3. CASE base = [read EXCEPT !.session = Session, !.unprobed = FALSE]
      BY <2>2, <2>3, <3>3 DEF Knowledge
    <3> QED
      BY <2>1, <3>1, <3>2, <3>3 DEF clearDelegatedState
  <2> QED
    BY <2>1, <2>4 DEF Undrawn, Knowledge
<1>6. CASE ProbeFails \/ PollEnds \/ AskGpupdate \/ CloseDialogs \/ ConfirmDialog \/ AwaitRestart
           \/ PromotionSaved \/ ReadyAnnounced \/ RestartAwaited
  <2>1. \/ con' = syncServiceAfterFault(con, duty.previous)
        \/ con' = [con EXCEPT !.offline = TRUE]
        \/ con' = [con EXCEPT !.record = poll.record]
        \/ con' = [con EXCEPT !.dialog = "gpupdate"]
        \/ con' = [con EXCEPT !.dialog = "none"]
        \/ \E w \in BOOLEAN : con' = [con EXCEPT !.transition = w, !.offline = FALSE]
        \/ con' = [con EXCEPT !.transition = FALSE]
        \/ con' = [con EXCEPT !.process = host.process, !.transition = FALSE,
                              !.unprobed = con.session # 0]
    BY <1>6 DEF ProbeFails, PollEnds, AskGpupdate, CloseDialogs, ConfirmDialog, AwaitRestart,
                PromotionSaved, ReadyAnnounced, RestartAwaited
  <2> QED
    BY <1>1, <1>3, <2>1 DEF Undrawn, Knowledge
<1>7. CASE PollFaults \/ DutyFaults \/ RestartAnnounced \/ DisconnectAccount
  <2>1. \/ con' = syncServiceAfterFault(con, poll.previous)
        \/ con' = syncServiceAfterFault(con, con.process)
        \/ con' = clearDelegatedState(con) \/ con' = con
        \/ con' = [clearDelegatedState(con) EXCEPT !.transition = TRUE, !.offline = FALSE]
    BY <1>7 DEF PollFaults, ExpiredOutside, DutyFaults, RestartAnnounced, DisconnectAccount
  <2> QED
    BY <1>1, <1>2, <1>3, <2>1 DEF Undrawn, Knowledge
<1>8. CASE RefreshReads
  <2> DEFINE seen == Noticed(con, duty.previous)
             shown == [seen EXCEPT !.transition = FALSE]
  <2>1. con' = WithoutRecords(shown)
    BY <1>8 DEF RefreshReads
  <2>2. seen \in Knowledge /\ Undrawn(seen)
    BY <1>3
  <2> HIDE DEF seen
  <2>3. shown \in Knowledge /\ shown.dialog = seen.dialog
    BY <2>2 DEF Knowledge
  <2> HIDE DEF shown
  <2>4. WithoutRecords(shown).dialog = shown.dialog
    BY <2>3 DEF WithoutRecords, Knowledge
  <2> QED
    BY <2>1, <2>2, <2>3, <2>4 DEF Undrawn
<1>9. CASE RefreshEnds \/ completeDomainSignIn \/ Reloaded
  <2>1. \/ con' = [clearDelegatedState(con) EXCEPT !.record = host.record]
        \/ con' = [con EXCEPT !.session = Session, !.record = host.record, !.unprobed = FALSE]
        \/ con' = [con EXCEPT !.session = Session, !.unprobed = FALSE]
        \/ con' = [con EXCEPT !.process = host.process,
                              !.unprobed = con.session # 0 /\ host.process # con.session]
        \/ con' = [con EXCEPT !.record = host.record] \/ con' = con
    BY <1>9 DEF RefreshEnds, completeDomainSignIn, Reloaded
  <2> QED
    BY <1>1, <1>2, <2>1 DEF Undrawn, Knowledge
<1>10. CASE ReadinessReads
  <2>1. con' = WithoutRecords(Noticed(con, duty.previous)) \/ con' = [con EXCEPT !.offline = TRUE]
    BY <1>10 DEF ReadinessReads
  <2> QED
    BY <1>1, <1>3, <2>1 DEF Undrawn, Knowledge
<1>11. CASE waitForWindowsPromotion
  <2>1. \/ con' = Fresh(host.process, host.mode)
        \/ con' = [con EXCEPT !.offline = TRUE] \/ con' = [con EXCEPT !.transition = FALSE]
        \/ con' = [con EXCEPT !.process = host.process, !.offline = FALSE,
                     !.unprobed = @ \/ (con.session # 0 /\ host.process # con.process)]
    BY <1>11 DEF waitForWindowsPromotion
  <2>2. Fresh(host.process, host.mode).dialog = "none"
    BY DEF Fresh
  <2> QED
    BY <1>1, <2>1, <2>2 DEF Undrawn, Knowledge
<1>12. \/ UNCHANGED con \/ ProbeEnds \/ ProbeFails \/ PollEnds \/ AskGpupdate \/ CloseDialogs
       \/ ConfirmDialog \/ AwaitRestart \/ PromotionSaved \/ ReadyAnnounced \/ RestartAwaited
       \/ PollFaults \/ DutyFaults \/ RestartAnnounced \/ DisconnectAccount \/ RefreshReads
       \/ RefreshEnds \/ completeDomainSignIn \/ Reloaded \/ ReadinessReads
       \/ waitForWindowsPromotion
  BY DEF ConsoleNext, HostStops, HostStarts, AccountExpires, RecordMoves, ProbeStarts, PollStarts,
         PollAnswered, Refresh, checkReadiness, ReadinessReported, OpenSignInScreen,
         AccountAccepted, inspectRollback, InspectionAnswered, Authorized, JobPosted, StartWindows
<1> QED
  BY <1>4, <1>5, <1>6, <1>7, <1>8, <1>9, <1>10, <1>11, <1>12

\* The rollback dialog opens only on an assessment that is no older than the
\* record on the screen (AssessedAsShown).
THEOREM AssessmentsAreCurrent == ConsoleSpec => AssessedAsShown
<1> DEFINE current == con'.dialog = "rollback" /\ con.dialog # "rollback" =>
                         duty.seen >= con.record /\ con.session # 0
<1>1. ASSUME ConsoleInv, ConsoleNext PROVE current
  <2> SUFFICES ASSUME con'.dialog = "rollback", con.dialog # "rollback"
               PROVE  duty.seen >= con.record /\ con.session # 0
    OBVIOUS
  <2>1. InspectionEnds
    BY <1>1, OnlyInspectionsOpen DEF Undrawn
  <2>2. Inspecting /\ duty.stage = "read" /\ UnchangedSince
    BY <2>1 DEF InspectionEnds
  <2>3. duty.record <= duty.seen /\ duty.session # 0
    BY <1>1, <2>2, Basics DEF Began, Inspecting
  <2>4. duty.seen \in Nat /\ con.record \in Nat
    BY <1>1, Basics DEF Duties, Knowledge
  <2> QED
    BY <2>2, <2>3, <2>4 DEF UnchangedSince
<1>2. ConsoleInv /\ [ConsoleNext]_consoleVars => [current]_consoleVars
  BY <1>1
<1> QED
  BY <1>2, ConsoleInductive, PTL DEF ConsoleSpec, AssessedAsShown

-----------------------------------------------------------------------------
(* The form of the target: whatever it coerces, the service accepts.       *)

Choices == [scope : Scopes \cup {NoScope}, accountScope : {"Domain", "Users", "LocalComputers"},
            refresh : {"None", "Pdc", "Scope"}, firstLink : BOOLEAN,
            endpoint : Scopes \cup {NoScope}, user : BOOLEAN]
\* What the form keeps, shown or read. Without a scope nothing can be
\* submitted, and the accounts and the refresh may disagree; with one they
\* belong to it. The refresh is one of the radio buttons whenever an input
\* can be changed: the others are hidden for a policy of the domain.
Settled(c, s, seen) ==
    /\ s \in Choices
    /\ c # "Account" => s.accountScope = accountsOf(c, FALSE)
    /\ c # "User" => s.endpoint = NoScope /\ ~s.user
    /\ s.accountScope # "Domain" => s.refresh \in RefreshShown(c, s)
    /\ s.scope # NoScope =>
          /\ s.accountScope = accountsOf(c, Sensitive(c, s))
          /\ s.refresh \in RefreshShown(c, s)
          /\ s.accountScope = "Domain" => s.firstLink
          /\ seen # {} => s.scope \in seen
          /\ seen # {} /\ c = "User" => s.endpoint \in seen
\* The accounts of a recorded plan are those of its scope.
Recordable(r) ==
    /\ r.control \in Controls /\ r.of \in Choices /\ r.of.scope # NoScope
    /\ r.of.accountScope = accountsOf(r.control, Sensitive(r.control, r.of))
Inventory(seen) == seen \subseteq Scopes /\ (seen # {} => DomainRoot \in seen)
TargetsInv ==
    /\ policy \in Controls /\ Inventory(offered) /\ Settled(policy, choice, offered)
    /\ recorded = NotRecorded \/ Recordable(recorded)

\* Whatever was chosen, ensureChoice leaves a choice the control can have
\* within the inventory that was read.
LEMMA EnsureSettles ==
  ASSUME NEW c \in Controls, NEW s \in Choices, NEW seen, Inventory(seen)
  PROVE  Settled(c, ensureChoice(c, s, seen), seen)
<1> DEFINE domain == Sensitive(c, s)
           scope == IF seen = {} \/ s.scope \in seen THEN s.scope
                    ELSE IF domain THEN DomainRoot ELSE NoScope
           refresh == IF s.refresh = (IF domain THEN "Scope" ELSE "Pdc") THEN "None"
                      ELSE s.refresh
           link == domain \/ s.firstLink
           endpoint == IF c # "User" THEN NoScope
                       ELSE IF seen = {} \/ s.endpoint \in seen THEN s.endpoint ELSE scope
           user == c = "User" /\ s.user
           shown == ensureChoice(c, s, seen)
<1>1. shown = [scope |-> scope, accountScope |-> accountsOf(c, domain), refresh |-> refresh,
               firstLink |-> link, endpoint |-> endpoint, user |-> user]
  BY DEF ensureChoice
<1>2. /\ s.scope \in Scopes \cup {NoScope} /\ s.endpoint \in Scopes \cup {NoScope}
      /\ s.refresh \in {"None", "Pdc", "Scope"} /\ s.firstLink \in BOOLEAN /\ s.user \in BOOLEAN
  BY DEF Choices
<1>3. /\ scope \in Scopes \cup {NoScope} /\ (seen # {} /\ scope # NoScope => scope \in seen)
      /\ scope # NoScope => Sensitive(c, [scope |-> scope]) = domain
  BY <1>2, ScopesAssumption DEF Inventory, Scopes, Sensitive, Controls
<1>4. /\ refresh \in {"None", "Pdc", "Scope"}
      /\ domain => refresh \in {"None", "Pdc"}
      /\ ~domain => refresh \in {"None", "Scope"}
  BY <1>2
<1>5. link \in BOOLEAN /\ user \in BOOLEAN /\ (domain => link) /\ (c # "User" => ~user)
  BY <1>2
<1>6. /\ endpoint \in Scopes \cup {NoScope} /\ (c # "User" => endpoint = NoScope)
      /\ seen # {} /\ c = "User" /\ scope # NoScope => endpoint \in seen
  BY <1>2, <1>3
<1>7. /\ accountsOf(c, domain) \in {"Domain", "Users", "LocalComputers"}
      /\ accountsOf(c, domain) = "Domain" <=> domain
      /\ c # "Account" => ~domain /\ accountsOf(c, domain) = accountsOf(c, FALSE)
  BY DEF accountsOf, Sensitive
<1> HIDE DEF scope, refresh, link, endpoint, user, shown
<1>8. /\ shown \in Choices /\ shown.scope = scope /\ shown.refresh = refresh
      /\ shown.accountScope = accountsOf(c, domain) /\ shown.firstLink = link
      /\ shown.endpoint = endpoint /\ shown.user = user
  BY <1>1, <1>3, <1>4, <1>5, <1>6, <1>7 DEF Choices
<1>9. shown.refresh \in RefreshShown(c, shown)
  BY <1>4, <1>7, <1>8 DEF RefreshShown
<1>10. scope # NoScope => Sensitive(c, shown) = domain
  BY <1>3, <1>8 DEF Sensitive
<1>11. c # "Account" => shown.accountScope = accountsOf(c, FALSE)
  BY <1>7, <1>8
<1>12. c # "User" => shown.endpoint = NoScope /\ ~shown.user
  BY <1>5, <1>6, <1>8
<1>13. shown.scope # NoScope =>
          /\ shown.accountScope = accountsOf(c, Sensitive(c, shown))
          /\ shown.accountScope = "Domain" => shown.firstLink
  BY <1>5, <1>7, <1>8, <1>10
<1>14. shown.scope # NoScope /\ seen # {} =>
          shown.scope \in seen /\ (c = "User" => shown.endpoint \in seen)
  BY <1>3, <1>6, <1>8
<1>15. Settled(c, shown, seen)
  BY <1>8, <1>9, <1>11, <1>12, <1>13, <1>14 DEF Settled
<1> QED
  BY <1>15 DEF shown

\* What the inputs of a settled form say is settled, and, with a scope, passes
\* every check of the service and the worker.
LEMMA CaptureSettles ==
  ASSUME NEW c \in Controls, NEW s, Inventory(offered), offered # {},
         Settled(c, s, offered), s.refresh \in RefreshShown(c, s)
  PROVE  Settled(c, captureTarget(c, s), offered)
<1> DEFINE domain == Sensitive(c, s)
           read == captureTarget(c, s)
           link == domain \/ s.firstLink
           user == c = "User" /\ s.user
           endpoint == IF c = "User" /\ s.endpoint \in offered THEN s.endpoint ELSE NoScope
<1>1. s \in Choices /\ offered \subseteq Scopes
  BY DEF Settled, Inventory
<1>2. s.scope # NoScope => s.scope \in offered
  BY DEF Settled
<1>3. NoScope \notin offered
  BY <1>1, ScopesAssumption DEF Scopes
<1>4. read = [scope |-> s.scope, accountScope |-> accountsOf(c, domain),
              refresh |-> s.refresh, firstLink |-> link, endpoint |-> endpoint, user |-> user]
  BY <1>2, <1>3 DEF captureTarget
<1>5. link \in BOOLEAN /\ user \in BOOLEAN /\ (domain => link) /\ (c # "User" => ~user)
  BY <1>1 DEF Choices
<1>6. /\ endpoint \in Scopes \cup {NoScope} /\ (c # "User" => endpoint = NoScope)
      /\ c = "User" /\ s.scope # NoScope => endpoint \in offered
  BY <1>1 DEF Settled
<1>7. /\ accountsOf(c, domain) \in {"Domain", "Users", "LocalComputers"}
      /\ accountsOf(c, domain) = "Domain" <=> domain
      /\ c # "Account" => ~domain /\ accountsOf(c, domain) = accountsOf(c, FALSE)
  BY DEF accountsOf, Sensitive
<1>8. s.scope # NoScope => s.accountScope = accountsOf(c, domain)
  BY DEF Settled
<1>9. c # "Account" => s.accountScope = accountsOf(c, domain)
  BY <1>7 DEF Settled
<1>10. c = "Account" /\ ~domain => s.scope # NoScope
  BY ScopesAssumption DEF Sensitive
<1>11. ~domain => s.accountScope = accountsOf(c, domain)
  BY <1>8, <1>9, <1>10
<1> HIDE DEF link, user, endpoint, read
<1>12. /\ read \in Choices /\ read.scope = s.scope /\ read.refresh = s.refresh
       /\ read.accountScope = accountsOf(c, domain) /\ read.firstLink = link
       /\ read.endpoint = endpoint /\ read.user = user
  BY <1>1, <1>4, <1>5, <1>6, <1>7 DEF Choices
<1>13. read.accountScope = s.accountScope => read.refresh \in RefreshShown(c, read)
  BY <1>12 DEF RefreshShown
<1>14. Sensitive(c, read) = domain
  BY <1>12 DEF Sensitive
<1> HIDE DEF domain
<1>15. c # "Account" => read.accountScope = accountsOf(c, FALSE)
  BY <1>7, <1>12
<1>16. c # "User" => read.endpoint = NoScope /\ ~read.user
  BY <1>5, <1>6, <1>12
<1>17. read.accountScope # "Domain" => read.refresh \in RefreshShown(c, read)
  BY <1>7, <1>11, <1>12, <1>13
<1>18. read.scope # NoScope =>
          /\ read.accountScope = accountsOf(c, Sensitive(c, read))
          /\ read.refresh \in RefreshShown(c, read)
          /\ read.accountScope = "Domain" => read.firstLink
          /\ read.scope \in offered
          /\ c = "User" => read.endpoint \in offered
  BY <1>2, <1>5, <1>6, <1>7, <1>8, <1>12, <1>13, <1>14
<1>19. Settled(c, read, offered)
  BY <1>12, <1>15, <1>16, <1>17, <1>18 DEF Settled
<1> QED
  BY <1>19 DEF read

\* A settled form that may be submitted passes every check of the service and
\* the worker, and its label names the policy that is written.
LEMMA SettledPreviews ==
  ASSUME NEW c \in Controls, NEW s, Inventory(offered), offered # {},
         Settled(c, s, offered), s.scope # NoScope
  PROVE  /\ Previews(c, s) \/ (c = "User" /\ s.refresh = "Scope" /\ s.endpoint = DomainRoot)
         /\ targetGuidance(c, s) = MappingScope(c, s)
<1>1. /\ s.accountScope = accountsOf(c, Sensitive(c, s)) /\ s.refresh \in RefreshShown(c, s)
      /\ s.accountScope = "Domain" => s.firstLink
      /\ s.scope \in offered /\ (c = "User" => s.endpoint \in offered)
      /\ c # "User" => s.endpoint = NoScope /\ ~s.user
  BY DEF Settled
<1>2. offered \subseteq Ou \cup {DomainRoot} /\ NoScope \notin offered /\ DomainRoot \notin Ou
  BY ScopesAssumption DEF Inventory, Scopes
<1>3. c \in {"Computer", "User", "Account"}
  BY DEF Controls
<1>4. CASE c = "Account" /\ s.scope \notin Ou
  <2>1. s.accountScope = "Domain" /\ s.scope = DomainRoot /\ s.refresh \in {"None", "Pdc"}
    BY <1>1, <1>2, <1>4 DEF accountsOf, Sensitive, RefreshShown
  <2>2. DomainPolicy(c, s) /\ MappingScope(c, s) = "Domain"
    BY <1>4, <2>1 DEF DomainPolicy, MappingScope
  <2> QED
    BY <1>1, <1>2, <1>4, <2>1, <2>2
       DEF Previews, ValidateSelection, ValidateRefresh, EndpointsFound, ValidateTarget,
           WorkerValidates, targetGuidance
<1>5. CASE c # "User" /\ ~(c = "Account" /\ s.scope \notin Ou)
  <2>1. s.accountScope = "LocalComputers" /\ s.refresh \in {"None", "Scope"}
    BY <1>1, <1>5 DEF accountsOf, Sensitive, RefreshShown
  <2>2. ~DomainPolicy(c, s) /\ MappingScope(c, s) = "Computer"
    BY <1>3, <1>5, <2>1 DEF DomainPolicy, MappingScope
  <2> QED
    BY <1>1, <1>2, <1>5, <2>1, <2>2
       DEF Previews, ValidateSelection, ValidateRefresh, EndpointsFound, ValidateTarget,
           WorkerValidates, targetGuidance
<1>6. CASE c = "User"
  <2>1. s.accountScope = "Users" /\ s.refresh \in {"None", "Scope"}
    BY <1>1, <1>6 DEF accountsOf, Sensitive, RefreshShown
  <2>2. ~DomainPolicy(c, s) /\ MappingScope(c, s) = "User"
    BY <1>6 DEF DomainPolicy, MappingScope
  <2> QED
    BY <1>1, <1>2, <1>6, <2>1, <2>2
       DEF Previews, ValidateSelection, ValidateRefresh, EndpointsFound, ValidateTarget,
           WorkerValidates, targetGuidance
<1> QED
  BY <1>4, <1>5, <1>6

\* What is offered for a recorded plan is accepted.
LEMMA OfferedIsAccepted ==
  ASSUME NEW r, Recordable(r), NEW refresh \in refreshChoices(r)
  PROVE  RefreshAccepted(r, refresh)
<1>1. /\ r.control \in {"Computer", "User", "Account"}
      /\ r.of.accountScope = accountsOf(r.control, Sensitive(r.control, r.of))
  BY DEF Recordable, Controls
<1>2. CASE r.control = "User"
  BY <1>1, <1>2 DEF refreshChoices, RefreshAccepted, ValidateRefresh, MappingScope, DomainPolicy
<1>3. CASE r.control = "Computer"
  <2>1. r.of.accountScope = "LocalComputers"
    BY <1>1, <1>3 DEF accountsOf, Sensitive
  <2> QED
    BY <1>3, <2>1 DEF refreshChoices, RefreshAccepted, ValidateRefresh, MappingScope, DomainPolicy
<1>4. CASE r.control = "Account"
  <2>1. r.of.accountScope = IF r.of.scope \notin Ou THEN "Domain" ELSE "LocalComputers"
    BY <1>1, <1>4 DEF accountsOf, Sensitive
  <2> QED
    BY <1>4, <2>1 DEF refreshChoices, RefreshAccepted, ValidateRefresh, MappingScope, DomainPolicy
<1> QED
  BY <1>1, <1>2, <1>3, <1>4

\* Before anything is chosen the choice is one the control can have.
LEMMA TargetsInitInv == TargetsInit => TargetsInv
<1> SUFFICES ASSUME TargetsInit PROVE TargetsInv
  OBVIOUS
<1>1. Unset \in Choices
  BY DEF Unset, Choices
<1>2. Inventory({}) /\ policy \in Controls
  BY DEF Inventory, TargetsInit
<1> QED
  BY <1>1, <1>2, EnsureSettles DEF TargetsInit, TargetsInv

\* The form is shown after what the operator did.
LEMMA DrawnSteps ==
  ASSUME TargetsInv,
         \/ InventoryDropped \/ ClearEndpoint
         \/ \E c \in Controls : OpenControl(c)
         \/ \E units \in SUBSET Ou : Discovered(units)
         \/ \E d \in Scopes : ChooseScopeDn(d) \/ ChooseEndpoint(d)
  PROVE  TargetsInv'
<1>1. choice \in Choices /\ policy \in Controls /\ Inventory(offered)
  BY DEF TargetsInv, Settled
<1>2. ASSUME NEW s \in Choices, Inventory(offered'), policy' \in Controls,
             choice' = ensureChoice(policy', s, offered'), UNCHANGED recorded
      PROVE  TargetsInv'
  <2>1. Settled(policy', choice', offered')
    BY <1>2, EnsureSettles
  <2> QED
    BY <1>2, <2>1 DEF TargetsInv
<1>3. CASE InventoryDropped
  BY <1>1, <1>2, <1>3 DEF InventoryDropped, Inventory
<1>4. CASE ClearEndpoint
  <2>1. [choice EXCEPT !.endpoint = NoScope] \in Choices
    BY <1>1 DEF Choices
  <2> QED
    BY <1>1, <1>2, <1>4, <2>1 DEF ClearEndpoint, DrawnAs
<1>5. ASSUME NEW c \in Controls, OpenControl(c) PROVE TargetsInv'
  <2> DEFINE begun == [Unset EXCEPT !.accountScope = choice.accountScope]
  <2>1. begun \in Choices
    BY <1>1 DEF Choices, Unset
  <2>2. ensureChoice(c, begun, offered) \in Choices
    BY <1>1, <2>1, EnsureSettles DEF Settled
  <2>3. /\ choice' = ensureChoice(c, ensureChoice(c, begun, offered), offered)
        /\ policy' = c /\ UNCHANGED <<offered, recorded>>
    BY <1>5 DEF OpenControl
  <2> HIDE DEF begun
  <2> QED
    BY <1>1, <1>2, <2>2, <2>3
<1>6. ASSUME NEW units \in SUBSET Ou, Discovered(units) PROVE TargetsInv'
  <2>1. offered' = units \cup {DomainRoot} /\ choice' = ensureChoice(policy, choice, offered')
        /\ UNCHANGED <<policy, recorded>>
    BY <1>6 DEF Discovered
  <2>2. Inventory(offered')
    BY <2>1 DEF Inventory, Scopes
  <2> QED
    BY <1>1, <1>2, <2>1, <2>2
<1>7. ASSUME NEW d \in Scopes, ChooseScopeDn(d) PROVE TargetsInv'
  <2> DEFINE s == IF d = choice.scope THEN choice
                  ELSE [choice EXCEPT !.scope = d, !.user = FALSE,
                           !.endpoint = IF @ = choice.scope THEN d ELSE @]
  <2>1. s \in Choices
    BY <1>1 DEF Choices
  <2>2. ensureChoice(policy, s, offered) \in Choices
    BY <1>1, <2>1, EnsureSettles DEF Settled
  <2>3. /\ choice' = ensureChoice(policy, ensureChoice(policy, s, offered), offered)
        /\ UNCHANGED <<policy, offered, recorded>>
    BY <1>7 DEF ChooseScopeDn, DrawnAs
  <2> HIDE DEF s
  <2> QED
    BY <1>1, <1>2, <2>2, <2>3
<1>8. ASSUME NEW d \in Scopes, ChooseEndpoint(d) PROVE TargetsInv'
  <2>1. [choice EXCEPT !.endpoint = d] \in Choices
    BY <1>1 DEF Choices
  <2> QED
    BY <1>1, <1>2, <1>8, <2>1 DEF ChooseEndpoint, DrawnAs
<1> QED
  BY <1>3, <1>4, <1>5, <1>6, <1>7, <1>8

\* A recorded target is drawn again, for its control or another, and recorded
\* for it when the preview passes.
LEMMA ReselectStep ==
  ASSUME TargetsInv, NEW c \in Controls, Reselect(c)
  PROVE  TargetsInv'
<1>1. /\ recorded.of \in Choices /\ Inventory(offered)
      /\ policy' = c /\ choice' = ensureChoice(c, recorded.of, offered) /\ UNCHANGED offered
      /\ \/ UNCHANGED recorded
         \/ Previews(c, choice') /\ recorded' = [control |-> c, of |-> choice']
  BY DEF TargetsInv, Recordable, Reselect
<1>2. Settled(c, choice', offered)
  BY <1>1, EnsureSettles
<1>3. ASSUME Previews(c, choice') PROVE Recordable([control |-> c, of |-> choice'])
  <2>1. choice'.scope # NoScope
    BY <1>3 DEF Previews, ValidateSelection
  <2> QED
    BY <1>2, <2>1 DEF Recordable, Settled
<1> QED
  BY <1>1, <1>2, <1>3 DEF TargetsInv

\* The inputs are read after one of them was changed.
LEMMA EditSteps ==
  ASSUME TargetsInv, SetRefresh \/ SetFirstLink \/ SetUser
  PROVE  TargetsInv'
<1>1. /\ Settled(policy, choice, offered) /\ choice \in Choices /\ policy \in Controls
      /\ Inventory(offered)
  BY DEF TargetsInv, Settled
<1>2. ASSUME NEW s, Settled(policy, s, offered), s.refresh \in RefreshShown(policy, s),
             EditInputs(s)
      PROVE  TargetsInv'
  <2>1. /\ choice' = captureTarget(policy, s) /\ offered # {}
        /\ UNCHANGED <<policy, offered, recorded>>
    BY <1>2 DEF EditInputs, inventoryShown
  <2>2. Settled(policy, choice', offered)
    BY <1>1, <1>2, <2>1, CaptureSettles
  <2> QED
    BY <2>1, <2>2 DEF TargetsInv
<1>3. CASE SetRefresh
  <2>1. PICK refresh \in RefreshShown(policy, choice) :
          EditInputs([choice EXCEPT !.refresh = refresh])
    BY <1>3 DEF SetRefresh
  <2> DEFINE s == [choice EXCEPT !.refresh = refresh]
  <2>2. refresh \in {"None", "Pdc", "Scope"}
    BY DEF RefreshShown
  <2>3. /\ s \in Choices /\ s.scope = choice.scope /\ s.accountScope = choice.accountScope
        /\ s.refresh = refresh /\ s.firstLink = choice.firstLink
        /\ s.endpoint = choice.endpoint /\ s.user = choice.user
    BY <1>1, <2>2 DEF Choices
  <2>4. EditInputs(s)
    BY <2>1
  <2> HIDE DEF s
  <2>5. RefreshShown(policy, s) = RefreshShown(policy, choice)
        /\ Sensitive(policy, s) = Sensitive(policy, choice)
    BY <2>3 DEF RefreshShown, Sensitive
  <2>6. Settled(policy, s, offered)
    BY <1>1, <2>3, <2>5 DEF Settled
  <2> QED
    BY <1>2, <2>3, <2>4, <2>5, <2>6
<1>4. CASE SetFirstLink \/ SetUser
  <2>1. PICK link \in BOOLEAN, user \in BOOLEAN :
          /\ EditInputs([choice EXCEPT !.firstLink = link, !.user = user])
          /\ policy # "User" => user = choice.user
          /\ policy = "Account" => choice.accountScope # "Domain"
    <3>1. choice = [choice EXCEPT !.firstLink = choice.firstLink, !.user = choice.user]
          /\ choice.firstLink \in BOOLEAN /\ choice.user \in BOOLEAN
      BY <1>1 DEF Choices
    <3>2. CASE SetFirstLink
      <4>1. [choice EXCEPT !.firstLink = ~@]
              = [choice EXCEPT !.firstLink = ~choice.firstLink, !.user = choice.user]
        BY <1>1 DEF Choices
      <4> QED
        BY <3>1, <3>2, <4>1 DEF SetFirstLink
    <3>3. CASE SetUser
      <4>1. [choice EXCEPT !.user = ~@]
              = [choice EXCEPT !.firstLink = choice.firstLink, !.user = ~choice.user]
        BY <1>1 DEF Choices
      <4> QED
        BY <3>1, <3>3, <4>1 DEF SetUser
    <3> QED
      BY <1>4, <3>2, <3>3
  <2> DEFINE s == [choice EXCEPT !.firstLink = link, !.user = user]
  <2>2. /\ s \in Choices /\ s.scope = choice.scope /\ s.accountScope = choice.accountScope
        /\ s.refresh = choice.refresh /\ s.endpoint = choice.endpoint /\ s.user = user
    BY <1>1 DEF Choices
  <2>3. EditInputs(s)
    BY <2>1
  <2> HIDE DEF s
  <2>4. choice.accountScope # "Domain"
    BY <1>1, <2>1 DEF Settled, accountsOf
  <2>5. RefreshShown(policy, s) = RefreshShown(policy, choice)
        /\ Sensitive(policy, s) = Sensitive(policy, choice)
    BY <2>2 DEF RefreshShown, Sensitive
  <2>6. Settled(policy, s, offered)
    BY <1>1, <2>1, <2>2, <2>4, <2>5 DEF Settled
  <2>7. s.refresh \in RefreshShown(policy, s)
    BY <1>1, <2>2, <2>4, <2>5 DEF Settled
  <2> QED
    BY <1>2, <2>3, <2>6, <2>7
<1> QED
  BY <1>3, <1>4

\* A preview records the target of a choice that was settled.
LEMMA PreviewStep ==
  ASSUME TargetsInv, Preview
  PROVE  TargetsInv'
<1> DEFINE read == captureTarget(policy, choice)
<1>1. /\ Settled(policy, choice, offered) /\ policy \in Controls /\ Inventory(offered)
      /\ offered # {} /\ choice.scope # NoScope
  BY DEF TargetsInv, Preview, SubmitShown, inventoryShown
<1>2. Settled(policy, read, offered)
  BY <1>1, CaptureSettles DEF Settled
<1>3. read.scope # NoScope
  BY <1>1 DEF captureTarget, Settled
<1>4. /\ choice' = ensureChoice(policy, read, offered) /\ UNCHANGED <<policy, offered>>
      /\ recorded' = recorded \/ recorded' = [control |-> policy, of |-> read]
  BY DEF Preview, DrawnAs
<1> HIDE DEF read
<1>5. Settled(policy, choice', offered)
  <2>1. read \in Choices
    BY <1>2 DEF Settled
  <2> QED
    BY <1>1, <1>4, <2>1, EnsureSettles
<1>6. Recordable([control |-> policy, of |-> read])
  BY <1>1, <1>2, <1>3 DEF Recordable, Settled
<1> QED
  BY <1>4, <1>5, <1>6 DEF TargetsInv

\* The invariant of the targets holds in every behaviour: each choice is
\* settled for its control, and what was recorded was captured from one.
THEOREM TargetsInductive == TargetsSpec => []TargetsInv
<1>1. ASSUME TargetsInv, UNCHANGED targetVars PROVE TargetsInv'
  BY <1>1 DEF targetVars, TargetsInv
<1>2. TargetsInv /\ [TargetsNext]_targetVars => TargetsInv'
  BY <1>1, DrawnSteps, EditSteps, PreviewStep, ReselectStep DEF TargetsNext
<1> QED
  BY <1>2, TargetsInitInv, PTL DEF TargetsSpec

\* A target that the form lets the operator submit passes every check of the
\* service and the worker, the label names the policy that is written, and
\* what is offered for a recorded plan is accepted (FormMatchesService).
THEOREM FormsAreAccepted == TargetsSpec => []FormMatchesService
<1>1. TargetsInv => FormMatchesService
  <2> SUFFICES ASSUME TargetsInv PROVE FormMatchesService
    OBVIOUS
  <2>1. ASSUME SubmitShown
        PROVE  /\ Previews(policy, captureTarget(policy, choice)) \/ EndpointsAtRoot
               /\ targetGuidance(policy, choice) = MappingScope(policy, choice)
    <3> DEFINE read == captureTarget(policy, choice)
    <3>1. /\ Settled(policy, choice, offered) /\ policy \in Controls /\ Inventory(offered)
          /\ offered # {} /\ choice.scope # NoScope
      BY <2>1 DEF TargetsInv, SubmitShown, inventoryShown
    <3>2. Settled(policy, read, offered)
      BY <3>1, CaptureSettles DEF Settled
    <3>3. read.scope # NoScope /\ read.refresh = choice.refresh
          /\ (policy = "User" => read.endpoint = choice.endpoint)
      BY <3>1 DEF captureTarget, Settled
    <3> HIDE DEF read
    <3>4. \/ Previews(policy, read)
          \/ policy = "User" /\ read.refresh = "Scope" /\ read.endpoint = DomainRoot
      BY <3>1, <3>2, <3>3, SettledPreviews
    <3>5. targetGuidance(policy, choice) = MappingScope(policy, choice)
      BY <3>1, SettledPreviews
    <3>6. Previews(policy, read) \/ EndpointsAtRoot
      BY <3>3, <3>4 DEF EndpointsAtRoot
    <3> QED
      BY <3>5, <3>6 DEF read
  <2> QED
    BY <2>1, OfferedIsAccepted DEF TargetsInv, FormMatchesService
<1> QED
  BY <1>1, TargetsInductive, PTL

-----------------------------------------------------------------------------
(* The verdicts: what a stored record says is what was measured.           *)

Kind == {"sample", "pinned", "domain"}
States == InProgress \cup
    {"PUBLISHED", "NO_CHANGE", "VERIFY_MISMATCH", "FAILED_SAFE", "REVIEW_REQUIRED",
     "DRIFT_DETECTED", "ROLLBACK_REVIEW_REQUIRED", "ROLLBACK_DRIFT_DETECTED", "ROLLED_BACK",
     "BATCH_ROLLED_BACK", "REFRESH_COMPLETED", "REFRESH_SCHEDULED", "REFRESH_PARTIAL",
     "REFRESH_NOT_CONFIGURED"}
Differs(v) == "MISMATCH" \in {v.checks[e] : e \in DOMAIN v.checks} \/ v.ad = "differs"
Different == {"ENDPOINT_MISMATCH", "GPO_PUBLICATION_MISMATCH", "GPO_LINK_MISMATCH"}
\* A difference on an earlier page, under the status of the last one.
Forgotten(kind, v) ==
    /\ kind = "pinned" /\ v.replication = "pending"
    /\ v.effective = "REPLICATION_PENDING" /\ Cardinality(DOMAIN v.checks) > 1
\* The status is what the readings say, and no page of several is taken for all.
Judged(kind, v) ==
    /\ v.effective = "DOMAIN_VALUE_MATCHES_ON_SELECTED_DC" => kind = "domain" /\ v.ad = "match"
    /\ v.effective = "VERIFIED_ON_SAMPLE" => kind = "sample"
    /\ v.effective = "VERIFIED_ON_ALL_TARGETS" => kind = "pinned"
    /\ kind = "domain" /\ v.ad # "differs" => ~Differs(v)
    /\ v.effective = "ENDPOINT_MISMATCH" => Differs(v)
\* A difference is the status; a restore only observes one, and its state says so.
Told(kind, v) == Differs(v) => v.effective \in Different \/ Forgotten(kind, v)
Reviewed == {"ROLLBACK_REVIEW_REQUIRED", "ROLLBACK_DRIFT_DETECTED", "FAILED_SAFE",
             "REVIEW_REQUIRED"}
Sees(kind, v) == Judged(kind, v) /\ Told(kind, v)
Saw(kind, v) ==
    /\ Judged(kind, v) /\ v.effective = "ROLLBACK_ENDPOINT_PENDING"
    /\ "MISMATCH" \notin {v.checks[e] : e \in DOMAIN v.checks}

\* A reading of nothing is no difference, whatever it is called.
LEMMA NothingSeen ==
  ASSUME NEW kind \in Kind, NEW v, v.checks = [e \in {} |-> "VERIFIED"], v.ad = "none",
         v.effective \in {"UNKNOWN", "PENDING", "ROLLBACK_ENDPOINT_PENDING"}
  PROVE  Sees(kind, v)
<1>1. ~Differs(v)
  <2>1. DOMAIN v.checks = {}
    OBVIOUS
  <2> QED
    BY <2>1 DEF Differs
<1> QED
  BY <1>1 DEF Sees, Judged, Told

\* A reading of the domain controller has the status of its values.
LEMMA DomainSeen ==
  ASSUME NEW v \in DomainEvidence
  PROVE  Sees("domain", v)
<1>1. PICK p \in BOOLEAN, l \in BOOLEAN, c \in BOOLEAN, ad \in {"match", "differs", "none"} :
        v = DomainReading(p, l, c, ad)
  BY DEF DomainEvidence
<1>2. /\ v.ad = ad /\ v.effective = effectiveOf(p, l, c, measured("domain", <<>>, TRUE, ad))
      /\ v.checks = [e \in {1} |-> CASE ad = "match" -> "VERIFIED"
                                     [] ad = "differs" -> "MISMATCH"
                                     [] OTHER -> "UNAVAILABLE"]
  BY <1>1 DEF DomainReading
<1>3. Differs(v) <=> ad = "differs"
  <2>1. {v.checks[e] : e \in DOMAIN v.checks}
          = {CASE ad = "match" -> "VERIFIED" [] ad = "differs" -> "MISMATCH"
               [] OTHER -> "UNAVAILABLE"}
    BY <1>2
  <2> QED
    BY <1>2, <2>1 DEF Differs
<1>4. CASE ad = "match"
  BY <1>2, <1>3, <1>4 DEF effectiveOf, measured, Sees, Judged, Told, Different
<1>5. CASE ad = "differs"
  BY <1>2, <1>3, <1>5 DEF effectiveOf, measured, Sees, Judged, Told, Different
<1>6. CASE ad = "none"
  BY <1>2, <1>3, <1>6 DEF effectiveOf, measured, Sees, Judged, Told, Different
<1> QED
  BY <1>4, <1>5, <1>6

\* Pages of one endpoint are as many as the endpoints they hold.
LEMMA PagesCounted ==
  ASSUME NEW k \in Nat \ {0}
  PROVE  Cardinality(1..k) = k
  BY FS_Interval

\* A reading of endpoints has the status of the readings of its page.
LEMMA EndpointsSeen ==
  ASSUME NEW kind \in {"sample", "pinned"}, NEW endpoints \in {{}, Pinned},
         NEW v \in EndpointEvidence(kind, endpoints)
  PROVE  Sees(kind, v)
<1>1. PICK p \in BOOLEAN, l \in BOOLEAN, c \in BOOLEAN, s \in [endpoints -> Readings],
           n \in Pinned : v = EndpointReading(kind, endpoints, p, l, c, s, n)
  BY DEF EndpointEvidence
<1> DEFINE k == IF kind = "pinned" /\ ~(p /\ l) THEN n ELSE EndpointCount
           pages == 1..k
           checks == [e \in endpoints \cap pages |-> s[e]]
           all == kind # "pinned" \/ pages = Pinned
           read == IF kind = "pinned" /\ endpoints # {}
                   THEN measured(kind, [e \in {k} |-> s[e]], all, "none")
                   ELSE measured(kind, checks, TRUE, "none")
           last == effectiveOf(p, l, c, read)
<1>2. k \in Nat \ {0} /\ k <= EndpointCount /\ k \in Pinned /\ pages \subseteq Pinned
  BY EndpointsAssumption DEF Pinned
<1>3. Cardinality(pages) = k
  BY <1>2, PagesCounted
<1>4. pages = IF kind = "pinned" /\ ~(p /\ l) THEN 1..n ELSE Pinned
  BY DEF Pinned
<1>5. /\ v.ad = "none" /\ v.checks = checks
      /\ v.replication = IF c THEN "converged" ELSE "pending"
      /\ v.effective = IF kind = "pinned" /\ endpoints # {}
                       THEN joined(p, l, c, checks, last) ELSE last
  BY <1>1, <1>3, <1>4 DEF EndpointReading
<1>6. DOMAIN checks = endpoints \cap pages /\ \A e \in endpoints \cap pages : checks[e] = s[e]
  OBVIOUS
<1>7. /\ Differs(v) <=> \E e \in endpoints \cap pages : s[e] = "MISMATCH"
      /\ {checks[e] : e \in DOMAIN checks} = {s[e] : e \in endpoints \cap pages}
  BY <1>5, <1>6 DEF Differs
<1>8. /\ c => v.replication = "converged"
      /\ ~c => v.replication = "pending"
  BY <1>5
<1>9. CASE endpoints = {}
  <2>1. read = "GPO_VALUE_VERIFIED_ENDPOINT_PENDING" /\ ~Differs(v)
    BY <1>7, <1>9 DEF measured
  <2>2. v.effective = effectiveOf(p, l, c, "GPO_VALUE_VERIFIED_ENDPOINT_PENDING")
    BY <1>5, <1>9, <2>1
  <2> QED
    BY <1>5, <2>1, <2>2 DEF effectiveOf, Sees, Judged, Told
<1>10. CASE endpoints = Pinned /\ kind = "sample"
  <2>1. read = measured("sample", checks, TRUE, "none") /\ v.effective = effectiveOf(p, l, c, read)
    BY <1>5, <1>10
  <2>2. /\ Differs(v) => read = "ENDPOINT_MISMATCH"
        /\ ~Differs(v) => read \in {"GPO_VALUE_VERIFIED_ENDPOINT_PENDING", "VERIFIED_ON_SAMPLE",
                                    "ENDPOINT_VERIFICATION_PENDING"}
    BY <1>7, <1>10, <2>1 DEF measured
  <2> HIDE DEF read
  <2> QED
    BY <1>5, <1>10, <2>1, <2>2 DEF effectiveOf, Sees, Judged, Told, Different
<1>11. CASE endpoints = Pinned /\ kind = "pinned"
  <2>1. k \in endpoints \cap pages /\ endpoints \cap pages = pages /\ endpoints # {}
    BY <1>2, <1>11
  <2>2. read = measured("pinned", [e \in {k} |-> s[e]], all, "none")
    BY <1>11, <2>1
  <2>3. {[d \in {k} |-> s[d]][e] : e \in DOMAIN [d \in {k} |-> s[d]]} = {s[k]}
    OBVIOUS
  <2>4. /\ s[k] = "MISMATCH" => read = "ENDPOINT_MISMATCH"
        /\ s[k] # "MISMATCH" => read \in {"VERIFIED_ON_SAMPLE", "ENDPOINT_VERIFICATION_PENDING"}
    BY <2>2, <2>3 DEF measured
  <2>5. v.effective = joined(p, l, c, checks, effectiveOf(p, l, c, read))
    BY <1>5, <1>11, <2>1
  <2> HIDE DEF read, last, checks, all
  <2>6. CASE ~(p /\ l)
    BY <1>5, <1>11, <2>5, <2>6 DEF joined, effectiveOf, Sees, Judged, Told, Different
  <2>7. CASE p /\ l /\ ~c
    <3>1. k = EndpointCount
      BY <2>7
    <3>2. CASE s[k] = "MISMATCH"
      <4>1. Differs(v) /\ v.effective = "ENDPOINT_MISMATCH"
        BY <1>7, <2>1, <2>4, <2>5, <2>7, <3>2 DEF joined, effectiveOf
      <4> QED
        BY <1>5, <1>11, <4>1 DEF Sees, Judged, Told, Different
    <3>3. CASE s[k] # "MISMATCH"
      <4>1. v.effective = "REPLICATION_PENDING"
        BY <2>4, <2>5, <2>7, <3>3 DEF joined, effectiveOf
      <4>2. ASSUME Differs(v) PROVE Cardinality(DOMAIN v.checks) > 1
        <5>1. PICK e \in 1..k : s[e] = "MISMATCH"
          BY <1>7, <2>1, <4>2
        <5>2. k > 1
          BY <1>2, <3>3, <5>1
        <5>3. DOMAIN v.checks = 1..k
          BY <1>5, <1>6, <2>1
        <5> QED
          BY <1>2, <5>2, <5>3, PagesCounted
      <4> QED
        BY <1>5, <1>8, <1>11, <2>7, <4>1, <4>2 DEF Sees, Judged, Told, Forgotten
    <3> QED
      BY <3>2, <3>3
  <2>8. CASE p /\ l /\ c
    <3>1. pages = Pinned
      BY <2>8 DEF Pinned
    <3>2. /\ Differs(v) => v.effective = "ENDPOINT_MISMATCH"
          /\ ~Differs(v) => v.effective \in {"VERIFIED_ON_ALL_TARGETS",
                                             "ENDPOINT_VERIFICATION_PENDING"}
      BY <1>6, <1>7, <1>11, <2>1, <2>5, <2>8, <3>1 DEF joined
    <3> QED
      BY <1>5, <1>11, <3>2 DEF Sees, Judged, Told, Different
  <2> QED
    BY <2>6, <2>7, <2>8
<1> QED
  BY <1>9, <1>10, <1>11

\* Every reading the operation can return has the status it deserves.
LEMMA EvidenceSeen ==
  ASSUME NEW kind \in Kind, NEW endpoints \in {{}, Pinned}, NEW v \in Evidence(kind, endpoints)
  PROVE  Sees(kind, v)
  BY DomainSeen, EndpointsSeen DEF Evidence, Kind

\* The first page of a scheduled check has the status of its own reading.
LEMMA FirstPageSeen ==
  ASSUME NEW v \in Evidence("pinned", Pinned)
  PROVE  Sees("pinned", FirstPage(v))
<1>1. PICK p \in BOOLEAN, l \in BOOLEAN, c \in BOOLEAN, s \in [Pinned -> Readings],
           n \in Pinned : v = EndpointReading("pinned", Pinned, p, l, c, s, n)
  BY DEF Evidence, EndpointEvidence
<1> DEFINE seen == v.checks[1]
           read == measured("pinned", [e \in {1} |-> seen], FALSE, "none")
           first == FirstPage(v)
<1>2. PICK e, b, r, k : v = [published |-> p, linked |-> l, ad |-> "none", checks |-> k,
                             complete |-> b, replication |-> r, effective |-> e]
  BY <1>1 DEF EndpointReading
<1>3. /\ first.ad = "none" /\ first.checks = [d \in {1} |-> seen]
      /\ first.effective = effectiveOf(p, l, v.replication = "converged", read)
  BY <1>2 DEF FirstPage
<1>4. {[d \in {1} |-> seen][i] : i \in DOMAIN [d \in {1} |-> seen]} = {seen}
  OBVIOUS
<1>5. Differs(first) <=> seen = "MISMATCH"
  BY <1>3, <1>4 DEF Differs
<1>6. /\ seen = "MISMATCH" => read = "ENDPOINT_MISMATCH"
      /\ seen # "MISMATCH" => read = "ENDPOINT_VERIFICATION_PENDING"
  BY <1>4 DEF measured
<1> HIDE DEF seen, read, first
<1>7. Sees("pinned", first)
  BY <1>3, <1>5, <1>6 DEF effectiveOf, Sees, Judged, Told, Different
<1> QED
  BY <1>7 DEF first

\* A restore observes, and the difference it sees is not called a verdict.
LEMMA ObservedSeen ==
  ASSUME NEW kind \in Kind, NEW v \in Observed(kind)
  PROVE  Saw(kind, v)
<1>1. PICK c \in BOOLEAN, seen \in {"OBSERVED", "UNAVAILABLE"},
           ad \in IF kind = "domain" THEN {"match", "differs", "none"} ELSE {"none"} :
        v = ObservedReading(kind, c, seen, ad)
  BY DEF Observed
<1>2. /\ v.ad = ad /\ v.effective = "ROLLBACK_ENDPOINT_PENDING"
      /\ v.checks = [e \in (IF kind = "domain" THEN {} ELSE {1}) |-> seen]
  BY <1>1 DEF ObservedReading, NoEvidence
<1>3. "MISMATCH" \notin {v.checks[e] : e \in DOMAIN v.checks}
  BY <1>2
<1> QED
  BY <1>2, <1>3 DEF Saw, Judged, Differs

\* What is stored: the evidence of the last reading, whatever the operation
\* that holds the record has come to since.
Stored(r) ==
    r = [kind |-> r.kind, custom |-> r.custom, state |-> r.state, backup |-> r.backup,
         refresh |-> r.refresh, evidence |-> r.evidence]
Accounted(kind, state, v) ==
    \/ Sees(kind, v)
    \/ Saw(kind, v) /\ (v.ad = "differs" => state \in Reviewed \cup InProgress)
VerdictsInv ==
    /\ Stored(record) /\ record.kind \in Kind /\ record.state \in States
    /\ Accounted(record.kind, record.state, record.evidence)

\* A record begins with no evidence.
LEMMA VerdictsInitInv == VerdictsInit => VerdictsInv
<1> SUFFICES ASSUME VerdictsInit PROVE VerdictsInv
  OBVIOUS
<1>1. /\ Stored(record) /\ record.kind \in Kind /\ record.state \in States
      /\ record.evidence = [NoEvidence EXCEPT !.effective = "PENDING"]
  BY DEF VerdictsInit, Stored, Kind, States, InProgress
<1>2. Sees(record.kind, record.evidence)
  BY <1>1, NothingSeen DEF NoEvidence
<1> QED
  BY <1>1, <1>2 DEF VerdictsInv, Accounted

\* A result is stored: its state and its reading.
LEMMA ResultKept ==
  ASSUME VerdictsInv, NEW state \in States, NEW v, NEW refresh,
         Accounted(record.kind, state, v), Result(state, v, refresh)
  PROVE  VerdictsInv'
<1>1. /\ Stored(record') /\ record'.kind = record.kind /\ record'.state = state
      /\ record'.evidence = v
  BY DEF Result, VerdictsInv, Stored
<1> QED
  BY <1>1 DEF VerdictsInv

\* Only the state of the record moves, to one that runs or to one to review.
LEMMA StateMoves ==
  ASSUME VerdictsInv, NEW state \in Reviewed \cup InProgress,
         record' = [record EXCEPT !.state = state]
  PROVE  VerdictsInv'
<1>1. /\ Stored(record') /\ record'.kind = record.kind /\ record'.state = state
      /\ record'.evidence = record.evidence
  BY DEF VerdictsInv, Stored
<1>2. state \in States
  BY DEF Reviewed, States, InProgress
<1> QED
  BY <1>1, <1>2 DEF VerdictsInv, Accounted

\* Every operation leaves a record whose status is accounted for.
LEMMA VerdictsStep ==
  ASSUME VerdictsInv, VerdictsNext
  PROVE  VerdictsInv'
<1>1. record.kind \in Kind /\ Stored(record) /\ record.state \in States
  BY DEF VerdictsInv
<1>2. \A v \in Evidence(record.kind, {}) \cup Evidence(record.kind, Pinned) : \A state :
         Accounted(record.kind, state, v)
  BY <1>1, EvidenceSeen DEF Accounted
<1>3. \A v \in Observed(record.kind) : \A state :
         (v.ad = "differs" => state \in Reviewed) => Accounted(record.kind, state, v)
  BY <1>1, ObservedSeen DEF Accounted
<1>4. CASE ApplyEnds
  <2>1. CASE \E v \in Evidence(record.kind, {}) :
               record' = [record EXCEPT !.backup = TRUE, !.evidence = v,
                  !.state = IF v.published /\ v.linked THEN "PUBLISHED" ELSE "VERIFY_MISMATCH"]
    <3>1. PICK v \in Evidence(record.kind, {}) :
               record' = [record EXCEPT !.backup = TRUE, !.evidence = v,
                  !.state = IF v.published /\ v.linked THEN "PUBLISHED" ELSE "VERIFY_MISMATCH"]
      BY <2>1
    <3>2. /\ Stored(record') /\ record'.kind = record.kind /\ record'.evidence = v
          /\ record'.state \in {"PUBLISHED", "VERIFY_MISMATCH"}
      BY <1>1, <3>1 DEF Stored
    <3> QED
      BY <1>1, <1>2, <3>2 DEF VerdictsInv, States
  <2>2. CASE \E v \in Evidence(record.kind, {}) : Result("NO_CHANGE", v, "none")
    BY <1>2, <2>2, ResultKept DEF States
  <2>3. CASE \E state \in {"FAILED_SAFE", "REVIEW_REQUIRED"} :
               record' = [record EXCEPT !.backup = TRUE, !.state = state, !.evidence = NoEvidence]
    <3>1. /\ Stored(record') /\ record'.kind = record.kind /\ record'.evidence = NoEvidence
          /\ record'.state \in {"FAILED_SAFE", "REVIEW_REQUIRED"}
      BY <1>1, <2>3 DEF Stored
    <3>2. Sees(record.kind, NoEvidence)
      BY <1>1, NothingSeen DEF NoEvidence
    <3> QED
      BY <1>1, <3>1, <3>2 DEF VerdictsInv, States, Accounted
  <2> QED
    BY <1>4, <2>1, <2>2, <2>3 DEF ApplyEnds
<1>5. CASE VerifyPageEnds
  <2>1. PICK v \in Evidence("pinned", Pinned) : Result("VERIFYING", FirstPage(v), record.refresh)
    BY <1>5 DEF VerifyPageEnds
  <2>2. record.kind = "pinned" /\ "VERIFYING" \in States
    BY <1>5 DEF VerifyPageEnds, States, InProgress
  <2>3. Accounted(record.kind, "VERIFYING", FirstPage(v))
    BY <2>2, FirstPageSeen DEF Accounted
  <2> QED
    BY <2>1, <2>2, <2>3, ResultKept
<1>6. CASE VerifyEnds
  <2>1. \/ \E v \in Evidence(record.kind, Pinned), state \in States :
              Result(state, v, record.refresh)
        \/ \E v \in Observed(record.kind), state \in Reviewed :
              Result(state, v, record.refresh)
        \/ \E v \in Observed(record.kind) :
              v.ad # "differs" /\ Result("ROLLED_BACK", v, record.refresh)
    BY <1>6 DEF VerifyEnds, States, Reviewed
  <2>2. Reviewed \subseteq States /\ "ROLLED_BACK" \in States
    BY DEF Reviewed, States
  <2> QED
    BY <1>2, <1>3, <2>1, <2>2, ResultKept
<1>7. CASE RecordRefreshed
  <2>1. \/ \E v \in Evidence(record.kind, {}), state \in States,
             refresh \in {"none", "COMPLETED", "SCHEDULED", "FAILED"} :
              Result(state, v, refresh)
        \/ \E v \in Observed(record.kind), refresh \in {"COMPLETED", "SCHEDULED", "FAILED"} :
              Result(IF v.ad # "differs" THEN "ROLLED_BACK" ELSE "ROLLBACK_DRIFT_DETECTED",
                     v, refresh)
    BY <1>7 DEF RecordRefreshed, States
  <2>2. {"ROLLED_BACK", "ROLLBACK_DRIFT_DETECTED"} \subseteq States
        /\ "ROLLBACK_DRIFT_DETECTED" \in Reviewed
    BY DEF Reviewed, States
  <2>3. CASE \E v \in Evidence(record.kind, {}), state \in States,
             refresh \in {"none", "COMPLETED", "SCHEDULED", "FAILED"} :
              Result(state, v, refresh)
    BY <1>2, <2>3, ResultKept
  <2>4. ASSUME NEW v \in Observed(record.kind), NEW refresh,
               Result(IF v.ad # "differs" THEN "ROLLED_BACK" ELSE "ROLLBACK_DRIFT_DETECTED",
                      v, refresh)
        PROVE  VerdictsInv'
    <3>1. CASE v.ad # "differs"
      BY <1>3, <2>2, <2>4, <3>1, ResultKept
    <3>2. CASE v.ad = "differs"
      BY <1>3, <2>2, <2>4, <3>2, ResultKept
    <3> QED
      BY <3>1, <3>2
  <2> QED
    BY <2>1, <2>3, <2>4
<1>8. CASE RollbackEnds
  <2>1. \/ \E v \in Observed(record.kind) : v.ad # "differs" /\ Result("ROLLED_BACK", v, "none")
        \/ \E v \in Observed(record.kind) : Result("ROLLBACK_REVIEW_REQUIRED", v, "none")
    BY <1>8 DEF RollbackEnds
  <2>2. {"ROLLED_BACK", "ROLLBACK_REVIEW_REQUIRED"} \subseteq States
        /\ "ROLLBACK_REVIEW_REQUIRED" \in Reviewed
    BY DEF Reviewed, States
  <2> QED
    BY <1>3, <2>1, <2>2, ResultKept
<1>9. CASE BatchMarks
  <2> DEFINE v == [NoEvidence EXCEPT !.effective = "ROLLBACK_ENDPOINT_PENDING"]
  <2>1. Sees(record.kind, v)
    BY <1>1, NothingSeen DEF NoEvidence
  <2>2. Result("BATCH_ROLLED_BACK", v, "none") /\ "BATCH_ROLLED_BACK" \in States
    BY <1>9 DEF BatchMarks, States
  <2> HIDE DEF v
  <2> QED
    BY <2>1, <2>2, ResultKept DEF Accounted
<1>10. CASE LiveRead
  <2>1. PICK v \in Evidence(record.kind, Pinned) :
          Result(IF v.published /\ v.linked THEN "PUBLISHED" ELSE "DRIFT_DETECTED",
                 IF record.kind = "pinned" THEN FirstPage(v) ELSE v, record.refresh)
    BY <1>10 DEF LiveRead
  <2>2. PICK state \in {"PUBLISHED", "DRIFT_DETECTED"} :
          Result(state, IF record.kind = "pinned" THEN FirstPage(v) ELSE v, record.refresh)
    BY <2>1
  <2>3. state \in States
    BY DEF States
  <2>4. CASE record.kind = "pinned"
    <3>1. Accounted(record.kind, state, FirstPage(v))
      BY <2>4, FirstPageSeen DEF Accounted
    <3> QED
      BY <2>2, <2>3, <2>4, <3>1, ResultKept
  <2>5. CASE record.kind # "pinned"
    BY <1>2, <2>2, <2>3, <2>5, ResultKept
  <2> QED
    BY <2>4, <2>5
<1>11. CASE \/ Interrupted
           \/ \E state \in {"VERIFYING", "REFRESHING", "ROLLBACKING"} : OperationStarts(state)
  <2>1. PICK state \in Reviewed \cup InProgress : record' = [record EXCEPT !.state = state]
    BY <1>11 DEF Interrupted, OperationStarts, Reviewed, InProgress
  <2> QED
    BY <2>1, StateMoves
<1> QED
  BY <1>4, <1>5, <1>6, <1>7, <1>8, <1>9, <1>10, <1>11 DEF VerdictsNext

\* The invariant of the verdicts holds in every behaviour: the status and the
\* state of a record are what its readings account for.
THEOREM VerdictsInductive == VerdictsSpec => []VerdictsInv
<1>1. VerdictsInv /\ [VerdictsNext]_record => VerdictsInv'
  <2>1. ASSUME VerdictsInv, UNCHANGED record PROVE VerdictsInv'
    BY <2>1 DEF VerdictsInv
  <2> QED
    BY <2>1, VerdictsStep
<1> QED
  BY <1>1, VerdictsInitInv, PTL DEF VerdictsSpec

\* What counts as verified was measured.
LEMMA EvidencedIsMeasured ==
  ASSUME VerdictsInv, evidenced(record)
  PROVE  /\ MeasuredThroughout(record) /\ ~domainMismatch(record) /\ ~attention(record)
         /\ effectiveVerified(record.evidence.effective) /\ coverageVerified(record)
         /\ record.evidence.published /\ record.evidence.linked
         /\ record.evidence.replication = "converged"
         /\ "MISMATCH" \notin readingsOf(record)
<1>1. /\ record.kind \in Kind /\ Judged(record.kind, record.evidence)
  BY DEF VerdictsInv, Accounted, Sees, Saw
<1>2. /\ record.evidence.published /\ record.evidence.linked
      /\ record.evidence.replication = "converged" /\ ~attention(record)
      /\ effect(record) = "verified"
  BY DEF evidenced, publication
<1>3. ~domainMismatch(record) /\ effectiveVerified(record.evidence.effective) /\ coverageVerified(record)
  BY <1>2 DEF effect
<1>4. CASE record.kind = "domain"
  <2>1. record.evidence.effective = "DOMAIN_VALUE_MATCHES_ON_SELECTED_DC"
    BY <1>1, <1>3, <1>4 DEF effectiveVerified, Judged
  <2>2. record.evidence.ad = "match" /\ "MISMATCH" \notin readingsOf(record)
    BY <1>1, <1>4, <2>1 DEF Judged, Differs, readingsOf
  <2> QED
    BY <1>2, <1>3, <1>4, <2>2 DEF MeasuredThroughout
<1>5. CASE record.kind # "domain"
  <2>1. record.evidence.effective # "DOMAIN_VALUE_MATCHES_ON_SELECTED_DC"
    BY <1>1, <1>5 DEF Judged
  <2>2. readingsOf(record) = {"VERIFIED"}
    BY <1>3, <2>1 DEF coverageVerified
  <2>3. record.kind = "pinned" => record.evidence.effective = "VERIFIED_ON_ALL_TARGETS"
    BY <1>1, <1>3, <2>1 DEF effectiveVerified, Judged
  <2>4. record.kind = "pinned" => DOMAIN record.evidence.checks = Pinned
    BY <1>3, <2>1, <2>3 DEF coverageVerified
  <2> QED
    BY <1>2, <1>3, <1>5, <2>2, <2>4 DEF MeasuredThroughout
<1> QED
  BY <1>4, <1>5

\* A record with evidence for its verdict is good at each stage of assurance.
LEMMA StagesGood ==
  ASSUME VerdictsInv, evidenced(record)
  PROVE  \A stage \in {"configuration", "replication", "endpoint"} :
            assuranceStages(record, FALSE)[stage] = "good"
<1>1. /\ ~domainMismatch(record) /\ "MISMATCH" \notin readingsOf(record)
      /\ coverageVerified(record) /\ record.evidence.published
      /\ record.evidence.replication = "converged" /\ effectiveVerified(record.evidence.effective)
  BY EvidencedIsMeasured
<1>2. Stages(record).configuration = "GPO_APPLIED" /\ Stages(record).replication = "VERIFIED"
  BY <1>1 DEF Stages
<1>3. \/ record.evidence.effective = "DOMAIN_VALUE_MATCHES_ON_SELECTED_DC"
      \/ readingsOf(record) = {"VERIFIED"} /\ (record.kind = "pinned" =>
             record.evidence.complete /\ DOMAIN record.evidence.checks = Pinned)
  <2>1. record.kind = "pinned" /\ record.evidence.effective # "DOMAIN_VALUE_MATCHES_ON_SELECTED_DC"
          => record.evidence.effective = "VERIFIED_ON_ALL_TARGETS"
    BY <1>1 DEF effectiveVerified, VerdictsInv, Accounted, Sees, Saw, Judged
  <2> QED
    BY <1>1, <2>1 DEF coverageVerified
<1>4. Stages(record).endpoint = "ENDPOINT_VERIFIED"
  BY <1>1, <1>3 DEF Stages
<1>5. {"configuration", "replication", "endpoint"} \subseteq DOMAIN Stages(record)
  BY DEF Stages
<1>6. \A stage \in {"configuration", "replication", "endpoint"} :
         /\ assuranceStages(record, FALSE)[stage]
               = assuranceTone(stage, Stages(record)[stage], FALSE)
  BY <1>5 DEF assuranceStages
<1>7. \A stage : \A value \in {"GPO_APPLIED", "VERIFIED", "ENDPOINT_VERIFIED"} :
         assuranceTone(stage, value, FALSE) = "good"
  BY DEF assuranceTone
<1> QED
  BY <1>2, <1>4, <1>6, <1>7

\* A control that the catalog shows green was not found to differ, and its
\* operation ended well: the tab of the control agrees.
LEMMA CatalogAgrees ==
  ASSUME VerdictsInv, controlStatus(record) = "good", record.state # "REFRESH_NOT_CONFIGURED"
  PROVE  Views(record, FALSE).summary = "success"
<1>1. compliant(record) /\ ~busyState(record)
  BY DEF controlStatus
<1>2. evidenced(record) /\ ~restoredState(record)
  BY <1>1 DEF compliant
<1>3. /\ ~domainMismatch(record) /\ "MISMATCH" \notin readingsOf(record) /\ ~attention(record)
      /\ record.evidence.published /\ record.evidence.linked
      /\ effectiveVerified(record.evidence.effective)
  BY <1>2, EvidencedIsMeasured
<1>4. ~mismatched(record)
  BY <1>3 DEF mismatched, effectiveVerified
<1>5. appliedState(record)
  <2>1. ~bad(record.state)
    BY <1>3 DEF attention
  <2> QED
    BY <1>1, <1>2, <1>3, <2>1
       DEF VerdictsInv, States, InProgress, bad, busyState, restoredState, appliedState
<1>6. success(record)
  BY <1>1, <1>4, <1>5 DEF success
<1>7. resultSummary(record, FALSE) = "success"
  BY <1>1, <1>4, <1>6 DEF resultSummary
<1> QED
  BY <1>7 DEF Views

\* A green verdict rests on measurements, whatever the operation came to and
\* however many endpoints are pinned (GreenIsMeasured).
THEOREM GreenVerdictsAreMeasured == VerdictsSpec => []GreenIsMeasured
<1>1. VerdictsInv => GreenIsMeasured
  <2> SUFFICES ASSUME VerdictsInv PROVE GreenIsMeasured
    OBVIOUS
  <2>1. controlStatus(record) = "good" \/ title(record) = "verified" \/ stepConfirmed(record)
          => evidenced(record)
    BY DEF controlStatus, title, stepConfirmed, compliant
  <2>2. reportStatus(record) = "EVIDENCE_VERIFIED" => evidenced(record)
    BY DEF reportStatus
  <2>3. evidenced(record) =>
          /\ MeasuredThroughout(record) /\ timeline(record).effective
          /\ \A stage \in {"configuration", "replication", "endpoint"} :
                assuranceStages(record, FALSE)[stage] = "good"
    BY EvidencedIsMeasured, StagesGood DEF timeline
  <2> QED
    BY <2>1, <2>2, <2>3, CatalogAgrees DEF GreenIsMeasured
<1> QED
  BY <1>1, VerdictsInductive, PTL

\* A measured difference has a status, or a state, that asks for attention.
LEMMA DifferenceAttended ==
  ASSUME VerdictsInv, mismatched(record), ~busyState(record), ~PageForgotten(record)
  PROVE  /\ attention(record)
         /\ driftFilter(record) \/ failedFilter(record)
         /\ needsAttentionCard(record)
         /\ domainMismatch(record) \/ "MISMATCH" \in readingsOf(record)
<1> DEFINE v == record.evidence
<1>1. /\ ~restoredState(record) /\ Judged(record.kind, v)
      /\ Accounted(record.kind, record.state, v)
      /\ \/ domainMismatch(record) \/ v.effective = "ENDPOINT_MISMATCH"
         \/ "MISMATCH" \in readingsOf(record)
  BY DEF mismatched, VerdictsInv, Accounted, Sees, Saw
<1>2. Differs(v) /\ (domainMismatch(record) \/ "MISMATCH" \in readingsOf(record))
  BY <1>1 DEF Judged, Differs, domainMismatch, readingsOf
<1>3. CASE Sees(record.kind, v)
  <2>1. v.effective \in Different
    BY <1>2, <1>3 DEF Sees, Told, Forgotten, PageForgotten
  <2>2. bad(v.effective) /\ ~effectiveVerified(v.effective)
    BY <2>1 DEF Different, bad, effectiveVerified
  <2>3. effect(record) = "failed"
    BY <2>2 DEF effect
  <2>4. driftFilter(record)
    BY <2>1 DEF driftFilter, Different
  <2> QED
    BY <1>2, <2>3, <2>4 DEF attention, needsAttentionCard
<1>4. CASE Saw(record.kind, v) /\ (v.ad = "differs" => record.state \in Reviewed \cup InProgress)
  <2>1. v.ad = "differs" /\ record.state \in Reviewed
    BY <1>2, <1>4 DEF Saw, Differs, busyState
  <2> QED
    BY <1>2, <2>1 DEF Reviewed, attention, bad, driftFilter, failedFilter, needsAttentionCard
<1> QED
  BY <1>1, <1>3, <1>4 DEF Accounted

\* A measured difference is shown by every view, but for a page that was read
\* before the last one while the controllers have not converged (MismatchIsShown).
THEOREM MismatchesAreShown == VerdictsSpec => []MismatchIsShown
<1>1. VerdictsInv => MismatchIsShown
  <2> SUFFICES ASSUME VerdictsInv, mismatched(record), ~busyState(record), ~PageForgotten(record)
               PROVE  /\ Views(record, FALSE) =
                           [badge |-> "danger", summary |-> "danger", drawer |-> "warning",
                            catalog |-> "warning", row |-> "danger", report |-> "NEEDS_REVIEW"]
                      /\ needsAttention(record) /\ needsAttentionCard(record)
                      /\ driftFilter(record) \/ failedFilter(record)
                      /\ readingsOf(record) # {} => assuranceStages(record, FALSE).endpoint = "bad"
    BY DEF MismatchIsShown
  <2>1. /\ attention(record) /\ needsAttentionCard(record)
        /\ driftFilter(record) \/ failedFilter(record)
        /\ domainMismatch(record) \/ "MISMATCH" \in readingsOf(record)
    BY DifferenceAttended
  <2>2. ~restoredState(record) /\ record.state # "ROLLED_BACK" /\ ~success(record)
    BY DEF mismatched, restoredState, success
  <2>3. resultState(record) = "ENDPOINT_MISMATCH"
    BY <2>2 DEF resultState
  <2>4. operationStatus(record, FALSE) = "danger"
    BY <2>2, <2>3 DEF operationStatus, status, bad
  <2>5. resultSummary(record, FALSE) = "danger"
    BY DEF resultSummary
  <2>6. inspector(record, FALSE) = "warning"
    BY <2>1, <2>2 DEF inspector
  <2>7. controlStatus(record) = "warning"
    BY <2>1, <2>2 DEF controlStatus
  <2>8. ~compliant(record)
    BY <2>1 DEF compliant, evidenced
  <2>9. dashboardRow(record) \in {"ENDPOINT_MISMATCH", "REVIEW_REQUIRED"}
    BY <2>1, <2>2, <2>3, <2>8 DEF dashboardRow
  <2>10. status(dashboardRow(record)) = "danger"
    BY <2>9 DEF status, bad
  <2>11. reportStatus(record) = "NEEDS_REVIEW" /\ needsAttention(record)
    BY <2>1 DEF reportStatus, needsAttention
  <2>12. assuranceStages(record, FALSE).endpoint = "bad"
    <3>1. Stages(record).endpoint = "ENDPOINT_MISMATCH" /\ "endpoint" \in DOMAIN Stages(record)
      BY <2>1 DEF Stages
    <3>2. assuranceStages(record, FALSE)["endpoint"]
            = assuranceTone("endpoint", "ENDPOINT_MISMATCH", FALSE)
      BY <3>1 DEF assuranceStages
    <3>3. assuranceTone("endpoint", "ENDPOINT_MISMATCH", FALSE) = "bad"
      BY DEF assuranceTone
    <3> QED
      BY <3>2, <3>3
  <2> QED
    BY <2>1, <2>4, <2>5, <2>6, <2>7, <2>10, <2>11, <2>12 DEF Views
<1> QED
  BY <1>1, VerdictsInductive, PTL

================================================================================
