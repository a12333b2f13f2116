------------------------------ MODULE PolicyValues -----------------------------
(* The values a change will write are computed twice: by the service, which *)
(* pins them in the plan (ProductionGpoMappings.cs), and by the browser, for*)
(* the script an operator can copy and run instead (value-editor.js,        *)
(* manual-remediation.js). The controls are one of each kind of the catalog,*)
(* each with one policy field; a text is a member of Texts. Answers out of  *)
(* order are the subject of ChangePlan: here a preview is one step.         *)
EXTENDS Naturals, Sequences

VARIABLES sel,        \* the operator's selection for the control that is open
          tab,        \* "overview" shows the script, "remediation" the form
          script,     \* the script as the overview last rendered it
          prepared,   \* the plan on the page
          back        \* the request a dependent plan interrupted
policyVars == <<sel, tab, script, prepared, back>>

None == [none |-> TRUE]          \* no plan, no script, no request
NoItems == <<"not chosen">>       \* the selection names no values: null
NoText == "not given"

-----------------------------------------------------------------------------
(* Texts, and the mappings.                                                *)

Texts == {"", " ", "1", "01", "2", "70000", "A", " A", "B"}
Numerals == {"1", "01", "2", "70000"}
canonical(t) == IF t = "01" THEN "1" ELSE t
trimmed(t) == IF t = " A" THEN "A" ELSE IF t = " " THEN "" ELSE t
Each(Op(_), list) == [i \in DOMAIN list |-> Op(list[i])]

Mapping(automation, handler, type, comparator, override, input, domain, value) ==
    [automation |-> automation, handler |-> handler, type |-> type, comparator |-> comparator,
     item |-> "none", override |-> override, input |-> input, domain |-> domain, value |-> value]
Catalog ==
    [duration |-> Mapping("Automated", "SecurityTemplate", "Integer", ">=", TRUE, FALSE, TRUE, <<"1">>),
     window |-> Mapping("Automated", "SecurityTemplate", "Integer", ">=", TRUE, FALSE, TRUE, <<"2">>),
     dword |-> Mapping("Automated", "Registry", "DWORD", "atMost", FALSE, FALSE, FALSE, <<"1">>),
     paths |-> Mapping("Automated", "Registry", "MultiString", "none", FALSE, FALSE, FALSE, <<"A">>),
     rights |-> Mapping("Automated", "SecurityTemplate", "Principals", "none", FALSE, FALSE, FALSE, <<"A", "B">>),
     member |-> Mapping("Automated", "SecurityTemplate", "Principals", "includes", FALSE, FALSE, FALSE, <<"A">>),
     audit |-> Mapping("Automated", "AdvancedAudit", "mask", "includes", FALSE, FALSE, FALSE, <<"1">>),
     named |-> Mapping("Automated", "SecurityTemplate", "QuotedString", "none", FALSE, TRUE, FALSE, <<"A">>),
     role |-> Mapping("Manual", "Manual", "Principals", "none", FALSE, FALSE, FALSE, <<"A">>),
     age |-> Mapping("Manual", "SecurityTemplate", "Integer", "==", TRUE, FALSE, FALSE, <<"1">>)]
isList(type) == type \in {"MultiString", "Principals"}

-----------------------------------------------------------------------------
(* The browser. A script that cannot be generated is an error text.        *)

writable(m) == m.automation = "Automated" /\ m.handler # "Manual"
defaults(m) == m.value
Recommending(m, s) ==
    IF m.automation = "Automated" /\ ~m.input /\ m.comparator # "includes" /\ s.items = NoItems
    THEN [s EXCEPT !.items = IF m.override THEN <<s.value>> ELSE defaults(m)] ELSE s
Reviewed(m, s) ==
    IF m.automation # "Automated" /\ s.review # NoText /\ trimmed(s.review) # "" /\ s.items # NoItems
    THEN [m EXCEPT !.automation = "Automated",
                   !.handler = IF m.handler = "Manual" THEN "SecurityTemplate" ELSE m.handler]
    ELSE m
Scoped(m, s) == IF m.domain /\ s.local THEN [m EXCEPT !.domain = FALSE] ELSE m
\* Variant: every field of numbers is taken as it was typed.
editedAsTyped(m, items) ==
    [m EXCEPT !.value = IF m.type = "Principals" THEN Each(trimmed, items) ELSE items,
              !.item = IF m.type \in {"DWORD", "Integer", "mask"} THEN "==" ELSE "exact",
              !.override = FALSE, !.comparator = "none"]
edited(m, items) ==
    [m EXCEPT !.value = CASE m.type = "Principals" -> Each(trimmed, items)
                          [] m.type \in {"DWORD", "Integer", "mask"} -> Each(canonical, items)
                          [] OTHER -> items,
              !.item = IF m.type \in {"DWORD", "Integer", "mask"} THEN "==" ELSE "exact",
              !.override = FALSE, !.comparator = "none"]
refused(m, items) ==
    \/ m.type \in {"DWORD", "Integer", "mask"} /\ (Len(items) # 1 \/ items[1] \notin Numerals)
    \/ m.type \in {"Integer", "mask"} /\ items = <<"70000">>
effective(m, s) ==
    LET pinned == Recommending(m, s) mapping == Scoped(Reviewed(m, pinned), pinned) IN
    IF pinned.items = NoItems THEN mapping
    ELSE IF ~writable(mapping) \/ mapping.input \/ refused(mapping, pinned.items) THEN None
    ELSE edited(mapping, pinned.items)
generate(s) ==
    LET m == Catalog[s.control]
        pending == ~writable(m) /\ (s.review = NoText \/ trimmed(s.review) = "")
        resolved == effective(m, IF pending THEN [s EXCEPT !.items = NoItems] ELSE s)
    IN IF resolved = None \/ ~writable(resolved) THEN None
       ELSE [mapping |-> resolved, custom |-> IF resolved.input THEN s.custom ELSE ""]
\* The read-back offered with a script, and the worker's own endpoint reading.
manualCheck(m) ==
    CASE m.handler = "Registry" -> "registry value"
      [] m.type = "QuotedString" -> "built-in account"
      [] m.type = "Principals" -> "user right"
      [] m.handler = "AdvancedAudit" -> "audit policy"
      [] m.handler = "SecurityTemplate" /\ m.type = "Integer" -> "merged policy"
      [] OTHER -> "resultant set"
check(m) == IF m.domain THEN "domain policy" ELSE manualCheck(m)
ReadBy(m) ==
    IF m.domain THEN "domain policy"
    ELSE CASE m.handler = "Registry" -> "registry value"
           [] m.handler = "AdvancedAudit" -> "audit policy"
           [] m.handler = "SecurityTemplate" ->
                CASE m.type = "Principals" -> "user right"
                  [] m.type = "QuotedString" -> "built-in account"
                  [] OTHER -> "merged policy"
           [] OTHER -> "unsupported"
\* What the form makes of its fields.
capture(m, s, typed) ==
    IF m.input THEN [s EXCEPT !.items = NoItems]
    ELSE [s EXCEPT !.items = IF m.comparator # "includes" \/ s.review # NoText THEN typed
                             ELSE IF typed = defaults(m) THEN NoItems ELSE typed]

-----------------------------------------------------------------------------
(* The service. A selection it refuses resolves to None.                   *)

ForRemediation(s) ==
    LET m == Catalog[s.control] IN
    IF s.items # NoItems \/ ~writable(m) \/ m.input \/ m.comparator = "includes" THEN s
    ELSE [s EXCEPT !.items = IF m.override THEN <<s.value>> ELSE m.value]
Valid(m, items) ==
    /\ ~isList(m.type) => Len(items) = 1
    /\ m.type \in {"DWORD", "Integer", "mask"} => items[1] \in Numerals
    /\ m.type \in {"Integer", "mask"} => items[1] # "70000"
    /\ m.type = "Principals" => \A i \in DOMAIN items : trimmed(items[i]) # ""
WithItems(m, items) ==
    [m EXCEPT !.value = IF m.type \in {"DWORD", "Integer", "mask"} THEN <<canonical(items[1])>>
                        ELSE IF m.type = "Principals" THEN Each(trimmed, items) ELSE items,
              !.item = IF m.type \in {"DWORD", "Integer", "mask"} THEN "==" ELSE "exact",
              !.override = FALSE, !.comparator = "none"]
Effective(s) ==
    LET base == Catalog[s.control]
        unreviewed == ~writable(base) /\ s.review # NoText /\ (trimmed(s.review) = "" \/ s.items = NoItems)
        review == ~writable(base) /\ s.review # NoText
        m == [base EXCEPT !.automation = IF review THEN "Automated" ELSE @,
                          !.handler = IF review /\ @ = "Manual" THEN "SecurityTemplate" ELSE @,
                          !.domain = @ /\ ~s.local]
    IN IF unreviewed THEN None
       ELSE IF s.items = NoItems THEN m
       ELSE IF ~writable(m) \/ m.input \/ ~Valid(m, s.items) THEN None ELSE WithItems(m, s.items)
Validate(s) ==
    LET m == Effective(s) IN
    /\ m # None /\ writable(m)
    /\ m.override => s.value \in Numerals \ {"70000"}
    /\ IF m.input THEN trimmed(s.custom) # "" ELSE s.custom = ""
SameMembers(a, b) ==
    /\ Len(a) = Len(b)
    /\ \A t \in Texts : Len(SelectSeq(a, LAMBDA x : x = t)) = Len(SelectSeq(b, LAMBDA x : x = t))
IsCustomSelection(s) ==
    LET m == Catalog[s.control] IN
    CASE ~writable(m) \/ m.input -> TRUE
      [] writable(m) /\ ~m.input /\ s.items = NoItems -> m.override /\ s.value # m.value[1]
      [] OTHER -> IF isList(m.type) THEN ~SameMembers(Effective(s).value, m.value)
                  ELSE Effective(s).value # m.value
PreviewOf(s) ==
    LET pinned == ForRemediation(s) IN
    [selection |-> pinned, mapping |-> Effective(pinned), marked |-> IsCustomSelection(pinned)]

-----------------------------------------------------------------------------
(* The page.                                                               *)

Selected(c) ==
    [control |-> c, items |-> NoItems, custom |-> "", review |-> NoText,
     value |-> IF Catalog[c].override THEN Catalog[c].value[1] ELSE "",
     local |-> ~Catalog[c].domain]
canExecute == writable(Catalog[sel.control]) \/ sel.review # NoText
PolicyInit ==
    /\ sel = Selected("duration") /\ tab = "overview" /\ script = generate(sel)
    /\ prepared = None /\ back = None
Shown(s) == script' = generate(s)

selectControl(c) ==
    /\ sel' = Selected(c) /\ tab' = "overview" /\ Shown(sel') /\ prepared' = None
    /\ UNCHANGED back
overviewTab ==
    /\ tab = "remediation" /\ tab' = "overview" /\ Shown(sel) /\ UNCHANGED <<sel, prepared, back>>
remediationTab ==
    /\ tab = "overview" /\ tab' = "remediation" /\ UNCHANGED <<sel, script, prepared, back>>
\* A field of the form was edited; a list is split into its lines.
captureForm(typed) ==
    /\ tab = "remediation" /\ canExecute /\ ~Catalog[sel.control].input
    /\ IF isList(Catalog[sel.control].type) THEN "" \notin {typed[i] : i \in DOMAIN typed}
       ELSE Len(typed) = 1
    /\ Catalog[sel.control].type = "mask" => typed \in {<<"1">>, <<"2">>}
    /\ sel' = [capture(Catalog[sel.control], sel, typed) EXCEPT
                 !.value = IF Catalog[sel.control].override
                           THEN IF typed[1] \in Numerals THEN canonical(typed[1]) ELSE "0" ELSE @]
    /\ prepared' = None /\ UNCHANGED <<tab, script, back>>
NameValue(text) ==
    /\ tab = "remediation" /\ Catalog[sel.control].input
    /\ sel' = [sel EXCEPT !.custom = text] /\ prepared' = None /\ UNCHANGED <<tab, script, back>>
EditReview(text) ==
    /\ tab = "remediation" /\ sel.review # NoText
    /\ sel' = [sel EXCEPT !.review = text] /\ prepared' = None /\ UNCHANGED <<tab, script, back>>
ChooseScope ==
    /\ tab = "remediation" /\ canExecute /\ Catalog[sel.control].domain
    /\ sel' = [sel EXCEPT !.local = ~@] /\ prepared' = None /\ UNCHANGED <<tab, script, back>>
RestoreRecommended ==
    /\ tab = "remediation" /\ canExecute /\ ~Catalog[sel.control].input
    /\ sel' = [sel EXCEPT !.items = IF sel.review # NoText THEN defaults(Catalog[sel.control]) ELSE NoItems,
                          !.value = Selected(sel.control).value]
    /\ prepared' = None /\ UNCHANGED <<tab, script, back>>
reviewedStart ==
    /\ ~canExecute /\ tab = "remediation"
    /\ sel' = [sel EXCEPT !.review = "", !.items = defaults(Catalog[sel.control])]
    /\ prepared' = None /\ UNCHANGED <<tab, script, back>>
\* The form's own checks come first. The service may still refuse.
FormAccepts ==
    /\ Catalog[sel.control].type \in {"DWORD", "Integer"} /\ sel.items # NoItems
         => sel.items[1] \in Numerals
    /\ sel.review # NoText => trimmed(sel.review) # ""
    /\ Catalog[sel.control].input => sel.custom # ""
\* The submit captures what the form shows, the recommendation included.
Submitted ==
    LET m == Catalog[sel.control] IN
    capture(m, sel, IF sel.items # NoItems THEN sel.items
                    ELSE IF m.override THEN <<sel.value>> ELSE defaults(m))
PreviewSelection ==
    /\ tab = "remediation" /\ canExecute /\ FormAccepts
    /\ sel' = Submitted
    /\ prepared' = IF Validate(sel') THEN PreviewOf(sel') ELSE prepared
    /\ UNCHANGED <<tab, script, back>>
\* A plan the lockout window blocks: plan the window first, then come back.
OpenDependency ==
    /\ tab = "remediation" /\ prepared # None /\ sel.control = "duration"
    /\ back' = prepared.selection
    /\ sel' = [prepared.selection EXCEPT !.control = "window", !.value = "1", !.items = <<"1">>,
                                         !.custom = "", !.review = NoText]
    /\ prepared' \in {None, PreviewOf(sel')}
    /\ UNCHANGED <<tab, script>>
ReturnToRequest ==
    /\ back # None
    /\ sel' = back /\ tab' = "remediation" /\ UNCHANGED script
    /\ \/ prepared' = PreviewOf(sel') /\ back' = None
       \/ prepared' = None /\ UNCHANGED back

Typed == {<<>>} \cup {<<t>> : t \in Texts} \cup {<<"A", "B">>, <<"B", " A">>}
PolicyNext ==
    \/ overviewTab \/ remediationTab \/ ChooseScope \/ RestoreRecommended \/ reviewedStart
    \/ PreviewSelection \/ OpenDependency \/ ReturnToRequest
    \/ \E c \in DOMAIN Catalog : selectControl(c)
    \/ \E typed \in Typed : captureForm(typed)
    \/ \E text \in {"", " ", "A", " A"} : NameValue(text) \/ EditReview(text)
PolicySpec == PolicyInit /\ [][PolicyNext]_policyVars

-----------------------------------------------------------------------------
(* The script on the overview writes what the plan beside it will write: the*)
(* same values and comparison, by the same handler, at the same boundary of *)
(* accounts, and is read back the way a verification reads it. The two are  *)
(* computed by different code in different languages from one selection,    *)
(* and every edit drops the plan.                                          *)
ScriptAgreesWithPlan ==
    tab = "overview" /\ prepared # None =>
      /\ script # None
      /\ script.mapping = prepared.mapping /\ check(script.mapping) = ReadBy(prepared.mapping)
      /\ prepared.mapping.input => script.custom = prepared.selection.custom
=============================================================================
