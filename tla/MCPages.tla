-------------------------------- MODULE MCPages --------------------------------
(* The pages of the browser client and what they compute, side by side. They  *)
(* share no variables: what one does to another (another account, another     *)
(* record) is an action of the other's own module. So each of them runs while *)
(* the others stand still, and the state space is the sum of theirs, not the  *)
(* product. A part that stands still does so in one of its initial states.    *)
EXTENDS Console, Verdicts, PolicyValues, ScopePicker, Journal, Evidence, Guides,
        Targets, Dialogs

VARIABLE part           \* the part that runs

PagesInit ==
    /\ part \in {"console", "verdicts", "values", "picker", "journal", "evidence",
                 "guides", "targets", "dialogs"}
    /\ ConsoleInit /\ (part = "console" \/ (host.mode = "SETUP"))
    /\ VerdictsInit /\ (part = "verdicts" \/ (record.kind = "sample" /\ record.custom))
    /\ PolicyInit
    /\ PickerInit
    /\ JournalInit
    /\ EvidenceInit /\ (part = "evidence" \/ (connectedAs = NoOne))
    /\ GuidesInit
    /\ part = "guides" \/ (desired = "on" /\ \A e \in Endpoint : registry[e].value = "unset")
    /\ TargetsInit /\ (part = "targets" \/ (policy = "Computer"))
    /\ DialogsInit /\ (part = "dialogs" \/ (route = "control"))

\* p runs, the others do not.
Only(p) ==
    /\ part = p /\ UNCHANGED part
    /\ p = "console" \/ UNCHANGED consoleVars
    /\ p = "verdicts" \/ UNCHANGED record
    /\ p = "values" \/ UNCHANGED policyVars
    /\ p = "picker" \/ UNCHANGED pickerVars
    /\ p = "journal" \/ UNCHANGED journalVars
    /\ p = "evidence" \/ UNCHANGED evidenceVars
    /\ p = "guides" \/ UNCHANGED guideVars
    /\ p = "targets" \/ UNCHANGED targetVars
    /\ p = "dialogs" \/ UNCHANGED dialogVars
PagesNext ==
    \/ Only("console") /\ ConsoleNext
    \/ Only("verdicts") /\ VerdictsNext
    \/ Only("values") /\ PolicyNext
    \/ Only("picker") /\ PickerNext
    \/ Only("journal") /\ JournalNext
    \/ Only("evidence") /\ EvidenceNext
    \/ Only("guides") /\ GuidesNext
    \/ Only("targets") /\ TargetsNext
    \/ Only("dialogs") /\ DialogsNext
PagesSpec ==
    PagesInit /\ [][PagesNext]_<<part, consoleVars, record, policyVars, pickerVars,
        journalVars, evidenceVars, guideVars, targetVars, dialogVars>>
================================================================================
