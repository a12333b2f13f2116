------------------------------ MODULE MCRequests -------------------------------
(* The parts of the browser client that send requests and follow what becomes *)
(* of them, side by side: the two review forms (the batch of controls and the *)
(* change plan of one control, which implement ReviewedChange), the settings  *)
(* panel and the request layer with its sign-in. They share no variables, so  *)
(* each of them runs while the others stand still (MCPages).                  *)
EXTENDS BulkApply, ChangePlan, Settings, Transport

VARIABLE part           \* the part that runs

RequestsInit ==
    /\ part \in {"batch", "plan", "settings", "transport"}
    /\ BulkInit
    /\ PlanInit /\ (part = "plan" \/ backend.writes)
    /\ SettingsInit /\ (part = "settings" \/ (service.mode = "SETUP" /\ service.managed))
    /\ TransportInit /\ (part = "transport" \/ (storedRuns = 0 /\ confirmed))

\* p runs, the others do not.
Only(p) ==
    /\ part = p /\ UNCHANGED part
    /\ p = "batch" \/ UNCHANGED bulkVars
    /\ p = "plan" \/ UNCHANGED planVars
    /\ p = "settings" \/ UNCHANGED settingsVars
    /\ p = "transport" \/ UNCHANGED transportVars
RequestsNext ==
    \/ Only("batch") /\ BulkNext
    \/ Only("plan") /\ PlanNext
    \/ Only("settings") /\ SettingsNext
    \/ Only("transport") /\ TransportNext
RequestsSpec ==
    RequestsInit /\ [][RequestsNext]_<<part, bulkVars, planVars, settingsVars,
        transportVars>>
================================================================================
