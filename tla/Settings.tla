------------------------------- MODULE Settings ------------------------------
(* The settings panel of the browser client (automation.js). One busy flag *)
(* is shared by the loading of the panel and by its actions; closing and   *)
(* reopening the panel is possible at any time and clears what it knows.   *)
(* A saved configuration or a changed write gate restarts the service, and *)
(* the panel watches for a process with another id. The texts of the form  *)
(* are left out; a notice is told by its kind.                             *)
EXTENDS Naturals

CONSTANTS MaxPid        \* bound: processes of the service

VARIABLES panel,        \* state of automation.js
          task,         \* the load or the action in flight
          service       \* the backend process, as the server side has it
settingsVars == <<panel, task, service>>

NoTask == [kind |-> "none", stage |-> "none", previous |-> 0, accepted |-> 0,
           auto |-> FALSE, enable |-> FALSE, overlapped |-> FALSE]
SettingsInit ==
    /\ panel = [open |-> FALSE, loaded |-> FALSE, config |-> FALSE, process |-> 0,
                writes |-> FALSE, mode |-> "unknown", connected |-> FALSE,
                expired |-> FALSE, offline |-> FALSE, notice |-> "",
                overlap |-> FALSE, unseen |-> FALSE]
    /\ task = NoTask
    /\ service \in [pid : {1}, mode : {"SETUP", "WINDOWS"}, up : {TRUE},
                    leaving : {FALSE}, writes : {FALSE}, managed : BOOLEAN]

Idle == task.kind = "none"
\* The busy flag falls; overlap remembers that load() was refused meanwhile.
Ended(p) == [p EXCEPT !.overlap = @ \/ task.overlapped]

-----------------------------------------------------------------------------
(* The service: it leaves after it accepted a restart, and is started again.*)

ServiceLeaves ==
    /\ service.up /\ service.leaving
    /\ service' = [service EXCEPT !.up = FALSE, !.leaving = FALSE]
    /\ UNCHANGED <<panel, task>>
\* A crash, or a restart asked for elsewhere.
ServiceLost ==
    /\ service.up /\ ~service.leaving
    /\ service' = [service EXCEPT !.up = FALSE]
    /\ UNCHANGED <<panel, task>>
\* unseen is a history bit: the process changed while no watch looked.
ServiceStarts ==
    /\ ~service.up /\ service.pid < MaxPid
    /\ \E m \in {"SETUP", "WINDOWS"} :
          service' = [service EXCEPT !.up = TRUE, !.pid = @ + 1, !.mode = m]
    /\ panel' = [panel EXCEPT !.unseen = @ \/ task.stage # "watch"]
    /\ UNCHANGED task

-----------------------------------------------------------------------------
(* Opening, loading, closing.                                              *)

LoadTask == [NoTask EXCEPT !.kind = "load", !.stage = "read"]
\* load() does nothing while anything runs.
Load == IF Idle THEN LoadTask ELSE [task EXCEPT !.overlapped = TRUE]

OpenPanel ==
    /\ ~panel.open
    /\ panel' = [panel EXCEPT !.open = TRUE, !.loaded = FALSE, !.config = FALSE,
                 !.process = 0, !.writes = FALSE, !.connected = FALSE, !.notice = "",
                 !.overlap = ~Idle]
    /\ task' = Load /\ UNCHANGED service
ClosePanel ==
    /\ panel.open /\ panel' = [panel EXCEPT !.open = FALSE]
    /\ UNCHANGED <<task, service>>

LoadReads ==
    /\ task.kind = "load" /\ task.stage = "read" /\ service.up
    /\ panel' = [panel EXCEPT !.config = TRUE, !.process = service.pid,
                 !.writes = service.writes, !.offline = FALSE,
                 !.unseen = FALSE, !.mode = IF @ = "unknown" THEN service.mode ELSE @]
    /\ task' = [task EXCEPT !.stage = "session"] /\ UNCHANGED service
\* The GPO session and the discovery may fail without failing the load; a
\* configuration that was cleared meanwhile makes it throw.
LoadEnds ==
    /\ task.kind = "load" /\ task.stage = "session"
    /\ \E connected, discovered \in BOOLEAN :
         /\ connected => panel.mode = "WINDOWS" /\ service.up
         /\ panel' = Ended([panel EXCEPT !.connected = connected, !.expired = FALSE,
                      !.loaded = panel.config,
                      !.notice = IF discovered /\ panel.config THEN @ ELSE "error"])
    /\ task' = NoTask /\ UNCHANGED service
LoadFails ==
    /\ task.kind = "load"
    /\ panel' = Ended([panel EXCEPT !.notice = "error", !.offline = ~service.up])
    /\ task' = NoTask /\ UNCHANGED service

-----------------------------------------------------------------------------
(* Actions of the open panel: one at a time, behind the busy flag.         *)

Acts(kind) ==
    /\ panel.open /\ Idle
    /\ panel' = [panel EXCEPT !.notice = ""]
    /\ task' = [NoTask EXCEPT !.kind = kind, !.stage = "request",
                !.auto = kind = "write" \/ panel.process # 0,
                !.enable = kind = "write" /\ ~panel.writes]
    /\ UNCHANGED service

\* What the gate card offers: the gate needs a live domain session.
GateUsable ==
    panel.mode = "WINDOWS" /\ panel.connected /\ ~panel.expired /\ ~panel.offline
SaveConfig == Acts("save")
SwitchWrites == GateUsable /\ Acts("write")
Detect == Acts("detect")
CheckReadiness == panel.mode = "WINDOWS" /\ ~panel.offline /\ Acts("readiness")

ActionFails ==
    /\ task.kind \notin {"none", "load"} /\ task.stage = "request"
    /\ \E lost \in BOOLEAN :
          panel' = Ended([panel EXCEPT !.notice = "error", !.offline = @ \/ ~service.up,
                    !.expired = @ \/ lost, !.connected = @ /\ ~lost])
    /\ task' = NoTask /\ UNCHANGED service
ReadEnds ==
    /\ task.kind \in {"detect", "readiness"} /\ task.stage = "request" /\ service.up
    /\ panel' = Ended([panel EXCEPT !.notice = IF task.kind = "detect" THEN "done" ELSE @,
                 !.expired = IF task.kind = "readiness" THEN FALSE ELSE @])
    /\ task' = NoTask /\ UNCHANGED service

\* The service accepted, and its answer is lost.
AnswerLost ==
    /\ task.kind \in {"save", "write"} /\ task.stage = "request"
    /\ service.up /\ ~service.leaving
    /\ service' = [service EXCEPT !.leaving = task.auto /\ service.managed,
                   !.writes = task.enable]
    /\ panel' = Ended([panel EXCEPT !.notice = "error"])
    /\ task' = NoTask

\* Variant: the old process is not remembered.
ChangeAcceptedForgetting ==
    /\ task.kind \in {"save", "write"} /\ task.stage = "request"
    /\ service.up /\ ~service.leaving
    /\ task.auto /\ service.managed
    /\ service' = [service EXCEPT !.leaving = TRUE]
    /\ panel' = [panel EXCEPT !.notice = "restarting", !.offline = TRUE,
                 !.connected = FALSE]
    /\ task' = [task EXCEPT !.stage = "watch", !.accepted = service.pid]
\* The service saves; a managed one schedules its restart, and the watch
\* compares with the process the panel knows at this moment.
ChangeAccepted ==
    /\ task.kind \in {"save", "write"} /\ task.stage = "request"
    /\ service.up /\ ~service.leaving
    /\ task.auto /\ service.managed
    /\ service' = [service EXCEPT !.leaving = TRUE, !.writes = task.enable]
    /\ panel' = [panel EXCEPT !.notice = "restarting", !.offline = TRUE,
                 !.connected = FALSE]
    /\ task' = [task EXCEPT !.stage = "watch", !.previous = panel.process,
                !.accepted = service.pid]
ChangeSavedOnly ==
    /\ task.kind \in {"save", "write"} /\ task.stage = "request"
    /\ service.up /\ ~service.leaving
    /\ ~(task.auto /\ service.managed)
    /\ service' = [service EXCEPT !.writes = task.enable]
    /\ panel' = Ended([panel EXCEPT !.notice = "done", !.loaded = FALSE,
                 !.mode = "unknown", !.connected = FALSE])
    /\ task' = NoTask

WatchAgain ==
    /\ task.stage = "watch"
    /\ panel' = [panel EXCEPT !.offline = @ \/ ~service.up]
    /\ UNCHANGED <<task, service>>
\* Another process id: the service-ready listeners run, and both calls of
\* load() return at once, as the action still holds the busy flag.
WatchSeesProcess ==
    /\ task.stage = "watch" /\ service.up /\ service.pid # task.previous
    /\ panel' = Ended([panel EXCEPT !.process = service.pid, !.writes = service.writes,
                 !.offline = FALSE, !.loaded = FALSE, !.mode = "unknown",
                 !.connected = FALSE,
                 !.notice = IF service.mode = "WINDOWS" THEN "restarted" ELSE @])
    /\ task' = NoTask /\ UNCHANGED service
WatchTimesOut ==
    /\ task.stage = "watch"
    /\ panel' = Ended([panel EXCEPT !.notice = "error", !.unseen = TRUE])
    /\ task' = NoTask /\ UNCHANGED service

\* Another part of the page restarts the service and tells the panel.
ToldRestarting ==
    /\ task.kind = "none"
    /\ panel' = [panel EXCEPT !.offline = TRUE, !.connected = FALSE]
    /\ UNCHANGED <<task, service>>
ToldReady ==
    /\ panel' = [panel EXCEPT !.offline = FALSE, !.loaded = FALSE, !.mode = "unknown",
                 !.connected = FALSE]
    /\ task' = IF panel.open THEN Load ELSE task
    /\ UNCHANGED service

SettingsNext ==
    \/ ServiceLeaves \/ ServiceLost \/ ServiceStarts
    \/ OpenPanel \/ ClosePanel \/ LoadReads \/ LoadEnds \/ LoadFails
    \/ SaveConfig \/ SwitchWrites \/ Detect \/ CheckReadiness
    \/ ActionFails \/ AnswerLost \/ ReadEnds \/ ChangeAccepted \/ ChangeSavedOnly
    \/ WatchAgain \/ WatchSeesProcess \/ WatchTimesOut \/ ToldRestarting \/ ToldReady
SettingsSpec == SettingsInit /\ [][SettingsNext]_settingsVars

-----------------------------------------------------------------------------
(* The panel reports a completed restart only when another process answers *)
(* than the one that accepted its change. What that takes is written down: *)
(* the panel must know that process. It does not after it was reopened, or *)
(* told of another restart, while it was busy (what it knew is cleared and *)
(* load() refused), nor once the service was started again unseen: by a    *)
(* crash, after a watch gave up or after an answer was lost.               *)
RestartReported ==
    [][panel'.notice = "restarted" /\ panel.notice # "restarted" =>
         \/ service.pid # task.accepted
         \/ task.overlapped \/ panel.overlap \/ panel.unseen]_settingsVars
=============================================================================
