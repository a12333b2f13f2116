------------------------------- MODULE Console -------------------------------
(* What the page knows of the service (workspace.js, operation-monitor.js):*)
(* the process and its mode, the delegated session and the recorded        *)
(* operation. The health probe, the poll of the jobs, the fault handler of *)
(* api(), the tasks of run() and the events of the settings panel all write*)
(* it, and each reads it before an await and writes it after. One recorded *)
(* operation stands for the history, its version for updatedAt and state.  *)
EXTENDS Naturals

CONSTANTS MaxStart, MaxRecord      \* bounds: processes, versions of the record

VARIABLES con,        \* what the page knows and shows
          duty,       \* the task run() holds
          probe,      \* the health probe in flight
          poll,       \* the job poll in flight
          host        \* the service
consoleVars == <<con, duty, probe, poll, host>>

NoDuty == [kind |-> "none", stage |-> "none", previous |-> 0, session |-> 0,
           record |-> 0, seen |-> 0, can |-> FALSE]
NoProbe == [on |-> FALSE, previous |-> 0, mode |-> "WINDOWS"]
NoPoll == [stage |-> "none", previous |-> 0, record |-> 0]
Fresh(process, mode) ==
    [process |-> process, mode |-> mode, session |-> 0, record |-> 0,
     offline |-> FALSE, transition |-> FALSE, dialog |-> "none", unprobed |-> FALSE]
ConsoleInit ==
    /\ host \in [process : {1}, mode : {"SETUP", "WINDOWS"}, up : {TRUE},
                 session : {FALSE}, record : {1}]
    /\ con = Fresh(1, host.mode)
    /\ duty = NoDuty /\ probe = NoProbe /\ poll = NoPoll

Free == duty.kind = "none"
\* The session is named after the process that holds it.
Session == IF host.up /\ host.session THEN host.process ELSE 0
clearDelegatedState(c) == [c EXCEPT !.session = 0, !.unprobed = FALSE]

\* What any reader of the service notices; previous is the process it knew
\* when it asked. Variant: the account survives a new process.
NoticedKeeping(c, previous) ==
    [c EXCEPT !.process = host.process, !.mode = host.mode, !.offline = FALSE]
Noticed(c, previous) ==
    LET read == [c EXCEPT !.process = host.process, !.mode = host.mode,
                          !.offline = FALSE]
    IN IF host.process # previous \/ host.mode # "WINDOWS"
       THEN clearDelegatedState(read) ELSE read
\* The connection card, and with it the buttons that it draws.
renderConnection ==
    CASE con.offline -> "offline"
      [] ~con.offline /\ con.mode # "WINDOWS" -> "setup"
      [] OTHER -> IF con.session = 0 THEN "sign-in" ELSE "signed in"
WithoutRecords(c) == IF c.mode = "WINDOWS" THEN c ELSE [c EXCEPT !.record = 0]

\* The fault handler of api() for a request that did not reach the service.
syncServiceAfterFault(c, previous) ==
    IF c.transition THEN [clearDelegatedState(c) EXCEPT !.offline = TRUE]
    ELSE IF host.up THEN WithoutRecords(Noticed(c, previous))
    ELSE [c EXCEPT !.offline = TRUE]

-----------------------------------------------------------------------------
(* The service.                                                            *)

HostStops ==
    /\ host.up /\ host.process < MaxStart
    /\ host' = [host EXCEPT !.up = FALSE, !.session = FALSE]
    /\ UNCHANGED <<con, duty, probe, poll>>
HostStarts ==
    /\ ~host.up
    /\ \E m \in {"SETUP", "WINDOWS"} :
          host' = [host EXCEPT !.up = TRUE, !.process = @ + 1, !.mode = m]
    /\ UNCHANGED <<con, duty, probe, poll>>
AccountExpires ==
    /\ host.session /\ host' = [host EXCEPT !.session = FALSE]
    /\ UNCHANGED <<con, duty, probe, poll>>
\* A worker, or another tab, moves the recorded operation on.
RecordMoves ==
    /\ host.up /\ host.record < MaxRecord
    /\ host' = [host EXCEPT !.record = @ + 1]
    /\ UNCHANGED <<con, duty, probe, poll>>

-----------------------------------------------------------------------------
(* The health probe, every 15 seconds; it starts only when run() is free.  *)

Others == UNCHANGED <<duty, poll, host>>
ProbeStarts ==
    /\ ~probe.on /\ Free
    /\ probe' = [on |-> TRUE, previous |-> con.process, mode |-> con.mode]
    /\ UNCHANGED <<con, duty, poll, host>>
\* The probe gives up after five seconds, in which the service cannot leave
\* and come back twice.
ProbeEnds ==
    /\ probe.on /\ host.up /\ host.process <= probe.previous + 1 /\ probe' = NoProbe
    /\ LET read == [con EXCEPT !.process = host.process, !.mode = host.mode,
                               !.offline = FALSE, !.transition = FALSE]
           lost == IF host.mode # "WINDOWS" THEN probe.mode # host.mode
                   ELSE host.process # probe.previous \/ Session = 0
           account == IF lost THEN clearDelegatedState(read)
                      ELSE IF host.mode = "WINDOWS" /\ con.session # 0
                           THEN [read EXCEPT !.session = Session, !.unprobed = FALSE]
                      ELSE read
       IN \/ con' = account
          \/ con.dialog = "none" /\ Free /\ con' = [account EXCEPT !.record = host.record]
    /\ Others
ProbeFails ==
    /\ probe.on /\ probe' = NoProbe
    /\ con' = [con EXCEPT !.offline = TRUE] /\ Others

-----------------------------------------------------------------------------
(* The job monitor: poll every three seconds, and a reload after a submit. *)

PollStarts ==
    /\ poll = NoPoll /\ Free /\ con.mode = "WINDOWS"
    /\ poll' = [NoPoll EXCEPT !.stage = "asked", !.previous = con.process]
    /\ UNCHANGED <<con, duty, probe, host>>
PollAnswered ==
    /\ poll.stage = "asked" /\ host.up
    /\ poll' = [poll EXCEPT !.stage = "read", !.record = host.record]
    /\ UNCHANGED <<con, duty, probe, host>>
PollEnds ==
    /\ poll.stage = "read" /\ poll' = NoPoll
    /\ con' = [con EXCEPT !.record = poll.record]
    /\ UNCHANGED <<duty, probe, host>>
\* An expired account opens the sign-in, unless a task holds run().
ExpiredOutside ==
    /\ con' = clearDelegatedState(con)
    /\ duty' = IF Free THEN [NoDuty EXCEPT !.kind = "sign-in", !.stage = "prompt"]
               ELSE duty
PollFaults ==
    /\ poll.stage = "asked" /\ poll' = NoPoll
    /\ \/ con' = syncServiceAfterFault(con, poll.previous) /\ UNCHANGED duty
       \/ host.up /\ Session = 0 /\ ExpiredOutside
    /\ UNCHANGED <<probe, host>>

-----------------------------------------------------------------------------
(* Tasks of run(): one at a time.                                          *)

TakeDuty(kind, stage) ==
    /\ Free
    /\ duty' = [NoDuty EXCEPT !.kind = kind, !.stage = stage, !.previous = con.process,
                              !.session = con.session, !.record = con.record]
    /\ UNCHANGED <<probe, poll, host>>
Finished == duty' = NoDuty /\ UNCHANGED <<probe, poll, host>>
Onward(stage) == duty' = [duty EXCEPT !.stage = stage] /\ UNCHANGED <<probe, poll, host>>
At(kind, stage) == duty.kind = kind /\ duty.stage = stage

\* Any request of a task fails: not reached, account expired, or refused.
DutyFaults ==
    /\ ~Free /\ duty.kind \notin {"gate", "promote"}
    /\ \/ con' = syncServiceAfterFault(con, con.process)
       \/ host.up /\ Session = 0 /\ con' = clearDelegatedState(con)
       \/ UNCHANGED con
    /\ Finished

Refresh == TakeDuty("refresh", "service") /\ UNCHANGED con
RefreshReads ==
    /\ At("refresh", "service") /\ host.up
    /\ con' = WithoutRecords([Noticed(con, duty.previous) EXCEPT !.transition = FALSE])
    /\ IF host.mode = "WINDOWS" THEN Onward("account") ELSE Finished
RefreshEnds ==
    /\ At("refresh", "account") /\ host.up
    /\ con' = IF Session = 0 THEN [clearDelegatedState(con) EXCEPT !.record = host.record]
              ELSE [con EXCEPT !.session = Session, !.record = host.record,
                               !.unprobed = FALSE]
    /\ Finished
checkReadiness ==
    /\ renderConnection = "signed in" /\ con.dialog = "none"
    /\ TakeDuty("readiness", "service") /\ UNCHANGED con
\* Only for the process and the account it knows does it ask for the report.
ReadinessReads ==
    /\ At("readiness", "service")
    /\ con' = IF host.up THEN WithoutRecords(Noticed(con, duty.previous))
              ELSE [con EXCEPT !.offline = TRUE]
    /\ IF host.up /\ con'.session # 0 THEN Onward("report") ELSE Finished
ReadinessReported ==
    /\ At("readiness", "report") /\ Session # 0 /\ UNCHANGED con /\ Finished

OpenSignInScreen ==
    /\ con.session = 0 /\ con.mode = "WINDOWS" /\ con.dialog = "none"
    /\ TakeDuty("sign-in", "prompt") /\ UNCHANGED con
\* The account is confirmed, then the session and the service are read, and
\* the readiness of the connection is checked in the same task.
AccountAccepted ==
    /\ At("sign-in", "prompt") /\ host.up /\ host.mode = "WINDOWS"
    /\ host' = [host EXCEPT !.session = TRUE]
    /\ duty' = [duty EXCEPT !.stage = "session"] /\ UNCHANGED <<con, probe, poll>>
completeDomainSignIn ==
    \/ /\ At("sign-in", "session") /\ Session # 0
       /\ con' = [con EXCEPT !.session = Session, !.unprobed = FALSE]
       /\ Onward("service")
    \/ /\ At("sign-in", "service") /\ host.up
       /\ con' = [con EXCEPT !.process = host.process,
                    !.unprobed = con.session # 0 /\ host.process # con.session]
       /\ duty' = [NoDuty EXCEPT !.kind = "readiness", !.stage = "service",
                                 !.previous = host.process]
       /\ UNCHANGED <<probe, poll, host>>
DisconnectAccount ==
    /\ Free /\ renderConnection = "signed in" /\ con.dialog = "none" /\ host.up
    /\ host' = [host EXCEPT !.session = FALSE]
    /\ con' = clearDelegatedState(con) /\ UNCHANGED <<duty, probe, poll>>

-----------------------------------------------------------------------------
(* Rollback and gpupdate of the recorded operation.                        *)

\* To show the assessment, or after ROLLBACK was typed to open the dialog.
inspectRollback(purpose) ==
    /\ con.record # 0 /\ con.session # 0 /\ con.dialog = "none"
    /\ TakeDuty(purpose, "asked") /\ UNCHANGED con
Inspecting == duty.kind \in {"inspect", "confirm"}
InspectionAnswered ==
    /\ Inspecting /\ duty.stage = "asked" /\ Session # 0
    /\ \E can \in BOOLEAN :
          duty' = [duty EXCEPT !.stage = "read", !.seen = host.record, !.can = can]
    /\ UNCHANGED <<con, probe, poll, host>>
\* Variant: only the connection is compared.
UnchangedConnection ==
    duty.session = con.session /\ duty.previous = con.process
UnchangedSince ==
    duty.session = con.session /\ duty.previous = con.process /\ duty.record = con.record
InspectionEnds ==
    /\ Inspecting /\ duty.stage = "read"
    /\ con' = IF UnchangedSince /\ duty.can /\ duty.kind = "confirm"
              THEN [con EXCEPT !.dialog = "rollback"] ELSE con
    /\ Finished
AskGpupdate ==
    /\ Free /\ con.record # 0 /\ con.dialog = "none"
    /\ con' = [con EXCEPT !.dialog = "gpupdate"]
    /\ UNCHANGED <<duty, probe, poll, host>>
CloseDialogs ==
    /\ con.dialog # "none" /\ con' = [con EXCEPT !.dialog = "none"]
    /\ UNCHANGED <<duty, probe, poll, host>>
\* submitSingle: the target is authorized again, then the job is posted,
\* then jobs and history are read; a failing read does not fail the task.
ConfirmOffered == con.dialog # "none" /\ ~con.offline /\ ~con.transition
ConfirmDialog ==
    /\ ConfirmOffered
    /\ con' = [con EXCEPT !.dialog = "none"] /\ TakeDuty("submit", "authorize")
Authorized ==
    /\ At("submit", "authorize") /\ Session # 0
    /\ Onward("post") /\ UNCHANGED con
JobPosted ==
    /\ At("submit", "post") /\ Session # 0 /\ host.record < MaxRecord
    /\ host' = [host EXCEPT !.record = @ + 1]
    /\ duty' = [duty EXCEPT !.stage = "reload"] /\ UNCHANGED <<con, probe, poll>>
Reloaded ==
    /\ At("submit", "reload")
    /\ con' = IF host.up THEN [con EXCEPT !.record = host.record] ELSE con
    /\ Finished

-----------------------------------------------------------------------------
(* Restarts the page itself waits for, and those it is told of.            *)

\* waitForManagedRestart, for the change gate: the account is not cleared.
AwaitRestart ==
    /\ con.session # 0 /\ con.dialog = "none"
    /\ con' = [con EXCEPT !.transition = TRUE, !.offline = FALSE] /\ TakeDuty("gate", "wait")
\* Only Windows mode ends the wait well; setup mode and 75 seconds end it too.
RestartAwaited ==
    /\ At("gate", "wait")
    /\ \/ /\ host.up /\ host.mode = "WINDOWS" /\ host.process # duty.previous
          /\ con' = [con EXCEPT !.process = host.process, !.transition = FALSE,
                                !.unprobed = con.session # 0]
       \/ con' = [con EXCEPT !.transition = FALSE]
    /\ Finished
\* startWindowsModeFromSetup: the configuration is saved, then every second
\* the service is read; in Windows mode the page reloads itself.
StartWindows ==
    /\ renderConnection = "setup" /\ con.dialog = "none" /\ TakeDuty("promote", "save") /\ UNCHANGED con
PromotionSaved ==
    /\ At("promote", "save")
    /\ \/ /\ host.up /\ con' = [con EXCEPT !.transition = TRUE, !.offline = FALSE]
          /\ Onward("wait")
       \/ con' = syncServiceAfterFault(con, duty.previous) /\ Finished
waitForWindowsPromotion ==
    /\ At("promote", "wait")
    /\ \/ /\ host.up /\ host.mode = "WINDOWS" /\ host.process # duty.previous
          /\ con' = Fresh(host.process, host.mode) /\ duty' = NoDuty
          /\ probe' = NoProbe /\ poll' = NoPoll /\ UNCHANGED host
       \/ /\ host.up /\ (host.mode = "WINDOWS" => host.process = duty.previous)
          /\ con' = [con EXCEPT !.process = host.process, !.offline = FALSE,
                       !.unprobed = @ \/ (con.session # 0 /\ host.process # con.process)]
          /\ Onward("wait")
       \/ ~host.up /\ con' = [con EXCEPT !.offline = TRUE] /\ Onward("wait")
       \/ con' = [con EXCEPT !.transition = FALSE] /\ Finished
\* The settings panel restarts the service, and says when it is back.
RestartAnnounced ==
    /\ con' = [clearDelegatedState(con) EXCEPT !.transition = TRUE, !.offline = FALSE]
    /\ UNCHANGED <<duty, probe, poll, host>>
ReadyAnnounced ==
    /\ con.transition /\ con' = [con EXCEPT !.transition = FALSE, !.offline = FALSE]
    /\ duty' = IF Free THEN [NoDuty EXCEPT !.kind = "refresh", !.stage = "service",
                                           !.previous = con.process] ELSE duty
    /\ UNCHANGED <<probe, poll, host>>

ConsoleNext ==
    \/ HostStops \/ HostStarts \/ AccountExpires \/ RecordMoves
    \/ ProbeStarts \/ ProbeEnds \/ ProbeFails
    \/ PollStarts \/ PollAnswered \/ PollEnds \/ PollFaults
    \/ DutyFaults \/ Refresh \/ RefreshReads \/ RefreshEnds
    \/ checkReadiness \/ ReadinessReads \/ ReadinessReported
    \/ OpenSignInScreen \/ AccountAccepted \/ completeDomainSignIn \/ DisconnectAccount
    \/ \E purpose \in {"inspect", "confirm"} : inspectRollback(purpose)
    \/ InspectionAnswered \/ InspectionEnds
    \/ AskGpupdate \/ CloseDialogs \/ ConfirmDialog \/ Authorized \/ JobPosted \/ Reloaded
    \/ AwaitRestart \/ RestartAwaited
    \/ StartWindows \/ PromotionSaved \/ waitForWindowsPromotion
    \/ RestartAnnounced \/ ReadyAnnounced
ConsoleSpec == ConsoleInit /\ [][ConsoleNext]_consoleVars

-----------------------------------------------------------------------------
(* The page never shows as signed in to one process an account that an     *)
(* earlier one held: delegated credentials do not survive a restart, and   *)
(* whoever notices the new process first drops them. The places that do not*)
(* are written down (unprobed): the waits for the gate's restart and for   *)
(* Windows mode, and a sign-in whose two reads straddle a restart; all     *)
(* until the next probe. A page in setup mode shows no account; it may keep*)
(* one, because a probe that finds setup mode again drops nothing.         *)
NoForeignSession ==
    renderConnection = "signed in" /\ ~con.unprobed => con.session >= con.process

(* The rollback dialog never opens on an assessment that is older than the *)
(* record on the screen, however the polls and the operation interleave    *)
(* with the inspection: what the operator confirms was judged as it is shown.*)
AssessedAsShown ==
    [][con'.dialog = "rollback" /\ con.dialog # "rollback" =>
         duty.seen >= con.record /\ con.session # 0]_consoleVars
=============================================================================
