------------------------------- MODULE Launcher ------------------------------
(***************************************************************************)
(* The lifecycle of the local service: the supervisor loop of              *)
(* GpoRemediator.ps1, the backend processes it starts, and the callers     *)
(* that stop, restart or kill them.  They share three files under          *)
(* ProgramData\State and nothing else: service.json (which process runs),  *)
(* restart.request.json and stop.request.json (the markers).  Any of them  *)
(* may read or delete a file between two steps of any other.               *)
(*                                                                         *)
(* Time is abstracted: a poll, a timeout or a delay is a step that may be  *)
(* taken late.  Process ids are recycled only when nobody holds one, as a  *)
(* process is compared with its start time and path as well as its id.     *)
(***************************************************************************)
EXTENDS Naturals, FiniteSets

CONSTANTS
    Supervisor,   \* launcher processes that may be started
    FolderOf,     \* Supervisor -> number of the extracted release it is in
    Client,       \* native callers: Control Panel, Stop script
    Pid,          \* ids of backend processes
    NoPid,
    MaxAttempts   \* GpoRemediator.ps1:631 (3)

ASSUME PidAssumption == /\ Pid \subseteq Nat \ {NoPid}
                        /\ NoPid \in Nat
                        /\ IsFiniteSet(Pid)
ASSUME FolderAssumption == FolderOf \in [Supervisor -> Nat \ {0}]
ASSUME BoundAssumption == MaxAttempts \in Nat

VARIABLES
    config,      \* appsettings.Local.json: "missing", "complete", or
                 \* "saved": complete and newer than the last health check
    registered,  \* service.json: the process it names, or NoPid
    stop,        \* stop.request.json: "none", "asked" or "emergency"
    restart,     \* restart.request.json: the requested mode, or "none"
    proc,        \* backend processes
    mutex,       \* holder of the launcher mutex, {} or one supervisor
    sup,         \* the supervisors
    client       \* what a native caller remembers between its steps

files == <<config, registered, stop, restart>>
vars == <<config, registered, stop, restart, proc, mutex, sup, client>>

Mode == {"Windows", "Setup"}
Fault == {"package", "database", "other"}

\* busy: a GPO operation or an accepted workflow is in progress.
\* doomed: a marker that the gate of this process did not grant was written
\* while it lived or was there as it was started: an emergency stop, or the
\* promotion of an earlier process.  No action reads it.
Doom == {"no", "promotion", "emergency"}
Gone == [phase |-> "gone", mode |-> "Setup", folder |-> 0, busy |-> FALSE,
         doomed |-> "no"]
\* asked: a stop was confirmed to an operator while this supervisor was
\* watching the process; "lost" from when somebody else empties the State
\* folder until the next start.
\* boots: Windows starts since the last request or long healthy period.
Off == [pc |-> "off", mode |-> "Setup", pid |-> NoPid, result |-> "none",
        attempts |-> 0, reinstalled |-> FALSE, rotated |-> FALSE,
        setupUsed |-> FALSE, boots |-> 0, asked |-> "no"]
Idle == [pc |-> "idle", pid |-> NoPid]

MaxBoots == MaxAttempts + 3
BootCap == MaxBoots + 1

Pc == {"off", "claim", "inspect", "migrate", "prepare", "boot", "register",
       "probe", "abandon", "watch", "finish", "judge", "decide"}
ProcRecord == [phase : {"gone", "starting", "serving", "leaving"},
               mode : Mode, folder : Nat, busy : BOOLEAN, doomed : Doom]
SupRecord == [pc : Pc, mode : Mode, pid : Pid \cup {NoPid},
              result : {"none", "controlled", "unexpected", "lasting"}
                       \cup Fault,
              attempts : 0..MaxAttempts, reinstalled : BOOLEAN,
              rotated : BOOLEAN, setupUsed : BOOLEAN,
              boots : 0..BootCap, asked : {"no", "stop", "lost"}]
ClientRecord == [pc : {"idle", "promoting", "warned", "waiting", "stopping",
                       "clearing"},
                 pid : Pid \cup {NoPid}]

TypeOK ==
    /\ config \in {"missing", "complete", "saved"}
    /\ registered \in Pid \cup {NoPid}
    /\ stop \in {"none", "asked", "emergency"}
    /\ restart \in Mode \cup {"none"}
    /\ proc \in [Pid -> ProcRecord]
    /\ mutex \in SUBSET Supervisor
    /\ sup \in [Supervisor -> SupRecord]
    /\ client \in [Client -> ClientRecord]

Init ==
    /\ config \in {"missing", "complete"}
    /\ registered = NoPid
    /\ stop = "none"
    /\ restart = "none"
    /\ proc = [p \in Pid |-> Gone]
    /\ mutex = {}
    /\ sup = [s \in Supervisor |-> Off]
    /\ client = [c \in Client |-> Idle]

Live(p) == proc[p].phase # "gone"
Alive == {p \in Pid : Live(p)}
Configured == config # "missing"
\* Get-RemediatorService: the registration names a process that still runs.
Running == registered # NoPid /\ Live(registered)
Marked == stop # "none" \/ restart # "none"

At(s, pc) == sup[s].pc = pc
Held == {sup[s].pid : s \in Supervisor} \cup {client[c].pid : c \in Client}
        \cup {registered}
Unused == {p \in Pid : ~Live(p) /\ p \notin Held}

\* Somebody else than the supervisor deletes the files that speak to it.
Lost == [s \in Supervisor |->
           [sup[s] EXCEPT !.asked = IF @ = "stop" THEN "lost" ELSE @]]

\* Clear-RemediatorTransientState.
ClearFiles == registered' = NoPid /\ stop' = "none" /\ restart' = "none"

Go(s, pc) == sup' = [sup EXCEPT ![s].pc = pc]
Kill(p) == proc' = [proc EXCEPT ![p] = Gone]

-----------------------------------------------------------------------------
(* A launcher starts.                                                      *)

\* The markers are deleted before the mutex is asked for.
Launch(s) ==
    /\ At(s, "off")
    /\ stop' = "none" /\ restart' = "none"
    /\ sup' = [Lost EXCEPT ![s] = [Off EXCEPT !.pc = "claim"]]
    /\ UNCHANGED <<config, registered, proc, mutex, client>>

\* exit and the finally block: the mutex is given back, no file is touched.
Leave(s) ==
    /\ sup' = [sup EXCEPT ![s] = Off]
    /\ mutex' = mutex \ {s}

\* The outer catch block, whoever owns what it deletes.
Fatal(s) ==
    /\ ClearFiles
    /\ sup' = [Lost EXCEPT ![s] = Off]
    /\ mutex' = mutex \ {s}
    /\ UNCHANGED <<config, proc, client>>

Claim(s) ==
    /\ At(s, "claim")
    /\ mutex = {}
    /\ mutex' = {s}
    /\ Go(s, "inspect")
    /\ UNCHANGED <<files, proc, client>>

ClaimRefused(s) == At(s, "claim") /\ mutex # {} /\ Fatal(s)

\* What BeginMaintenance lets through: no operation, no accepted workflow.
\* Variant: it lets everything through.
CanLeaveBusy(p) == proc[p].phase = "serving"
CanLeave(p) == proc[p].phase = "serving" /\ ~proc[p].busy

Supervised(p) == {s \in Supervisor : sup[s].pid = p}
Asked(p) == [s \in Supervisor |->
               IF s \in Supervised(p) THEN [sup[s] EXCEPT !.asked = "stop"]
               ELSE sup[s]]

\* Variant: no marker is written.
BackendStopsUnmarked(p) ==
    /\ CanLeave(p)
    /\ proc' = [proc EXCEPT ![p].phase = "leaving"]
    /\ restart' = "none"
    /\ UNCHANGED stop

\* POST /api/service/stop as the backend handles it, but for sup.
BackendStops(p) ==
    /\ CanLeave(p)
    /\ proc' = [proc EXCEPT ![p].phase = "leaving"]
    /\ restart' = "none"
    /\ stop' = "asked"

\* Stop-StaleProductInstance: the same release already runs, or another one
\* will not stop.
InspectRefuses(s) == At(s, "inspect") /\ Running /\ Fatal(s)

InspectMigrates(s) ==
    /\ At(s, "inspect")
    /\ Running
    /\ proc[registered].folder # FolderOf[s]
    /\ BackendStops(registered)
    /\ Go(s, "migrate")
    /\ UNCHANGED <<config, registered, mutex, client>>

MigrateDone(s) ==
    /\ At(s, "migrate")
    /\ ~Running
    /\ registered' = NoPid
    /\ Go(s, "inspect")
    /\ UNCHANGED <<config, stop, restart, proc, mutex, client>>

MigrateTimesOut(s) == At(s, "migrate") /\ Running /\ Fatal(s)

\* Stop-OrphanedRuntimeProcesses and Assert-LocalPortAvailable: an instance
\* nobody registered; or the runtime cannot be installed; or Windows mode
\* was requested and no domain is known.
InspectFails(s) == At(s, "inspect") /\ ~Running /\ Fatal(s)

\* Normalize-LocalConfig: a missing configuration may be discovered.
Normalized == IF Configured THEN {config} ELSE {"missing", "complete"}

\* Variant: processes nobody registered are not looked for.
NoOrphanUnchecked == TRUE
NoOrphan == Alive = {}

\* Resolve-RunMode.
InspectDone(s) ==
    /\ At(s, "inspect")
    /\ ~Running
    /\ NoOrphan
    /\ config' \in Normalized
    /\ \E m \in IF config' = "missing" THEN {"Setup"} ELSE Mode :
           sup' = [sup EXCEPT ![s] = [@ EXCEPT !.mode = m,
                                               !.pc = "prepare"]]
    /\ UNCHANGED <<registered, stop, restart, proc, mutex, client>>

\* -Repair reinstalls the runtime and ends.
RepairDone(s) ==
    /\ At(s, "inspect")
    /\ ~Running
    /\ NoOrphan
    /\ Leave(s)
    /\ UNCHANGED <<files, proc, client>>

-----------------------------------------------------------------------------
(* Start-Application.                                                      *)

\* The backend is not started, or is gone before it was ready.
FailEarly(s, fault) ==
    sup' = [sup EXCEPT ![s] = [@ EXCEPT !.pc = "decide", !.result = fault,
                                        !.pid = NoPid]]

\* Wait-LocalPortFree ends whatever runtime still listens.
FreePort == [p \in Pid |->
               IF proc[p].phase \in {"serving", "leaving"} THEN Gone
               ELSE proc[p]]

\* Both markers are deleted just before the process is started.
Prepare(s) ==
    /\ At(s, "prepare")
    /\ IF sup[s].mode = "Windows"
       THEN config' \in Normalized \ {"missing"} /\ proc' = FreePort
       ELSE UNCHANGED <<config, proc>>
    /\ stop' = "none" /\ restart' = "none"
    /\ Go(s, "boot")
    /\ UNCHANGED <<registered, mutex, client>>

\* No complete configuration, or the port belongs to another program: the
\* text of the exception is classified like that of a failed start.
PrepareFails(s) ==
    /\ At(s, "prepare")
    /\ sup[s].mode = "Windows"
    /\ config' \in Normalized
    /\ \E fault \in Fault : FailEarly(s, fault)
    /\ UNCHANGED <<registered, stop, restart, proc, mutex, client>>

StillAsked(s) == IF sup[s].asked = "lost" THEN "no" ELSE sup[s].asked
Counted(s) ==
    IF sup[s].mode = "Windows" /\ sup[s].boots < BootCap
    THEN sup[s].boots + 1 ELSE sup[s].boots

\* The markers that appeared since they were deleted.
DoomAtStart == IF stop = "emergency" THEN "emergency"
               ELSE IF restart # "none" THEN "promotion" ELSE "no"

Boot(s) ==
    /\ At(s, "boot")
    /\ \E p \in Unused :
        /\ \A q \in Unused : p <= q
        /\ proc' = [proc EXCEPT ![p] =
               [phase |-> "starting", mode |-> sup[s].mode,
                folder |-> FolderOf[s], busy |-> FALSE,
                doomed |-> DoomAtStart]]
        /\ sup' = [sup EXCEPT ![s] = [@ EXCEPT
               !.pid = p, !.pc = "register",
               !.asked = StillAsked(s), !.boots = Counted(s)]]
    /\ UNCHANGED <<files, mutex, client>>

\* Start-Process throws.
BootFails(s) ==
    /\ At(s, "boot")
    /\ \/ sup[s].mode = "Setup" /\ Fatal(s)
       \/ /\ sup[s].mode = "Windows"
          /\ \E fault \in Fault : FailEarly(s, fault)
          /\ UNCHANGED <<files, proc, mutex, client>>

Register(s) ==
    /\ At(s, "register")
    /\ registered' = sup[s].pid
    /\ Go(s, "probe")
    /\ UNCHANGED <<config, stop, restart, proc, mutex, client>>

\* The process exited, or the last probe within 75 seconds went unanswered;
\* the process may serve by now, or serve and have answered too late.
ProbeFails(s) ==
    /\ At(s, "probe")
    /\ Go(s, "abandon")
    /\ UNCHANGED <<files, proc, mutex, client>>

\* Whatever the process does by now, it is ended.
Abandon(s) ==
    /\ At(s, "abandon")
    /\ Kill(sup[s].pid)
    /\ registered' = NoPid
    /\ \E fault \in Fault : FailEarly(s, fault)
    /\ UNCHANGED <<config, stop, restart, mutex, client>>

\* The registration is written again, now as ready.
ProbeReady(s) ==
    /\ At(s, "probe")
    /\ proc[sup[s].pid].phase \in {"serving", "leaving"}
    /\ registered' = sup[s].pid
    /\ config' = IF config = "saved" THEN "complete" ELSE config
    /\ Go(s, "watch")
    /\ UNCHANGED <<stop, restart, proc, mutex, client>>

WatchEnds(s) ==
    /\ At(s, "watch")
    /\ Marked \/ ~Live(sup[s].pid)
    /\ Go(s, "finish")
    /\ UNCHANGED <<files, proc, mutex, client>>

\* The markers were looked at before the configuration, so one may have
\* appeared since.
WatchPromotes(s) ==
    /\ At(s, "watch")
    /\ sup[s].mode = "Setup"
    /\ config = "saved"
    /\ restart' = "Windows"
    /\ Go(s, "finish")
    /\ UNCHANGED <<config, registered, stop, proc, mutex, client>>

\* The finally block ends the process whatever the markers say by now.
Finish(s) ==
    /\ At(s, "finish")
    /\ Kill(sup[s].pid)
    /\ registered' = NoPid
    /\ Go(s, "judge")
    /\ UNCHANGED <<config, stop, restart, mutex, client>>

\* The markers are looked at again; "lasting" is 300 seconds of health.
Judge(s) ==
    /\ At(s, "judge")
    /\ \E r \in IF Marked THEN {"controlled"} ELSE {"unexpected", "lasting"} :
           sup' = [sup EXCEPT ![s] = [@ EXCEPT !.pc = "decide", !.result = r,
                                               !.pid = NoPid]]
    /\ UNCHANGED <<files, proc, mutex, client>>

-----------------------------------------------------------------------------
(* The loop of the launcher.                                               *)

Again(s, r) == sup' = [sup EXCEPT ![s] =
                         [r EXCEPT !.pc = "prepare", !.result = "none"]]
NoFileTouched == UNCHANGED <<files, proc, mutex, client>>

\* Variant: an emergency or an accepted stop yields to a restart marker.
StopsUnlessRestart == stop # "none" /\ restart = "none"
Stops == stop # "none"

DecideStop(s) ==
    /\ At(s, "decide")
    /\ Stops
    /\ ClearFiles
    /\ Leave(s)
    /\ UNCHANGED <<config, proc, client>>

\* A restart of Setup with a complete configuration is a promotion.
Requested(s) ==
    IF sup[s].mode = "Setup" /\ Configured THEN "Windows" ELSE restart

DecideRestart(s) ==
    /\ At(s, "decide")
    /\ ~Stops
    /\ restart # "none"
    /\ restart' = "none"
    /\ Again(s, [sup[s] EXCEPT
                   !.mode = Requested(s), !.boots = 0,
                   !.setupUsed = IF Requested(s) = "Windows" THEN FALSE
                                 ELSE @])
    /\ UNCHANGED <<config, registered, stop, proc, mutex, client>>

Unmarked(s) == At(s, "decide") /\ ~Marked
Crashed(s) ==
    sup[s].mode = "Windows" /\ sup[s].result \in {"unexpected", "lasting"}
Failed(s) == sup[s].mode = "Windows" /\ sup[s].result \in Fault
\* Variant: every crash is a first one.
TriedAfresh(s) == 0
Tried(s) == IF sup[s].result = "lasting" THEN 0 ELSE sup[s].attempts

\* Variant: one attempt too many.
MayRetryOnceMore(s) == Tried(s) <= MaxAttempts
MayRetry(s) == Tried(s) < MaxAttempts

DecideRecover(s) ==
    /\ Unmarked(s)
    /\ Crashed(s)
    /\ Again(s, IF MayRetry(s)
                THEN [sup[s] EXCEPT
                        !.attempts = Tried(s) + 1,
                        !.boots = IF sup[s].result = "lasting" THEN 0 ELSE @]
                ELSE [sup[s] EXCEPT !.mode = "Setup", !.setupUsed = TRUE])
    /\ NoFileTouched

\* Variant: the reinstallation is not remembered.
ReinstalledForgotten(r) == r
Reinstalled(r) == [r EXCEPT !.reinstalled = TRUE]
MayReinstall(s) == sup[s].result = "package" /\ ~sup[s].reinstalled
MayRotate(s) == sup[s].result = "database" /\ ~sup[s].rotated

DecideReinstall(s) ==
    /\ Unmarked(s)
    /\ Failed(s)
    /\ MayReinstall(s)
    /\ Again(s, Reinstalled(sup[s]))
    /\ NoFileTouched

\* Backup-WindowsDatabaseForRecovery; the moves it makes may throw.
DecideRotate(s) ==
    /\ Unmarked(s)
    /\ Failed(s)
    /\ MayRotate(s)
    /\ \/ Again(s, [sup[s] EXCEPT !.rotated = TRUE]) /\ NoFileTouched
       \/ Fatal(s)

\* Also when the reinstallation just failed.
OpenSetup(s) ==
    /\ LET r == IF MayReinstall(s) THEN Reinstalled(sup[s]) ELSE sup[s]
       IN  Again(s, [r EXCEPT !.mode = "Setup", !.setupUsed = TRUE])
    /\ NoFileTouched

\* The code gives up where Setup was already used.  It never comes to that:
\* Setup is left only for a request, which forgets that it was used.
DecideSetup(s) ==
    /\ Unmarked(s)
    /\ Failed(s)
    /\ ~MayRotate(s)
    /\ IF sup[s].setupUsed THEN Fatal(s) ELSE OpenSetup(s)

\* Setup ended by itself, or a marker vanished since it was judged.
DecideExit(s) ==
    /\ Unmarked(s)
    /\ ~Crashed(s)
    /\ ~Failed(s)
    /\ Leave(s)
    /\ UNCHANGED <<files, proc, client>>

\* The launcher itself is killed: no finally block runs, the child lives on.
LauncherDies(s) ==
    /\ ~At(s, "off")
    /\ Leave(s)
    /\ UNCHANGED <<files, proc, client>>

-----------------------------------------------------------------------------
(* The backend process.                                                    *)

\* The database mutex lets one process of a mode serve.
Serve(p) ==
    /\ proc[p].phase = "starting"
    /\ \A q \in Alive \ {p} : proc[q].mode # proc[p].mode
    /\ proc' = [proc EXCEPT ![p].phase = "serving"]
    /\ UNCHANGED <<files, mutex, sup, client>>

Crash(p) ==
    /\ Live(p)
    /\ Kill(p)
    /\ UNCHANGED <<files, mutex, sup, client>>

\* Setup mode serves no GPO operation; nor does a process that is leaving.
BeginWork(p) ==
    /\ proc[p].phase = "serving" /\ proc[p].mode = "Windows"
    /\ proc' = [proc EXCEPT ![p].busy = TRUE]
    /\ UNCHANGED <<files, mutex, sup, client>>

EndWork(p) ==
    /\ proc[p].busy
    /\ proc' = [proc EXCEPT ![p].busy = FALSE]
    /\ UNCHANGED <<files, mutex, sup, client>>

AcceptStop(p) ==
    /\ BackendStops(p)
    /\ sup' = Asked(p)
    /\ UNCHANGED <<config, registered, mutex, client>>

\* ScheduleRestart.
BackendRestarts(p, mode) ==
    /\ CanLeave(p)
    /\ proc' = [proc EXCEPT ![p].phase = "leaving"]
    /\ restart' = mode

AcceptRestart(p) ==
    /\ BackendRestarts(p, proc[p].mode)
    /\ UNCHANGED <<config, registered, stop, mutex, sup, client>>

\* Saving the configuration, without and with AutoRestart.
SaveConfig(p) ==
    /\ CanLeave(p)
    /\ proc[p].mode = "Setup"
    /\ config' = "saved"
    /\ UNCHANGED <<registered, stop, restart, proc, mutex, sup, client>>

SaveAndRestart(p) ==
    /\ BackendRestarts(p, "Windows")
    /\ config' = "saved"
    /\ UNCHANGED <<registered, stop, mutex, sup, client>>

\* StopApplication, 900 milliseconds after the answer.
ShutDown(p) ==
    /\ proc[p].phase = "leaving"
    /\ Kill(p)
    /\ UNCHANGED <<files, mutex, sup, client>>

-----------------------------------------------------------------------------
(* Native callers.                                                         *)

\* Invoke-RemediatorServiceAction restart: from Setup it is a promotion, for
\* which the caller overwrites the marker after the backend accepted.
ClientRestarts(c) ==
    /\ client[c].pc = "idle"
    /\ Running
    /\ proc[registered].mode = "Setup" /\ Configured
    /\ BackendRestarts(registered, "Setup")
    /\ client' = [client EXCEPT ![c] = [pc |-> "promoting", pid |-> registered]]
    /\ UNCHANGED <<config, registered, stop, mutex, sup>>

\* However late: the process that accepted may be gone, and the next one
\* started, before the marker is written.
Promoted(p) == [q \in Pid |->
                  IF Live(q) /\ q # p /\ proc[q].doomed = "no"
                  THEN [proc[q] EXCEPT !.doomed = "promotion"] ELSE proc[q]]
ClientPromotes(c) ==
    /\ client[c].pc = "promoting"
    /\ restart' = "Windows"
    /\ proc' = Promoted(client[c].pid)
    /\ client' = [client EXCEPT ![c] = Idle]
    /\ UNCHANGED <<config, registered, stop, mutex, sup>>

\* A stop returns to the Control Panel, which is done, or to the Stop script,
\* which goes on to empty the State folder.
Returned(c) ==
    \E r \in {Idle, [pc |-> "clearing", pid |-> client[c].pid]} :
        client' = [client EXCEPT ![c] = r]

\* Invoke-RemediatorServiceAction stop: the caller deletes the registration
\* once it has seen that nothing registered runs, whatever runs by then.
ClientStops(c) ==
    /\ client[c].pc = "idle"
    /\ Running
    /\ BackendStops(registered)
    /\ sup' = Asked(registered)
    /\ client' = [client EXCEPT ![c] = [pc |-> "stopping", pid |-> registered]]
    /\ UNCHANGED <<config, registered, mutex>>

ClientForgets(c) ==
    /\ client[c].pc = "stopping"
    /\ ~Live(client[c].pid)
    /\ registered' = NoPid
    /\ Returned(c)
    /\ UNCHANGED <<config, stop, restart, proc, mutex, sup>>

\* Stop-RemediatorEmergency: the registration is read, the marker written,
\* and the process ended only if it is still the registered one.
EmergencyWarns(c) ==
    /\ client[c].pc = "idle"
    /\ Running
    /\ client' = [client EXCEPT ![c] = [pc |-> "warned", pid |-> registered]]
    /\ UNCHANGED <<files, proc, mutex, sup>>

EmergencyMarks(c) ==
    /\ client[c].pc = "warned"
    /\ stop' = "emergency"
    /\ proc' = [p \in Pid |->
                  IF Live(p) THEN [proc[p] EXCEPT !.doomed = "emergency"]
                  ELSE proc[p]]
    /\ client' = [client EXCEPT ![c].pc = "waiting"]
    /\ UNCHANGED <<config, registered, restart, mutex, sup>>

EmergencyKills(c) ==
    /\ client[c].pc = "waiting"
    /\ Running /\ registered = client[c].pid
    /\ Kill(registered)
    /\ Returned(c)
    /\ UNCHANGED <<files, mutex, sup>>

EmergencyEnds(c) ==
    /\ client[c].pc = "waiting"
    /\ ~Running
    /\ Returned(c)
    /\ UNCHANGED <<files, proc, mutex, sup>>

\* A caller returns without effect: another process was registered, or the
\* caller itself was ended.
ClientReturns(c) ==
    /\ client[c].pc # "idle"
    /\ client' = [client EXCEPT ![c] = Idle]
    /\ UNCHANGED <<files, proc, mutex, sup>>

\* Stop-GpoRemediator.ps1 after its stop: once the launcher of the process it
\* stopped is past its decision, and whatever was started since.
ClientClears(c) ==
    /\ client[c].pc = "clearing"
    /\ Supervised(client[c].pid) = {}
    /\ \A s \in Supervisor : ~At(s, "decide")
    /\ ClearFiles
    /\ sup' = Lost
    /\ client' = [client EXCEPT ![c] = Idle]
    /\ UNCHANGED <<config, proc, mutex>>

\* Stop-GpoRemediator.ps1 when it finds nothing registered and running.
StopScriptClears ==
    /\ ~Running
    /\ ClearFiles
    /\ sup' = Lost
    /\ UNCHANGED <<config, proc, mutex, client>>

-----------------------------------------------------------------------------
\* What a running launcher does by itself.
Supervise(s) ==
    \/ Claim(s) \/ ClaimRefused(s)
    \/ InspectRefuses(s) \/ InspectMigrates(s) \/ InspectFails(s)
    \/ InspectDone(s) \/ RepairDone(s) \/ MigrateDone(s) \/ MigrateTimesOut(s)
    \/ Prepare(s) \/ PrepareFails(s) \/ Boot(s) \/ BootFails(s) \/ Register(s)
    \/ ProbeFails(s) \/ Abandon(s) \/ ProbeReady(s)
    \/ WatchEnds(s) \/ WatchPromotes(s) \/ Finish(s) \/ Judge(s)
    \/ DecideStop(s) \/ DecideRestart(s) \/ DecideRecover(s)
    \/ DecideReinstall(s) \/ DecideRotate(s) \/ DecideSetup(s)
    \/ DecideExit(s)
Backend(p) ==
    \/ Serve(p) \/ Crash(p) \/ BeginWork(p) \/ EndWork(p) \/ ShutDown(p)
    \/ AcceptStop(p) \/ AcceptRestart(p) \/ SaveConfig(p) \/ SaveAndRestart(p)
Call(c) ==
    \/ ClientRestarts(c) \/ ClientPromotes(c) \/ ClientReturns(c)
    \/ ClientStops(c) \/ ClientForgets(c) \/ ClientClears(c)
    \/ EmergencyWarns(c) \/ EmergencyMarks(c) \/ EmergencyKills(c)
    \/ EmergencyEnds(c)

Next ==
    \/ \E s \in Supervisor : Supervise(s) \/ Launch(s) \/ LauncherDies(s)
    \/ \E p \in Pid : Backend(p)
    \/ \E c \in Client : Call(c)
    \/ StopScriptClears

Spec == Init /\ [][Next]_vars
FairSpec == /\ Spec
            /\ \A s \in Supervisor : WF_vars(Supervise(s))

-----------------------------------------------------------------------------
(* Properties.                                                             *)

\* At most one backend process exists, though launchers are started twice,
\* are killed and leave their child behind, or lose its registration: the
\* mutex, Stop-StaleProductInstance and Stop-OrphanedRuntimeProcesses
\* together keep a second one from being started.
OneRuntime == Cardinality(Alive) <= 1

\* A busy backend ends in four ways and no other: it crashes; the launcher
\* gives it up before it ever reported it as ready (lines 490-492); or a
\* marker that its own gate did not grant was written while it lived or as it
\* was started: an emergency stop, or the promotion of an earlier process
\* (ServiceControl.ps1:49-51).  So none of the granted markers, which four
\* reads and several writers pass on, none of the promotions of the watch
\* loop, no second start, migration or port release ends an operation.
BusyEnd(p) == proc[p].busy /\ proc'[p].phase = "gone"
GivenUp(p) == \E s \in Supervisor : sup[s].pid = p /\ Abandon(s)
BusyEndsAreOverruled ==
    [][\A p \in Pid : BusyEnd(p) /\ proc[p].doomed = "no"
                       => Crash(p) \/ GivenUp(p)]_vars

\* A stop confirmed to an operator is final: unless somebody else emptied the
\* State folder, the supervisor takes it for what it is, neither for a crash
\* to recover from nor for a restart, and starts nothing more.
StopIsFinal ==
    \A s \in Supervisor :
        sup[s].asked = "stop" =>
            /\ stop # "none"
            /\ sup[s].pc \notin {"prepare", "boot"}

\* The recovery attempts, the reinstallation and the database rotation each
\* run out: between two requests Windows mode is started a bounded number of
\* times without a long healthy period, then Setup or the end of the launcher.
BoundedRetries == \A s \in Supervisor : sup[s].boots <= MaxBoots

\* A confirmed stop also ends the supervisor, whatever it was doing, unless
\* somebody else emptied the State folder first.
StopPending == \E s \in Supervisor : sup[s].asked = "stop"
ConfirmedStopEnds == StopPending ~> ~StopPending

\* Violated: the process that a supervisor watches stays registered, so that
\* the Control Center can stop and restart it.
SupervisedIsRegistered ==
    \A s \in Supervisor :
        sup[s].pc = "watch" /\ Live(sup[s].pid) => registered = sup[s].pid

-----------------------------------------------------------------------------
(* The invariant behind the safety properties, which none of them is by    *)
(* itself.                                                                 *)

\* Past the mutex, a launcher is alone.
MutexHeld == \A s \in Supervisor :
    sup[s].pc \notin {"off", "claim"} => mutex = {s}

\* Any two live processes are the same.
Lonely == \A p, q \in Pid : Live(p) /\ Live(q) => p = q

\* A launcher holds a process from Start-Process to the judgement on its end;
\* past the inspection it knows which process lives, if any.
Holding == {"register", "probe", "abandon", "watch", "finish"}
Position(s) ==
    /\ sup[s].pid # NoPid => sup[s].pc \in Holding \cup {"judge"}
    /\ sup[s].pc \in Holding \cup {"judge"} => sup[s].pid \in Pid
    /\ sup[s].pc \in Holding => \A p \in Pid : Live(p) => p = sup[s].pid
    /\ sup[s].pc \in {"prepare", "boot", "judge", "decide"} =>
           \A p \in Pid : ~Live(p)

\* A confirmed stop keeps its marker until its supervisor reads it.
StopKept == \A s \in Supervisor :
    sup[s].asked = "stop" =>
        stop # "none" /\ sup[s].pc \in Holding \cup {"judge", "decide"}

\* Every start of Windows mode beyond the first was paid for.
Paid(r) == r.attempts + (IF r.reinstalled THEN 1 ELSE 0)
                      + (IF r.rotated THEN 1 ELSE 0)
Early == {"off", "claim", "inspect", "migrate"}
PaidFor(r) ==
    /\ r.boots <= Paid(r) + 1
    /\ r.pc \in {"prepare", "boot"} /\ r.mode = "Windows" => r.boots <= Paid(r)
    /\ r.pc \in Early => r.boots = 0
RetriesPaid == \A s \in Supervisor : PaidFor(sup[s])

Alone == MutexHeld /\ Lonely /\ \A s \in Supervisor : Position(s)

\* Whoever supervises is alone and knows what lives, a confirmed stop keeps
\* its marker, and every start is accounted for.
LInv == TypeOK /\ Alone /\ StopKept /\ RetriesPaid
=============================================================================
