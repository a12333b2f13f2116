---------------------------- MODULE LauncherProofs ---------------------------
(***************************************************************************)
(* One backend process, final stops, bounded retries and quiet ends of     *)
(* Launcher, for any number of launchers, callers, process ids and retries.*)
(***************************************************************************)
EXTENDS Launcher, FiniteSetTheorems, TLAPS

-----------------------------------------------------------------------------
(* Types.                                                                  *)

\* The whole state is typed at the start.
LEMMA InitType == Init => TypeOK
  BY PidAssumption, FolderAssumption, BoundAssumption
  DEF Init, TypeOK, Gone, Off, Idle, ProcRecord, SupRecord, ClientRecord, Pc,
      Mode, Doom, Fault, MaxBoots, BootCap

\* Records of supervisors under the updates that several actions share.
LEMMA SupRecords ==
  ASSUME NEW r \in SupRecord
  PROVE  /\ Off \in SupRecord
         /\ \A pc \in Pc : [r EXCEPT !.pc = pc] \in SupRecord
         /\ [r EXCEPT !.asked = IF @ = "stop" THEN "lost" ELSE @] \in SupRecord
         /\ [r EXCEPT !.asked = "stop"] \in SupRecord
         /\ [r EXCEPT !.pc = "prepare", !.result = "none"] \in SupRecord
         /\ \A m \in Mode : [r EXCEPT !.mode = m, !.pc = "prepare"] \in SupRecord
         /\ [r EXCEPT !.mode = "Setup", !.setupUsed = TRUE] \in SupRecord
         /\ [r EXCEPT !.reinstalled = TRUE] \in SupRecord
         /\ [r EXCEPT !.rotated = TRUE] \in SupRecord
<1>1. Off \in SupRecord
  BY PidAssumption, BoundAssumption
  DEF SupRecord, Off, Pc, Mode, MaxBoots, BootCap
<1>2. \A pc \in Pc : [r EXCEPT !.pc = pc] \in SupRecord
  BY DEF SupRecord
<1>3. /\ [r EXCEPT !.asked = IF @ = "stop" THEN "lost" ELSE @] \in SupRecord
      /\ [r EXCEPT !.asked = "stop"] \in SupRecord
  BY DEF SupRecord
<1>4. [r EXCEPT !.pc = "prepare", !.result = "none"] \in SupRecord
  BY DEF SupRecord, Pc
<1>5. \A m \in Mode : [r EXCEPT !.mode = m, !.pc = "prepare"] \in SupRecord
  BY DEF SupRecord, Pc
<1>6. [r EXCEPT !.mode = "Setup", !.setupUsed = TRUE] \in SupRecord
  BY DEF SupRecord, Mode
<1>7. /\ [r EXCEPT !.reinstalled = TRUE] \in SupRecord
      /\ [r EXCEPT !.rotated = TRUE] \in SupRecord
  BY DEF SupRecord
<1> QED
  BY <1>1, <1>2, <1>3, <1>4, <1>5, <1>6, <1>7

LEMMA SupResults ==
  ASSUME NEW r \in SupRecord,
         NEW result \in Fault \cup {"controlled", "unexpected", "lasting"}
  PROVE  [r EXCEPT !.pc = "decide", !.result = result, !.pid = NoPid]
             \in SupRecord
  BY PidAssumption DEF SupRecord, Pc, Fault

\* Records of supervisors with one field changed.
LEMMA SupFields ==
  ASSUME NEW r \in SupRecord
  PROVE  /\ \A m \in Mode : [r EXCEPT !.mode = m] \in SupRecord
         /\ \A p \in Pid : [r EXCEPT !.pid = p] \in SupRecord
         /\ \A n \in 0..BootCap : [r EXCEPT !.boots = n] \in SupRecord
         /\ \A b \in BOOLEAN : [r EXCEPT !.setupUsed = b] \in SupRecord
         /\ \A a \in {"no", "stop", "lost"} :
                [r EXCEPT !.asked = a] \in SupRecord
<1>1. \A m \in Mode : [r EXCEPT !.mode = m] \in SupRecord
  BY DEF SupRecord
<1>2. \A p \in Pid : [r EXCEPT !.pid = p] \in SupRecord
  BY DEF SupRecord
<1>3. \A n \in 0..BootCap : [r EXCEPT !.boots = n] \in SupRecord
  BY DEF SupRecord
<1>4. \A b \in BOOLEAN : [r EXCEPT !.setupUsed = b] \in SupRecord
  BY DEF SupRecord
<1>5. \A a \in {"no", "stop", "lost"} : [r EXCEPT !.asked = a] \in SupRecord
  BY DEF SupRecord
<1> QED
  BY <1>1, <1>2, <1>3, <1>4, <1>5

LEMMA SupSet ==
  ASSUME sup \in [Supervisor -> SupRecord], NEW s \in Supervisor,
         NEW r \in SupRecord, sup' = [sup EXCEPT ![s] = r]
  PROVE  sup' \in [Supervisor -> SupRecord]
  OBVIOUS

LEMMA GoType ==
  ASSUME sup \in [Supervisor -> SupRecord], NEW s \in Supervisor,
         NEW pc \in Pc, Go(s, pc)
  PROVE  sup' \in [Supervisor -> SupRecord]
<1>1. sup' = [sup EXCEPT ![s] = [sup[s] EXCEPT !.pc = pc]]
  BY DEF Go
<1>2. [sup[s] EXCEPT !.pc = pc] \in SupRecord
  BY SupRecords
<1> QED
  BY <1>1, <1>2, SupSet

LEMMA LostType ==
  ASSUME sup \in [Supervisor -> SupRecord]
  PROVE  Lost \in [Supervisor -> SupRecord]
  BY DEF Lost, SupRecord

LEMMA AskedType ==
  ASSUME sup \in [Supervisor -> SupRecord], NEW p
  PROVE  Asked(p) \in [Supervisor -> SupRecord]
<1>1. \A s \in Supervisor : [sup[s] EXCEPT !.asked = "stop"] \in SupRecord
  BY SupRecords
<1> QED
  BY <1>1 DEF Asked

LEMMA AgainType ==
  ASSUME sup \in [Supervisor -> SupRecord], NEW s \in Supervisor,
         NEW r \in SupRecord, Again(s, r)
  PROVE  sup' \in [Supervisor -> SupRecord]
<1>1. [r EXCEPT !.pc = "prepare", !.result = "none"] \in SupRecord
  BY SupRecords
<1>2. sup' = [sup EXCEPT ![s] = [r EXCEPT !.pc = "prepare", !.result = "none"]]
  BY DEF Again
<1> QED
  BY <1>1, <1>2, SupSet

LEMMA FailEarlyType ==
  ASSUME sup \in [Supervisor -> SupRecord], NEW s \in Supervisor,
         NEW fault \in Fault, FailEarly(s, fault)
  PROVE  sup' \in [Supervisor -> SupRecord]
  BY SupResults, SupSet DEF FailEarly

LEMMA FatalType ==
  ASSUME TypeOK, NEW s \in Supervisor, Fatal(s)
  PROVE  TypeOK'
<1>1. [Lost EXCEPT ![s] = Off] \in [Supervisor -> SupRecord]
  BY LostType, SupRecords DEF TypeOK
<1> QED
  BY <1>1, PidAssumption DEF TypeOK, Fatal, ClearFiles

LEMMA LeaveType ==
  ASSUME TypeOK, NEW s \in Supervisor, Leave(s)
  PROVE  /\ sup' \in [Supervisor -> SupRecord]
         /\ mutex' \in SUBSET Supervisor
  BY SupRecords DEF TypeOK, Leave

\* Records of processes.
LEMMA ProcRecords ==
  ASSUME NEW r \in ProcRecord
  PROVE  /\ Gone \in ProcRecord
         /\ [r EXCEPT !.phase = "leaving"] \in ProcRecord
         /\ [r EXCEPT !.phase = "serving"] \in ProcRecord
         /\ [r EXCEPT !.busy = TRUE] \in ProcRecord
         /\ [r EXCEPT !.busy = FALSE] \in ProcRecord
         /\ \A d \in Doom : [r EXCEPT !.doomed = d] \in ProcRecord
  BY DEF ProcRecord, Gone, Mode, Doom

LEMMA KillType ==
  ASSUME proc \in [Pid -> ProcRecord], NEW p, Kill(p)
  PROVE  proc' \in [Pid -> ProcRecord]
  BY ProcRecords DEF Kill, Gone, ProcRecord, Mode, Doom

LEMMA LeavingType ==
  ASSUME proc \in [Pid -> ProcRecord], NEW p \in Pid,
         proc' = [proc EXCEPT ![p].phase = "leaving"]
  PROVE  proc' \in [Pid -> ProcRecord]
  BY ProcRecords

LEMMA RunningPid ==
  ASSUME TypeOK, Running
  PROVE  registered \in Pid
  BY DEF TypeOK, Running

\* What a requested restart and a recovery start again with.
LEMMA RestartAgain ==
  ASSUME TypeOK, NEW s \in Supervisor, DecideRestart(s)
  PROVE  \E r \in SupRecord : Again(s, r) /\ r.boots = 0
<1>1. sup[s] \in SupRecord
  BY DEF TypeOK
<1>2. Requested(s) \in Mode
  BY DEF TypeOK, DecideRestart, Requested, Mode
<1>3. PICK m \in Mode, used \in BOOLEAN :
        Again(s, [sup[s] EXCEPT !.mode = m, !.boots = 0, !.setupUsed = used])
  <2>1. (IF Requested(s) = "Windows" THEN FALSE ELSE sup[s].setupUsed)
            \in BOOLEAN
    BY <1>1 DEF SupRecord
  <2> QED
    BY <1>2, <2>1, Zenon DEF DecideRestart
<1> DEFINE r1 == [sup[s] EXCEPT !.mode = m]
           r2 == [r1 EXCEPT !.boots = 0]
           r3 == [r2 EXCEPT !.setupUsed = used]
<1>4. r1 \in SupRecord
  BY <1>1, SupFields
<1>5. 0 \in 0..BootCap
  BY BoundAssumption DEF MaxBoots, BootCap
<1>6. r2 \in SupRecord
  BY <1>4, <1>5, SupFields
<1>7. r3 \in SupRecord
  BY <1>6, SupFields
<1>8. r3.boots = 0
  BY <1>1 DEF SupRecord
<1> QED
  BY <1>3, <1>7, <1>8

LEMMA RecoverAgain ==
  ASSUME TypeOK, NEW s \in Supervisor, DecideRecover(s)
  PROVE  \E r \in SupRecord :
           /\ Again(s, r)
           /\ r.reinstalled = sup[s].reinstalled
           /\ r.rotated = sup[s].rotated
           /\ \/ r.boots = 0
              \/ r.boots = sup[s].boots /\ r.attempts = sup[s].attempts + 1
              \/ r.boots = sup[s].boots /\ r.attempts = sup[s].attempts
                 /\ r.mode = "Setup"
<1>1. sup[s] \in SupRecord
  BY DEF TypeOK
<1>2. CASE MayRetry(s)
  <2>1. Tried(s) + 1 \in 0..MaxAttempts
    BY <1>1, <1>2, BoundAssumption DEF MayRetry, Tried, SupRecord
  <2>2. PICK boots \in 0..BootCap :
          boots = IF sup[s].result = "lasting" THEN 0 ELSE sup[s].boots
    BY <1>1, BoundAssumption DEF SupRecord, BootCap, MaxBoots
  <2> DEFINE r == [sup[s] EXCEPT !.attempts = Tried(s) + 1, !.boots = boots]
  <2>3. r \in SupRecord
    BY <1>1, <2>1 DEF SupRecord
  <2>4. Again(s, r)
    BY <1>2, <2>2, Zenon DEF DecideRecover
  <2>5. /\ r.reinstalled = sup[s].reinstalled /\ r.rotated = sup[s].rotated
        /\ r.boots = boots /\ r.attempts = Tried(s) + 1
    BY <1>1 DEF SupRecord
  <2> HIDE DEF r
  <2> QED
    BY <2>2, <2>3, <2>4, <2>5 DEF Tried
<1>3. CASE ~MayRetry(s)
  <2> DEFINE r == [sup[s] EXCEPT !.mode = "Setup", !.setupUsed = TRUE]
  <2>1. r \in SupRecord
    BY <1>1, SupRecords
  <2>2. Again(s, r)
    BY <1>3 DEF DecideRecover
  <2>3. /\ r.reinstalled = sup[s].reinstalled /\ r.rotated = sup[s].rotated
        /\ r.boots = sup[s].boots /\ r.attempts = sup[s].attempts
        /\ r.mode = "Setup"
    BY <1>1 DEF SupRecord
  <2> HIDE DEF r
  <2> QED
    BY <2>1, <2>2, <2>3
<1> QED
  BY <1>2, <1>3

\* What a running launcher does keeps the types.
LEMMA SuperviseType ==
  ASSUME TypeOK, NEW s \in Supervisor, Supervise(s)
  PROVE  TypeOK'
<1> USE PidAssumption DEF TypeOK, files
<1>1. CASE Claim(s)
  BY <1>1, GoType DEF Claim, Pc
<1>2. CASE Fatal(s)
  BY <1>2, FatalType
<1>3. CASE InspectMigrates(s)
  <2>1. sup' \in [Supervisor -> SupRecord]
    BY <1>3, GoType DEF InspectMigrates, Pc
  <2>2. proc' \in [Pid -> ProcRecord]
    BY <1>3, RunningPid, LeavingType DEF InspectMigrates, BackendStops
  <2> QED
    BY <1>3, <2>1, <2>2 DEF InspectMigrates, BackendStops
<1>4. CASE InspectDone(s)
  <2>1. PICK m \in Mode : sup' = [sup EXCEPT ![s] = [@ EXCEPT !.mode = m,
                                                            !.pc = "prepare"]]
    BY <1>4 DEF InspectDone, Mode
  <2>2. [sup[s] EXCEPT !.mode = m, !.pc = "prepare"] \in SupRecord
    BY SupRecords
  <2>3. sup' \in [Supervisor -> SupRecord]
    BY <2>1, <2>2, SupSet
  <2> QED
    BY <1>4, <2>3 DEF InspectDone, Normalized
<1>5. CASE RepairDone(s)
  BY <1>5, LeaveType DEF RepairDone
<1>6. CASE MigrateDone(s)
  BY <1>6, GoType DEF MigrateDone, Pc
<1>7. CASE Prepare(s)
  <2>1. sup' \in [Supervisor -> SupRecord]
    BY <1>7, GoType DEF Prepare, Pc
  <2>2. FreePort \in [Pid -> ProcRecord]
    BY DEF FreePort, Gone, ProcRecord, Mode, Doom
  <2> QED
    BY <1>7, <2>1, <2>2 DEF Prepare, Normalized
<1>8. CASE PrepareFails(s)
  <2>1. sup' \in [Supervisor -> SupRecord]
    BY <1>8, FailEarlyType DEF PrepareFails, Fault
  <2> QED
    BY <1>8, <2>1 DEF PrepareFails, Normalized
<1>9. CASE Boot(s)
  <2>1. PICK p \in Pid :
          /\ proc' = [proc EXCEPT ![p] =
                 [phase |-> "starting", mode |-> sup[s].mode,
                  folder |-> FolderOf[s], busy |-> FALSE,
                  doomed |-> DoomAtStart]]
          /\ sup' = [sup EXCEPT ![s] = [@ EXCEPT
                 !.pid = p, !.pc = "register",
                 !.asked = StillAsked(s), !.boots = Counted(s)]]
    BY <1>9 DEF Boot, Unused
  <2>2. [phase |-> "starting", mode |-> sup[s].mode, folder |-> FolderOf[s],
         busy |-> FALSE, doomed |-> DoomAtStart] \in ProcRecord
    BY FolderAssumption DEF ProcRecord, SupRecord, DoomAtStart, Doom
  <2>3. Counted(s) \in 0..BootCap
    BY BoundAssumption DEF Counted, SupRecord, BootCap, MaxBoots
  <2>4. StillAsked(s) \in {"no", "stop", "lost"}
    BY DEF StillAsked, SupRecord
  <2>5. sup' \in [Supervisor -> SupRecord]
    <3> DEFINE r1 == [sup[s] EXCEPT !.pid = p]
               r2 == [r1 EXCEPT !.pc = "register"]
               r3 == [r2 EXCEPT !.asked = StillAsked(s)]
    <3>1. r1 \in SupRecord
      BY SupFields
    <3>2. r2 \in SupRecord
      BY <3>1, SupRecords DEF Pc
    <3>3. r3 \in SupRecord
      BY <3>2, <2>4, SupFields
    <3>4. [r3 EXCEPT !.boots = Counted(s)] \in SupRecord
      BY <3>3, <2>3, SupFields
    <3>5. sup' = [sup EXCEPT ![s] = [r3 EXCEPT !.boots = Counted(s)]]
      BY <2>1, Zenon
    <3> QED
      BY <3>4, <3>5, SupSet
  <2>6. proc' \in [Pid -> ProcRecord]
    BY <2>1, <2>2
  <2> QED
    BY <1>9, <2>5, <2>6 DEF Boot
<1>10. CASE BootFails(s)
  BY <1>10, <1>2, FailEarlyType DEF BootFails, Fault
<1>11. CASE Register(s)
  <2>1. sup[s].pid \in Pid \cup {NoPid}
    BY DEF SupRecord
  <2> QED
    BY <1>11, <2>1, GoType DEF Register, Pc
<1>12. CASE Abandon(s)
  BY <1>12, FailEarlyType, KillType DEF Abandon
<1>13. CASE ProbeReady(s)
  <2>1. sup[s].pid \in Pid \cup {NoPid}
    BY DEF SupRecord
  <2> QED
    BY <1>13, <2>1, GoType DEF ProbeReady, Pc
<1>14. CASE WatchEnds(s) \/ ProbeFails(s)
  BY <1>14, GoType DEF WatchEnds, ProbeFails, Pc
<1>15. CASE WatchPromotes(s)
  BY <1>15, GoType DEF WatchPromotes, Pc, Mode
<1>16. CASE Finish(s)
  BY <1>16, GoType, KillType DEF Finish, Pc
<1>17. CASE Judge(s)
  BY <1>17, SupResults, SupSet DEF Judge
<1>18. CASE DecideStop(s)
  BY <1>18, LeaveType DEF DecideStop, ClearFiles
<1>19. CASE DecideRestart(s)
  BY <1>19, RestartAgain, AgainType DEF DecideRestart
<1>20. CASE DecideRecover(s)
  BY <1>20, RecoverAgain, AgainType DEF DecideRecover, NoFileTouched
<1>21. CASE DecideReinstall(s)
  BY <1>21, SupRecords, AgainType DEF DecideReinstall, Reinstalled, NoFileTouched
<1>22. CASE DecideRotate(s)
  BY <1>22, <1>2, SupRecords, AgainType DEF DecideRotate, NoFileTouched
<1>23. CASE OpenSetup(s)
  <2>1. PICK r \in SupRecord :
          Again(s, [r EXCEPT !.mode = "Setup", !.setupUsed = TRUE])
    BY <1>23, SupRecords DEF OpenSetup, Reinstalled
  <2> QED
    BY <1>23, <2>1, SupRecords, AgainType DEF OpenSetup, NoFileTouched
<1>24. CASE DecideExit(s)
  BY <1>24, LeaveType DEF DecideExit
<1> QED
  BY <1>1, <1>2, <1>3, <1>4, <1>5, <1>6, <1>7, <1>8, <1>9, <1>10, <1>11,
     <1>12, <1>13, <1>14, <1>15, <1>16, <1>17, <1>18, <1>19, <1>20, <1>21,
     <1>22, <1>23, <1>24, Supervise(s)
  DEF Supervise, ClaimRefused, InspectRefuses, InspectFails, MigrateTimesOut,
      DecideSetup

\* Nor does what anybody else does disturb them.
LEMMA BackendType ==
  ASSUME TypeOK, NEW p \in Pid, Backend(p)
  PROVE  TypeOK'
<1> USE DEF TypeOK, files
<1>1. CASE Serve(p)
  BY <1>1, ProcRecords DEF Serve
<1>2. CASE Crash(p) \/ ShutDown(p)
  BY <1>2, KillType DEF Crash, ShutDown
<1>3. CASE BeginWork(p)
  BY <1>3, ProcRecords DEF BeginWork
<1>4. CASE EndWork(p)
  BY <1>4, ProcRecords DEF EndWork
<1>5. CASE AcceptStop(p)
  BY <1>5, AskedType, LeavingType DEF AcceptStop, BackendStops
<1>6. CASE AcceptRestart(p)
  BY <1>6, LeavingType DEF AcceptRestart, BackendRestarts, ProcRecord
<1>7. CASE SaveConfig(p)
  BY <1>7 DEF SaveConfig
<1>8. CASE SaveAndRestart(p)
  BY <1>8, LeavingType DEF SaveAndRestart, BackendRestarts, Mode
<1> QED
  BY <1>1, <1>2, <1>3, <1>4, <1>5, <1>6, <1>7, <1>8, Backend(p) DEF Backend

LEMMA ClientRecords ==
  ASSUME NEW p \in Pid \cup {NoPid}
  PROVE  /\ Idle \in ClientRecord
         /\ [pc |-> "promoting", pid |-> p] \in ClientRecord
         /\ [pc |-> "warned", pid |-> p] \in ClientRecord
         /\ [pc |-> "stopping", pid |-> p] \in ClientRecord
         /\ [pc |-> "clearing", pid |-> p] \in ClientRecord
         /\ \A r \in ClientRecord :
                [r EXCEPT !.pc = "waiting"] \in ClientRecord
  BY PidAssumption DEF Idle, ClientRecord

LEMMA ReturnedType ==
  ASSUME TypeOK, NEW c \in Client, Returned(c)
  PROVE  client' \in [Client -> ClientRecord]
<1>1. client[c].pid \in Pid \cup {NoPid}
  BY DEF TypeOK, ClientRecord
<1> QED
  BY <1>1, ClientRecords DEF TypeOK, Returned

LEMMA CallType ==
  ASSUME TypeOK, NEW c \in Client, Call(c)
  PROVE  TypeOK'
<1> USE RunningPid, ClientRecords, PidAssumption DEF TypeOK, files
<1>1. CASE ClientRestarts(c)
  BY <1>1, LeavingType DEF ClientRestarts, BackendRestarts, Mode
<1>2. CASE ClientPromotes(c)
  <2>1. proc' \in [Pid -> ProcRecord]
    BY <1>2, ProcRecords DEF ClientPromotes, Promoted, Doom
  <2> QED
    BY <1>2, <2>1 DEF ClientPromotes, Mode
<1>3. CASE ClientReturns(c)
  BY <1>3 DEF ClientReturns
<1>4. CASE ClientStops(c)
  BY <1>4, LeavingType, AskedType DEF ClientStops, BackendStops
<1>5. CASE ClientForgets(c)
  BY <1>5, ReturnedType DEF ClientForgets
<1>6. CASE EmergencyWarns(c)
  BY <1>6 DEF EmergencyWarns
<1>7. CASE EmergencyMarks(c)
  <2>1. proc' \in [Pid -> ProcRecord]
    BY <1>7, ProcRecords DEF EmergencyMarks, Doom
  <2> QED
    BY <1>7, <2>1 DEF EmergencyMarks
<1>8. CASE EmergencyKills(c)
  BY <1>8, KillType, ReturnedType DEF EmergencyKills
<1>9. CASE EmergencyEnds(c)
  BY <1>9, ReturnedType DEF EmergencyEnds
<1>10. CASE ClientClears(c)
  BY <1>10, LostType DEF ClientClears, ClearFiles
<1> QED
  BY <1>1, <1>2, <1>3, <1>4, <1>5, <1>6, <1>7, <1>8, <1>9, <1>10, Call(c)
  DEF Call

LEMMA NextType == TypeOK /\ [Next]_vars => TypeOK'
<1> SUFFICES ASSUME TypeOK, [Next]_vars PROVE TypeOK'
  OBVIOUS
<1>1. ASSUME NEW s \in Supervisor, Launch(s) PROVE TypeOK'
  <2>1. [Off EXCEPT !.pc = "claim"] \in SupRecord
    BY SupRecords DEF TypeOK, Pc
  <2>2. [Lost EXCEPT ![s] = [Off EXCEPT !.pc = "claim"]]
            \in [Supervisor -> SupRecord]
    BY <2>1, LostType DEF TypeOK
  <2> QED
    BY <1>1, <2>2 DEF TypeOK, Launch
<1>2. ASSUME NEW s \in Supervisor, LauncherDies(s) PROVE TypeOK'
  BY <1>2, LeaveType DEF TypeOK, LauncherDies, files
<1>3. CASE StopScriptClears
  BY <1>3, LostType, PidAssumption DEF TypeOK, StopScriptClears, ClearFiles
<1>4. CASE UNCHANGED vars
  BY <1>4 DEF TypeOK, vars
<1> QED
  BY <1>1, <1>2, <1>3, <1>4, SuperviseType, BackendType, CallType DEF Next

-----------------------------------------------------------------------------
(* One launcher, one process.                                              *)

LEMMA InitAlone == Init => Alone
  BY DEF Init, Alone, MutexHeld, Lonely, Position, Holding, Off, Gone, Live

\* Nobody moves and no process is born.
LEMMA QuietAlone ==
  ASSUME Alone, mutex' = mutex,
         \A s \in Supervisor : sup'[s].pc = sup[s].pc /\ sup'[s].pid = sup[s].pid,
         \A p \in Pid : Live(p)' => Live(p)
  PROVE  Alone'
  BY DEF Alone, MutexHeld, Lonely, Position, Holding

\* A launcher starts or leaves.
LEMMA LeavingAlone ==
  ASSUME Alone, NEW s \in Supervisor,
         sup'[s].pc \in {"off", "claim"}, sup'[s].pid = NoPid,
         mutex' = mutex \/ mutex' = mutex \ {s},
         \A t \in Supervisor \ {s} :
             sup'[t].pc = sup[t].pc /\ sup'[t].pid = sup[t].pid,
         \A p \in Pid : Live(p)' => Live(p)
  PROVE  Alone'
<1>1. MutexHeld'
  BY DEF Alone, MutexHeld
<1>2. Lonely'
  BY DEF Alone, Lonely
<1>3. Position(s)'
  BY DEF Position, Holding
<1>4. ASSUME NEW t \in Supervisor \ {s} PROVE Position(t)'
  BY <1>4 DEF Alone, Position, Holding
<1> QED
  BY <1>1, <1>2, <1>3, <1>4 DEF Alone

\* A launcher that holds the mutex goes on: the others are before it.
LEMMA MovingAlone ==
  ASSUME Alone, NEW s \in Supervisor, sup[s].pc \notin {"off", "claim"},
         mutex' = mutex, Lonely', Position(s)',
         \A t \in Supervisor \ {s} :
             sup'[t].pc = sup[t].pc /\ sup'[t].pid = sup[t].pid
  PROVE  Alone'
<1>1. mutex = {s}
  BY DEF Alone, MutexHeld
<1>2. \A t \in Supervisor \ {s} : sup[t].pc \in {"off", "claim"}
  BY <1>1 DEF Alone, MutexHeld
<1>3. MutexHeld'
  BY <1>1, <1>2 DEF MutexHeld
<1>4. ASSUME NEW t \in Supervisor \ {s} PROVE Position(t)'
  BY <1>2, <1>4 DEF Alone, Position, Holding
<1> QED
  BY <1>3, <1>4 DEF Alone

\* The updates that several actions share.
LEMMA KillShrinks ==
  ASSUME proc \in [Pid -> ProcRecord], NEW q, Kill(q)
  PROVE  \A p \in Pid : Live(p)' => Live(p) /\ p # q
  BY DEF Kill, Live, Gone

LEMMA LeavingShrinks ==
  ASSUME proc \in [Pid -> ProcRecord], NEW q, CanLeave(q), q \in Pid,
         proc' = [proc EXCEPT ![q].phase = "leaving"]
  PROVE  \A p \in Pid : Live(p)' => Live(p)
  BY DEF CanLeave, Live, ProcRecord

LEMMA LostKeeps ==
  ASSUME sup \in [Supervisor -> SupRecord], NEW s \in Supervisor
  PROVE  Lost[s].pc = sup[s].pc /\ Lost[s].pid = sup[s].pid
  BY DEF Lost, SupRecord

LEMMA AskedKeeps ==
  ASSUME sup \in [Supervisor -> SupRecord], NEW s \in Supervisor, NEW p
  PROVE  Asked(p)[s].pc = sup[s].pc /\ Asked(p)[s].pid = sup[s].pid
  BY DEF Asked, SupRecord

LEMMA FatalAlone ==
  ASSUME TypeOK, Alone, NEW s \in Supervisor, Fatal(s)
  PROVE  Alone'
<1>1. /\ sup'[s] = Off
      /\ \A t \in Supervisor \ {s} : sup'[t] = Lost[t]
  BY DEF Fatal, TypeOK, Lost
<1>2. \A p \in Pid : Live(p)' => Live(p)
  BY DEF Fatal, Live
<1> QED
  BY <1>1, <1>2, LostKeeps, LeavingAlone DEF Fatal, TypeOK, Off

LEMMA LeaveAlone ==
  ASSUME TypeOK, Alone, NEW s \in Supervisor, Leave(s), UNCHANGED proc
  PROVE  Alone'
<1>1. /\ sup'[s] = Off
      /\ \A t \in Supervisor \ {s} : sup'[t] = sup[t]
  BY DEF Leave, TypeOK
<1>2. \A p \in Pid : Live(p)' => Live(p)
  BY DEF Live
<1> QED
  BY <1>1, <1>2, LeavingAlone DEF Leave, Off

\* One launcher changes its record, the others do not.
Others(s) == \A t \in Supervisor \ {s} : sup'[t] = sup[t]

LEMMA GoMoves ==
  ASSUME sup \in [Supervisor -> SupRecord], NEW s \in Supervisor, NEW pc,
         Go(s, pc)
  PROVE  /\ Others(s)
         /\ sup'[s] = [sup[s] EXCEPT !.pc = pc]
         /\ sup'[s].pc = pc
         /\ sup'[s].pid = sup[s].pid
  BY DEF Others, Go, SupRecord

LEMMA FailEarlyMoves ==
  ASSUME sup \in [Supervisor -> SupRecord], NEW s \in Supervisor, NEW fault,
         FailEarly(s, fault)
  PROVE  /\ Others(s)
         /\ sup'[s] = [sup[s] EXCEPT !.pc = "decide", !.result = fault,
                                    !.pid = NoPid]
         /\ sup'[s].pc = "decide"
         /\ sup'[s].pid = NoPid
  BY DEF Others, FailEarly, SupRecord

LEMMA AgainMoves ==
  ASSUME sup \in [Supervisor -> SupRecord], NEW s \in Supervisor,
         NEW r \in SupRecord, Again(s, r)
  PROVE  /\ Others(s)
         /\ sup'[s] = [r EXCEPT !.pc = "prepare", !.result = "none"]
         /\ sup'[s].pc = "prepare"
         /\ sup'[s].pid = r.pid
  BY DEF Others, Again, SupRecord

LEMMA BootMoves ==
  ASSUME TypeOK, NEW s \in Supervisor, Boot(s)
  PROVE  \E p \in Pid :
           /\ Others(s)
           /\ sup'[s] = [sup[s] EXCEPT !.pid = p, !.pc = "register",
                            !.asked = StillAsked(s), !.boots = Counted(s)]
           /\ sup'[s].pc = "register"
           /\ sup'[s].pid = p
           /\ \A q \in Pid \ {p} : proc'[q] = proc[q]
<1>1. PICK p \in Pid :
        /\ \A q \in Pid \ {p} : proc'[q] = proc[q]
        /\ sup' = [sup EXCEPT ![s] = [sup[s] EXCEPT
               !.pid = p, !.pc = "register",
               !.asked = StillAsked(s), !.boots = Counted(s)]]
  BY DEF Boot, Unused, TypeOK
<1>2. /\ Others(s)
      /\ sup'[s] = [sup[s] EXCEPT !.pid = p, !.pc = "register",
                       !.asked = StillAsked(s), !.boots = Counted(s)]
  BY <1>1 DEF TypeOK, Others
<1>3. sup'[s].pc = "register" /\ sup'[s].pid = p
  BY <1>2 DEF TypeOK, SupRecord
<1> QED
  BY <1>1, <1>2, <1>3

LEMMA JudgeMoves ==
  ASSUME sup \in [Supervisor -> SupRecord], NEW s \in Supervisor, Judge(s)
  PROVE  \E r \in {"controlled", "unexpected", "lasting"} :
           /\ Others(s)
           /\ sup'[s] = [sup[s] EXCEPT !.pc = "decide", !.result = r,
                                      !.pid = NoPid]
           /\ sup'[s].pc = "decide"
           /\ sup'[s].pid = NoPid
<1>1. PICK r \in {"controlled", "unexpected", "lasting"} :
        sup' = [sup EXCEPT ![s] = [sup[s] EXCEPT !.pc = "decide", !.result = r,
                                               !.pid = NoPid]]
  BY DEF Judge
<1>2. /\ Others(s)
      /\ sup'[s] = [sup[s] EXCEPT !.pc = "decide", !.result = r, !.pid = NoPid]
  BY <1>1 DEF Others
<1>3. sup'[s].pc = "decide" /\ sup'[s].pid = NoPid
  BY <1>2 DEF SupRecord
<1> QED
  BY <1>2, <1>3

LEMMA InspectDoneMoves ==
  ASSUME sup \in [Supervisor -> SupRecord], NEW s \in Supervisor,
         InspectDone(s)
  PROVE  \E m \in Mode :
           /\ Others(s)
           /\ sup'[s] = [sup[s] EXCEPT !.mode = m, !.pc = "prepare"]
           /\ sup'[s].pc = "prepare"
           /\ sup'[s].pid = sup[s].pid
  BY DEF Others, InspectDone, SupRecord, Mode

\* A decision that starts again keeps the process id it does not have.
LEMMA DecideMoves ==
  ASSUME TypeOK, NEW s \in Supervisor,
         \/ DecideRestart(s) \/ DecideRecover(s) \/ DecideReinstall(s)
         \/ (DecideRotate(s) /\ ~Fatal(s)) \/ (DecideSetup(s) /\ ~Fatal(s))
  PROVE  /\ Others(s)
         /\ sup'[s].pc = "prepare"
         /\ sup'[s].pid = sup[s].pid
<1> DEFINE Keeps(r) == Again(s, r) /\ r.pid = sup[s].pid
<1>a. ASSUME NEW r, Keeps(r) PROVE /\ Others(s)
                                   /\ sup'[s].pc = "prepare"
                                   /\ sup'[s].pid = sup[s].pid
  <2>1. /\ Others(s)
        /\ sup'[s] = [r EXCEPT !.pc = "prepare", !.result = "none"]
    BY <1>a DEF TypeOK, Others, Again
  <2> QED
    BY <1>a, <2>1
<1>1. CASE DecideRestart(s)
  BY <1>1, <1>a DEF DecideRestart, TypeOK, SupRecord
<1>2. CASE DecideRecover(s)
  BY <1>2, <1>a DEF DecideRecover, TypeOK, SupRecord
<1>3. CASE DecideReinstall(s)
  BY <1>3, <1>a DEF DecideReinstall, Reinstalled, TypeOK, SupRecord
<1>4. CASE DecideRotate(s) /\ ~Fatal(s)
  BY <1>4, <1>a DEF DecideRotate, TypeOK, SupRecord
<1>5. CASE DecideSetup(s) /\ ~Fatal(s)
  BY <1>5, <1>a DEF DecideSetup, OpenSetup, Reinstalled, TypeOK, SupRecord
<1> QED
  BY <1>1, <1>2, <1>3, <1>4, <1>5

LEMMA SuperviseAlone ==
  ASSUME TypeOK, Alone, NEW s \in Supervisor, Supervise(s)
  PROVE  Alone'
<1> DEFINE Shrinks == \A p \in Pid : Live(p)' => Live(p)
<1>a. UNCHANGED proc => Shrinks
  BY DEF Live
<1>b. Shrinks => Lonely'
  BY DEF Alone, Lonely
<1>c. Position(s)
  BY DEF Alone
<1>1. CASE Claim(s)
  <2>1. Others(s) /\ sup'[s].pc = "inspect" /\ sup'[s].pid = sup[s].pid
    BY <1>1, GoMoves DEF Claim, TypeOK
  <2>2. Position(s)'
    BY <1>c, <1>1, <2>1 DEF Position, Holding, Claim, At
  <2>3. \A t \in Supervisor \ {s} : sup[t].pc \in {"off", "claim"}
    BY <1>1 DEF Claim, Alone, MutexHeld
  <2>4. MutexHeld'
    BY <1>1, <2>1, <2>3 DEF MutexHeld, Claim, Others
  <2>5. ASSUME NEW t \in Supervisor \ {s} PROVE Position(t)'
    BY <2>1, <2>3, <2>5 DEF Alone, Position, Holding, Others
  <2> QED
    BY <1>1, <1>a, <1>b, <2>2, <2>4, <2>5 DEF Claim, Alone
<1>2. CASE Fatal(s)
  BY <1>2, FatalAlone
<1>3. CASE RepairDone(s) \/ DecideStop(s) \/ DecideExit(s)
  BY <1>3, LeaveAlone DEF RepairDone, DecideStop, DecideExit
<1>4. CASE InspectMigrates(s)
  <2>1. Others(s) /\ sup'[s].pc = "migrate" /\ sup'[s].pid = sup[s].pid
    BY <1>4, GoMoves DEF InspectMigrates, TypeOK
  <2>2. Shrinks
    BY <1>4, RunningPid, LeavingShrinks
    DEF InspectMigrates, BackendStops, TypeOK
  <2>3. Position(s)'
    BY <1>c, <1>4, <2>1 DEF Position, Holding, InspectMigrates, At
  <2> QED
    BY <1>4, <1>b, <2>1, <2>2, <2>3, MovingAlone DEF InspectMigrates, At, Others
<1>5. CASE MigrateDone(s)
  <2>1. Others(s) /\ sup'[s].pc = "inspect" /\ sup'[s].pid = sup[s].pid
    BY <1>5, GoMoves DEF MigrateDone, TypeOK
  <2>2. Position(s)'
    BY <1>c, <1>5, <2>1 DEF Position, Holding, MigrateDone, At
  <2> QED
    BY <1>5, <1>a, <1>b, <2>1, <2>2, MovingAlone DEF MigrateDone, At, Others
<1>6. CASE InspectDone(s)
  <2>1. Others(s) /\ sup'[s].pc = "prepare" /\ sup'[s].pid = sup[s].pid
    BY <1>6, InspectDoneMoves DEF TypeOK
  <2>2. Position(s)'
    BY <1>c, <1>6, <2>1
    DEF Position, Holding, InspectDone, At, NoOrphan, Alive, Live
  <2>3. UNCHANGED <<proc, mutex>>
    BY <1>6 DEF InspectDone
  <2> QED
    BY <1>6, <1>a, <1>b, <2>1, <2>2, <2>3, MovingAlone DEF InspectDone, At, Others
<1>7. CASE Prepare(s)
  <2>1. Others(s) /\ sup'[s].pc = "boot" /\ sup'[s].pid = sup[s].pid
    BY <1>7, GoMoves DEF Prepare, TypeOK
  <2>2. Shrinks
    BY <1>7 DEF Prepare, FreePort, Live, Gone
  <2>3. Position(s)'
    BY <1>c, <1>7, <2>1, <2>2 DEF Position, Holding, Prepare, At
  <2> QED
    BY <1>7, <1>b, <2>1, <2>2, <2>3, MovingAlone DEF Prepare, At, Others
<1>8. CASE PrepareFails(s) \/ (BootFails(s) /\ ~Fatal(s))
  <2>1. PICK fault \in Fault : FailEarly(s, fault)
    BY <1>8 DEF PrepareFails, BootFails, Fault
  <2>2. Others(s) /\ sup'[s].pc = "decide" /\ sup'[s].pid = NoPid
    BY <2>1, FailEarlyMoves DEF TypeOK
  <2>3. UNCHANGED <<proc, mutex>> /\ sup[s].pc \in {"prepare", "boot"}
    BY <1>8 DEF PrepareFails, BootFails, At
  <2>4. Position(s)'
    BY <1>c, <2>2, <2>3 DEF Position, Holding, Live
  <2> QED
    BY <1>a, <1>b, <2>2, <2>3, <2>4, MovingAlone DEF Others
<1>9. CASE Boot(s)
  <2>1. PICK p \in Pid :
          /\ Others(s)
          /\ sup'[s].pc = "register"
          /\ sup'[s].pid = p
          /\ \A q \in Pid \ {p} : proc'[q] = proc[q]
    BY <1>9, BootMoves
  <2>2. \A q \in Pid : Live(q)' => q = p
    BY <1>9, <1>c, <2>1 DEF Boot, At, Position, Live
  <2>3. Lonely'
    BY <2>2 DEF Lonely
  <2>4. Position(s)'
    BY <2>1, <2>2 DEF Position, Holding
  <2> QED
    BY <1>9, <2>1, <2>3, <2>4, MovingAlone DEF Boot, At, Others
<1>10. CASE \/ Register(s) \/ ProbeFails(s) \/ ProbeReady(s)
            \/ WatchEnds(s) \/ WatchPromotes(s)
  <2>1. PICK pc \in Holding : Go(s, pc)
    BY <1>10
    DEF Register, ProbeFails, ProbeReady, WatchEnds, WatchPromotes, Holding
  <2>2. Others(s) /\ sup'[s].pc = pc /\ sup'[s].pid = sup[s].pid
    BY <2>1, GoMoves DEF TypeOK
  <2>3. UNCHANGED <<proc, mutex>> /\ sup[s].pc \in Holding
    BY <1>10
    DEF Register, ProbeFails, ProbeReady, WatchEnds, WatchPromotes, At, Holding,
        files
  <2>4. Position(s)'
    BY <1>c, <2>2, <2>3 DEF Position, Holding, Live
  <2> QED
    BY <1>a, <1>b, <2>2, <2>3, <2>4, MovingAlone DEF Others, Holding
<1>11. CASE Abandon(s)
  <2>1. PICK fault \in Fault : FailEarly(s, fault)
    BY <1>11 DEF Abandon
  <2>2. Others(s) /\ sup'[s].pc = "decide" /\ sup'[s].pid = NoPid
    BY <2>1, FailEarlyMoves DEF TypeOK
  <2>3. \A p \in Pid : Live(p)' => Live(p) /\ p # sup[s].pid
    BY <1>11, KillShrinks DEF Abandon, TypeOK
  <2>4. Position(s)'
    BY <1>c, <1>11, <2>2, <2>3 DEF Position, Holding, Abandon, At
  <2> QED
    BY <1>11, <1>b, <2>2, <2>3, <2>4, MovingAlone DEF Abandon, At, Others
<1>12. CASE Finish(s)
  <2>1. Others(s) /\ sup'[s].pc = "judge" /\ sup'[s].pid = sup[s].pid
    BY <1>12, GoMoves DEF Finish, TypeOK
  <2>2. \A p \in Pid : Live(p)' => Live(p) /\ p # sup[s].pid
    BY <1>12, KillShrinks DEF Finish, TypeOK
  <2>3. Position(s)'
    BY <1>c, <1>12, <2>1, <2>2 DEF Position, Holding, Finish, At
  <2> QED
    BY <1>12, <1>b, <2>1, <2>2, <2>3, MovingAlone DEF Finish, At, Others
<1>13. CASE Judge(s)
  <2>1. Others(s) /\ sup'[s].pc = "decide" /\ sup'[s].pid = NoPid
    BY <1>13, JudgeMoves DEF TypeOK
  <2>2. Position(s)'
    BY <1>c, <1>13, <2>1 DEF Position, Holding, Judge, At, Live
  <2> QED
    BY <1>13, <1>a, <1>b, <2>1, <2>2, MovingAlone DEF Judge, At, Others
<1>14. CASE \/ DecideRestart(s) \/ DecideRecover(s) \/ DecideReinstall(s)
            \/ (DecideRotate(s) /\ ~Fatal(s))
            \/ (DecideSetup(s) /\ ~Fatal(s))
  <2>1. Others(s) /\ sup'[s].pc = "prepare" /\ sup'[s].pid = sup[s].pid
    BY <1>14, DecideMoves
  <2>2. UNCHANGED <<proc, mutex>> /\ sup[s].pc = "decide"
    BY <1>14 DEF DecideRestart, DecideRecover, DecideReinstall, DecideRotate,
                 DecideSetup, OpenSetup, NoFileTouched, Unmarked, At
  <2>3. Position(s)'
    BY <1>c, <2>1, <2>2 DEF Position, Holding, Live
  <2> QED
    BY <1>a, <1>b, <2>1, <2>2, <2>3, MovingAlone DEF Others
<1> QED
  BY <1>1, <1>2, <1>3, <1>4, <1>5, <1>6, <1>7, <1>8, <1>9, <1>10, <1>11,
     <1>12, <1>13, <1>14, Supervise(s)
  DEF Supervise, ClaimRefused, InspectRefuses, InspectFails, MigrateTimesOut

LEMMA NextAlone == TypeOK /\ Alone /\ [Next]_vars => Alone'
<1> SUFFICES ASSUME TypeOK, Alone, [Next]_vars PROVE Alone'
  OBVIOUS
<1>1. ASSUME NEW s \in Supervisor, Launch(s) PROVE Alone'
  <2>1. /\ sup'[s] = [Off EXCEPT !.pc = "claim"]
        /\ \A t \in Supervisor \ {s} : sup'[t] = Lost[t]
    BY <1>1 DEF Launch, TypeOK, Lost
  <2>2. sup'[s].pc = "claim" /\ sup'[s].pid = NoPid
    BY <2>1 DEF Off
  <2>3. \A p \in Pid : Live(p)' => Live(p)
    BY <1>1 DEF Launch, Live
  <2> QED
    BY <1>1, <2>1, <2>2, <2>3, LostKeeps, LeavingAlone DEF Launch, TypeOK
<1>2. ASSUME NEW s \in Supervisor, LauncherDies(s) PROVE Alone'
  BY <1>2, LeaveAlone DEF LauncherDies
<1>3. ASSUME NEW p \in Pid, Backend(p) PROVE Alone'
  <2>1. \A q \in Pid : Live(q)' => Live(q)
    <3>1. CASE Crash(p) \/ ShutDown(p)
      BY <3>1, KillShrinks DEF TypeOK, Crash, ShutDown
    <3>2. CASE AcceptStop(p) \/ AcceptRestart(p) \/ SaveAndRestart(p)
      BY <3>2, LeavingShrinks
      DEF TypeOK, AcceptStop, BackendStops, AcceptRestart, BackendRestarts,
          SaveAndRestart
    <3>3. CASE Serve(p)
      BY <3>3 DEF TypeOK, ProcRecord, Serve, Live
    <3>4. CASE BeginWork(p) \/ EndWork(p) \/ SaveConfig(p)
      BY <3>4 DEF TypeOK, ProcRecord, BeginWork, EndWork, SaveConfig, Live
    <3> QED
      BY <1>3, <3>1, <3>2, <3>3, <3>4 DEF Backend
  <2>2. UNCHANGED sup \/ sup' = Asked(p)
    BY <1>3
    DEF Backend, Serve, Crash, BeginWork, EndWork, AcceptStop, AcceptRestart,
        SaveConfig, SaveAndRestart, ShutDown
  <2>3. UNCHANGED mutex
    BY <1>3
    DEF Backend, Serve, Crash, BeginWork, EndWork, AcceptStop, AcceptRestart,
        SaveConfig, SaveAndRestart, ShutDown
  <2> QED
    BY <2>1, <2>2, <2>3, AskedKeeps, QuietAlone DEF TypeOK
<1>4. ASSUME NEW c \in Client, Call(c) PROVE Alone'
  <2>1. \A q \in Pid : Live(q)' => Live(q)
    <3>1. CASE EmergencyMarks(c) \/ ClientPromotes(c)
      BY <3>1 DEF TypeOK, EmergencyMarks, ClientPromotes, Promoted, ProcRecord,
                  Live
    <3>2. CASE ClientRestarts(c) \/ ClientStops(c)
      BY <3>2, LeavingShrinks, RunningPid
      DEF TypeOK, ClientRestarts, BackendRestarts, ClientStops, BackendStops
    <3>3. CASE EmergencyKills(c)
      BY <3>3, KillShrinks DEF TypeOK, EmergencyKills
    <3> QED
      BY <1>4, <3>1, <3>2, <3>3
      DEF Call, ClientReturns, ClientForgets, ClientClears, EmergencyWarns,
          EmergencyEnds, Live
  <2>2. UNCHANGED sup \/ sup' = Asked(registered) \/ sup' = Lost
    BY <1>4
    DEF Call, ClientRestarts, ClientPromotes, ClientReturns, ClientStops,
        ClientForgets, ClientClears, EmergencyWarns, EmergencyMarks,
        EmergencyKills, EmergencyEnds
  <2>3. UNCHANGED mutex
    BY <1>4
    DEF Call, ClientRestarts, ClientPromotes, ClientReturns, ClientStops,
        ClientForgets, ClientClears, EmergencyWarns, EmergencyMarks,
        EmergencyKills, EmergencyEnds
  <2> QED
    BY <2>1, <2>2, <2>3, AskedKeeps, LostKeeps, QuietAlone DEF TypeOK
<1>5. CASE StopScriptClears
  BY <1>5, LostKeeps, QuietAlone DEF StopScriptClears, TypeOK, Live
<1>6. CASE UNCHANGED vars
  BY <1>6, QuietAlone DEF vars, Live
<1> QED
  BY <1>1, <1>2, <1>3, <1>4, <1>5, <1>6, SuperviseAlone DEF Next

LEMMA OneAlive == TypeOK /\ Alone => OneRuntime
<1> SUFFICES ASSUME TypeOK, Alone PROVE Cardinality(Alive) <= 1
  BY DEF OneRuntime
<1>1. CASE Alive = {}
  BY <1>1, FS_EmptySet
<1>2. CASE Alive # {}
  <2>1. PICK p \in Pid : Live(p)
    BY <1>2 DEF Alive
  <2>2. Alive = {p}
    BY <2>1 DEF Alive, Alone, Lonely
  <2> QED
    BY <2>2, FS_Singleton
<1> QED
  BY <1>1, <1>2

-----------------------------------------------------------------------------
(* A confirmed stop.                                                       *)

Mindful == Holding \cup {"judge", "decide"}

\* A launcher never becomes one whose stop was confirmed by its own steps.
LEMMA AskedKept ==
  ASSUME TypeOK, NEW s \in Supervisor, Supervise(s), ~Fatal(s)
  PROVE  sup'[s].asked = "stop" => sup[s].asked = "stop"
<1>0. sup[s] \in SupRecord
  BY DEF TypeOK
<1>1. ASSUME NEW pc, Go(s, pc) PROVE sup'[s].asked = sup[s].asked
  <2>1. sup'[s] = [sup[s] EXCEPT !.pc = pc]
    BY <1>1, GoMoves DEF TypeOK
  <2> QED
    BY <1>0, <2>1 DEF SupRecord
<1>2. ASSUME NEW fault, FailEarly(s, fault) PROVE sup'[s].asked = sup[s].asked
  <2>1. sup'[s] = [sup[s] EXCEPT !.pc = "decide", !.result = fault,
                               !.pid = NoPid]
    BY <1>2, FailEarlyMoves DEF TypeOK
  <2> QED
    BY <1>0, <2>1 DEF SupRecord
<1>3. ASSUME NEW r, Again(s, r), r.asked = sup[s].asked
      PROVE  sup'[s].asked = sup[s].asked
  <2>1. sup'[s] = [r EXCEPT !.pc = "prepare", !.result = "none"]
    BY <1>3 DEF Again, TypeOK
  <2> QED
    BY <1>3, <2>1
<1>4. ASSUME Leave(s) PROVE sup'[s].asked = "no"
  BY <1>4 DEF Leave, Off, TypeOK
<1>5. CASE InspectDone(s)
  <2>1. PICK m \in Mode :
          sup'[s] = [sup[s] EXCEPT !.mode = m, !.pc = "prepare"]
    BY <1>5, InspectDoneMoves DEF TypeOK
  <2> QED
    BY <1>0, <2>1 DEF SupRecord
<1>6. CASE Boot(s)
  <2>1. PICK p \in Pid :
          sup'[s] = [sup[s] EXCEPT !.pid = p, !.pc = "register",
                       !.asked = StillAsked(s), !.boots = Counted(s)]
    BY <1>6, BootMoves
  <2>2. sup'[s].asked = StillAsked(s)
    BY <1>0, <2>1 DEF SupRecord
  <2> QED
    BY <2>2 DEF StillAsked
<1>7. CASE Judge(s)
  <2>1. PICK r \in {"controlled", "unexpected", "lasting"} :
          sup'[s] = [sup[s] EXCEPT !.pc = "decide", !.result = r, !.pid = NoPid]
    BY <1>7, JudgeMoves DEF TypeOK
  <2> QED
    BY <1>0, <2>1 DEF SupRecord
<1>8. CASE DecideRestart(s)
  BY <1>0, <1>8, <1>3 DEF DecideRestart, SupRecord
<1>9. CASE DecideRecover(s)
  BY <1>0, <1>9, <1>3 DEF DecideRecover, SupRecord
<1>10. CASE DecideReinstall(s) \/ (DecideSetup(s) /\ ~Fatal(s))
  BY <1>0, <1>10, <1>3
  DEF DecideReinstall, DecideSetup, OpenSetup, Reinstalled, SupRecord
<1>11. CASE DecideRotate(s)
  BY <1>0, <1>11, <1>3 DEF DecideRotate, SupRecord
<1> QED
  BY <1>1, <1>2, <1>4, <1>5, <1>6, <1>7, <1>8, <1>9, <1>10, <1>11, Supervise(s),
     ~Fatal(s)
  DEF Supervise, Claim, ClaimRefused, InspectRefuses, InspectMigrates,
      InspectFails, RepairDone, MigrateDone, MigrateTimesOut, Prepare,
      PrepareFails, BootFails, Register, ProbeFails, Abandon, ProbeReady,
      WatchEnds,
      WatchPromotes, Finish, DecideStop, DecideExit

LEMMA LostForgets ==
  ASSUME sup \in [Supervisor -> SupRecord], NEW s \in Supervisor
  PROVE  Lost[s].asked # "stop"
  BY DEF Lost, SupRecord

LEMMA SuperviseStop ==
  ASSUME TypeOK, Alone, StopKept, NEW s \in Supervisor, Supervise(s)
  PROVE  StopKept'
<1>1. CASE Fatal(s)
  <2>1. \A t \in Supervisor : sup'[t].asked # "stop"
    BY <1>1, LostForgets DEF Fatal, Off, TypeOK, Lost
  <2> QED
    BY <2>1 DEF StopKept
<1>2. CASE ~Fatal(s)
  <2>1. sup'[s].asked = "stop" => /\ sup[s].asked = "stop"
                                 /\ sup[s].pc \in Mindful
                                 /\ stop # "none"
    BY <1>2, AskedKept DEF StopKept, Mindful
  <2>2. ASSUME sup'[s].asked = "stop"
        PROVE  stop' # "none" /\ sup'[s].pc \in Mindful
    <3>1. CASE \/ Register(s) \/ ProbeFails(s) \/ ProbeReady(s)
               \/ WatchEnds(s) \/ WatchPromotes(s) \/ Finish(s)
      BY <2>1, <2>2, <3>1, GoMoves
      DEF Register, ProbeFails, ProbeReady, WatchEnds, WatchPromotes, Finish,
          TypeOK, Mindful, Holding, files
    <3>2. CASE Abandon(s)
      BY <2>1, <2>2, <3>2, FailEarlyMoves DEF Abandon, TypeOK, Mindful
    <3>3. CASE Judge(s)
      <4>1. sup'[s].pc = "decide"
        BY <3>3, JudgeMoves DEF TypeOK
      <4> QED
        BY <2>1, <2>2, <3>3, <4>1 DEF Judge, Mindful, files
    <3>4. CASE Leave(s)
      BY <2>2, <3>4 DEF Leave, Off, TypeOK
    <3> QED
      BY <1>2, <2>1, <2>2, <3>1, <3>2, <3>3, <3>4, Supervise(s)
      DEF Supervise, Claim, ClaimRefused, InspectRefuses, InspectMigrates,
          InspectFails, InspectDone, RepairDone, MigrateDone, MigrateTimesOut,
          Prepare, PrepareFails, Boot, BootFails, DecideStop, DecideRestart,
          DecideRecover, DecideReinstall, DecideRotate, DecideSetup,
          OpenSetup, DecideExit, Unmarked, Marked, Stops, At, Mindful,
          Holding
  <2>3. Others(s)
    BY <1>2, Supervise(s)
    DEF Supervise, Others, Claim, ClaimRefused, InspectRefuses, InspectMigrates,
        InspectFails, InspectDone, RepairDone, MigrateDone, MigrateTimesOut,
        Prepare, PrepareFails, Boot, BootFails, Register, ProbeFails, Abandon,
        ProbeReady, WatchEnds, WatchPromotes, Finish, Judge, DecideStop,
        DecideRestart, DecideRecover, DecideReinstall, DecideRotate,
        DecideSetup, OpenSetup, DecideExit, Go, FailEarly, Again, Leave,
        TypeOK
  <2>4. ASSUME NEW t \in Supervisor \ {s}, sup[t].asked = "stop"
        PROVE  stop' # "none"
    <3>1. mutex = {t}
      BY <2>4 DEF StopKept, Alone, MutexHeld, Holding
    <3>2. sup[s].pc \in {"off", "claim"}
      BY <2>4, <3>1 DEF Alone, MutexHeld
    <3>3. stop' = stop
      BY <1>2, <3>1, <3>2, Supervise(s)
      DEF Supervise, Claim, ClaimRefused, InspectRefuses, InspectMigrates,
          InspectFails, InspectDone, RepairDone, MigrateDone, MigrateTimesOut,
          Prepare, PrepareFails, Boot, BootFails, Register, ProbeFails, Abandon,
          ProbeReady, WatchEnds, WatchPromotes, Finish, Judge, DecideStop,
          DecideRestart, DecideRecover, DecideReinstall, DecideRotate,
          DecideSetup, OpenSetup, DecideExit, Unmarked, At, files
    <3> QED
      BY <2>4, <3>3 DEF StopKept
  <2>5. ASSUME NEW t \in Supervisor, sup'[t].asked = "stop"
        PROVE  stop' # "none" /\ sup'[t].pc \in Mindful
    BY <2>2, <2>3, <2>4, <2>5 DEF Others, StopKept, Mindful
  <2> QED
    BY <2>5 DEF StopKept, Mindful
<1> QED
  BY <1>1, <1>2

\* Requests and marks of others: only the backend confirms a stop, and it
\* writes the marker as it does.
LEMMA ConfirmedStop ==
  ASSUME TypeOK, Alone, StopKept, NEW p \in Pid, BackendStops(p),
         sup' = Asked(p)
  PROVE  StopKept'
<1>1. ASSUME NEW t \in Supervisor, sup'[t].asked = "stop"
      PROVE  sup[t].pc \in Mindful
  <2>1. CASE sup[t].pid = p
    BY <2>1, PidAssumption DEF Alone, Position, Mindful
  <2>2. CASE sup[t].pid # p
    BY <1>1, <2>2 DEF Asked, Supervised, StopKept, Mindful
  <2> QED
    BY <2>1, <2>2
<1>2. \A t \in Supervisor : sup'[t].pc = sup[t].pc
  BY AskedKeeps DEF TypeOK
<1> QED
  BY <1>1, <1>2 DEF StopKept, BackendStops, Mindful

LEMMA NextStop ==
  TypeOK /\ Alone /\ StopKept /\ [Next]_vars => StopKept'
<1> SUFFICES ASSUME TypeOK, Alone, StopKept, [Next]_vars PROVE StopKept'
  OBVIOUS
<1>1. ASSUME NEW s \in Supervisor, Launch(s) PROVE StopKept'
  <2>1. \A t \in Supervisor : sup'[t].asked # "stop"
    BY <1>1, LostForgets DEF Launch, Off, TypeOK, Lost
  <2> QED
    BY <2>1 DEF StopKept
<1>2. ASSUME NEW s \in Supervisor, LauncherDies(s) PROVE StopKept'
  <2>1. /\ sup'[s] = Off
        /\ \A t \in Supervisor \ {s} : sup'[t] = sup[t]
    BY <1>2 DEF LauncherDies, Leave, TypeOK
  <2> QED
    BY <1>2, <2>1 DEF StopKept, LauncherDies, Off, files
<1>3. ASSUME NEW p \in Pid, Backend(p) PROVE StopKept'
  <2>1. CASE AcceptStop(p)
    BY <1>3, <2>1, ConfirmedStop DEF AcceptStop
  <2>2. CASE ~AcceptStop(p)
    BY <1>3, <2>2
    DEF Backend, Serve, Crash, BeginWork, EndWork, AcceptRestart, SaveConfig,
        SaveAndRestart, ShutDown, StopKept, files
  <2> QED
    BY <2>1, <2>2
<1>4. ASSUME NEW c \in Client, Call(c) PROVE StopKept'
  <2>1. CASE ClientStops(c)
    BY <2>1, RunningPid, ConfirmedStop DEF ClientStops
  <2>2. CASE ClientClears(c)
    BY <2>2, LostForgets DEF ClientClears, StopKept, TypeOK
  <2>3. CASE ~ClientStops(c) /\ ~ClientClears(c)
    BY <1>4, <2>3
    DEF Call, ClientRestarts, BackendRestarts, ClientPromotes, ClientReturns,
        ClientForgets, EmergencyWarns, EmergencyMarks, EmergencyKills,
        EmergencyEnds, StopKept, files
  <2> QED
    BY <2>1, <2>2, <2>3
<1>5. CASE StopScriptClears
  BY <1>5, LostForgets DEF StopScriptClears, StopKept, TypeOK
<1>6. CASE UNCHANGED vars
  BY <1>6 DEF vars, StopKept
<1> QED
  BY <1>1, <1>2, <1>3, <1>4, <1>5, <1>6, SuperviseStop DEF Next

-----------------------------------------------------------------------------
(* Bounded retries.                                                        *)

LEMMA PaidNat ==
  ASSUME NEW r \in SupRecord
  PROVE  Paid(r) \in 0..(MaxAttempts + 2) /\ r.boots \in Nat
<1>1. r.attempts \in 0..MaxAttempts /\ r.boots \in 0..BootCap
  BY DEF SupRecord
<1>2. /\ (IF r.reinstalled THEN 1 ELSE 0) \in 0..1
      /\ (IF r.rotated THEN 1 ELSE 0) \in 0..1
  OBVIOUS
<1> QED
  BY <1>1, <1>2, BoundAssumption DEF Paid, BootCap, MaxBoots

\* A step that neither boots nor pays.
LEMMA PaidKept ==
  ASSUME NEW r \in SupRecord, NEW q \in SupRecord, PaidFor(r),
         q.boots = r.boots, q.attempts = r.attempts,
         q.reinstalled = r.reinstalled, q.rotated = r.rotated,
         q.pc \in {"prepare", "boot"} /\ q.mode = "Windows" =>
             r.boots <= Paid(r),
         q.pc \in Early => r.boots = 0
  PROVE  PaidFor(q)
<1>1. Paid(q) = Paid(r)
  BY DEF Paid
<1> QED
  BY <1>1, PaidNat DEF PaidFor

\* A start from nothing.
LEMMA PaidZero ==
  ASSUME NEW r \in SupRecord, r.boots = 0
  PROVE  PaidFor(r)
  BY PaidNat DEF PaidFor

\* Each recovery pays for one start.
LEMMA PaidMore ==
  ASSUME NEW r \in SupRecord, NEW q \in SupRecord, PaidFor(r),
         q.boots = r.boots, Paid(q) >= Paid(r) + 1, q.pc \notin Early
  PROVE  PaidFor(q)
  BY PaidNat DEF PaidFor

\* In Setup mode nothing is counted.
LEMMA PaidSetup ==
  ASSUME NEW r \in SupRecord, NEW q \in SupRecord, PaidFor(r),
         q.boots = r.boots, Paid(q) >= Paid(r), q.pc \notin Early,
         q.mode = "Setup"
  PROVE  PaidFor(q)
  BY PaidNat DEF PaidFor

LEMMA PaidReinstall ==
  ASSUME NEW r \in SupRecord, NEW q \in SupRecord, q.attempts = r.attempts,
         q.rotated = r.rotated, q.reinstalled, ~r.reinstalled
  PROVE  Paid(q) = Paid(r) + 1
<1>1. /\ (IF q.reinstalled THEN 1 ELSE 0) = 1
      /\ (IF r.reinstalled THEN 1 ELSE 0) = 0
  OBVIOUS
<1>2. (IF r.rotated THEN 1 ELSE 0) \in {0, 1}
  OBVIOUS
<1>3. r.attempts \in Nat
  BY BoundAssumption DEF SupRecord
<1> QED
  BY <1>1, <1>2, <1>3 DEF Paid

LEMMA PaidRotate ==
  ASSUME NEW r \in SupRecord, NEW q \in SupRecord, q.attempts = r.attempts,
         q.reinstalled = r.reinstalled, q.rotated, ~r.rotated
  PROVE  Paid(q) = Paid(r) + 1
<1>1. /\ (IF q.rotated THEN 1 ELSE 0) = 1
      /\ (IF r.rotated THEN 1 ELSE 0) = 0
  OBVIOUS
<1>2. (IF r.reinstalled THEN 1 ELSE 0) \in {0, 1}
  OBVIOUS
<1>3. r.attempts \in Nat
  BY BoundAssumption DEF SupRecord
<1> QED
  BY <1>1, <1>2, <1>3 DEF Paid

LEMMA PaidRetry ==
  ASSUME NEW r \in SupRecord, NEW q \in SupRecord,
         q.attempts = r.attempts + 1, q.reinstalled = r.reinstalled,
         q.rotated = r.rotated
  PROVE  Paid(q) = Paid(r) + 1
<1>1. /\ (IF r.reinstalled THEN 1 ELSE 0) \in {0, 1}
      /\ (IF r.rotated THEN 1 ELSE 0) \in {0, 1}
  OBVIOUS
<1>2. r.attempts \in Nat
  BY BoundAssumption DEF SupRecord
<1> QED
  BY <1>1, <1>2 DEF Paid

LEMMA PaidOff == PaidFor(Off) /\ PaidFor([Off EXCEPT !.pc = "claim"])
  BY DEF PaidFor, Paid, Off, Early

\* The record of a supervisor but for its memory of a confirmed stop.
LEMMA PaidForgets ==
  ASSUME sup \in [Supervisor -> SupRecord], NEW s \in Supervisor,
         PaidFor(sup[s])
  PROVE  PaidFor(Lost[s]) /\ \A p : PaidFor(Asked(p)[s])
<1>1. \A a \in {"no", "stop", "lost"} : PaidFor([sup[s] EXCEPT !.asked = a])
  <2> TAKE a \in {"no", "stop", "lost"}
  <2>1. [sup[s] EXCEPT !.asked = a] \in SupRecord
    BY SupFields
  <2> DEFINE r == sup[s]
             q == [r EXCEPT !.asked = a]
  <2>2. /\ q.boots = r.boots /\ q.attempts = r.attempts
        /\ q.reinstalled = r.reinstalled /\ q.rotated = r.rotated
        /\ q.pc = r.pc /\ q.mode = r.mode
    BY DEF SupRecord
  <2> QED
    BY <2>1, <2>2, PaidKept DEF PaidFor
<1>2. Lost[s] \in {[sup[s] EXCEPT !.asked = a] : a \in {"no", "stop", "lost"}}
  <2>1. sup[s].asked \in {"no", "stop", "lost"}
    BY DEF SupRecord
  <2>2. Lost[s] = [sup[s] EXCEPT !.asked = IF sup[s].asked = "stop" THEN "lost"
                                           ELSE sup[s].asked]
    BY DEF Lost
  <2> QED
    BY <2>1, <2>2
<1> QED
  BY <1>1, <1>2 DEF Asked

LEMMA FatalPaid ==
  ASSUME TypeOK, RetriesPaid, NEW s \in Supervisor, Fatal(s)
  PROVE  RetriesPaid'
<1>1. \A t \in Supervisor : sup'[t] \in {Off, Lost[t]}
  BY DEF Fatal, TypeOK, Lost
<1> QED
  BY <1>1, PaidOff, PaidForgets DEF RetriesPaid, TypeOK

LEMMA LeavePaid ==
  ASSUME TypeOK, RetriesPaid, NEW s \in Supervisor, Leave(s)
  PROVE  RetriesPaid'
<1>1. \A t \in Supervisor : sup'[t] \in {Off, sup[t]}
  BY DEF Leave, TypeOK
<1> QED
  BY <1>1, PaidOff DEF RetriesPaid

\* One launcher moves; what is left to show is about its record only.
LEMMA MovePaid ==
  ASSUME RetriesPaid, NEW s \in Supervisor, Others(s), PaidFor(sup'[s])
  PROVE  RetriesPaid'
  BY DEF RetriesPaid, Others

LEMMA GoPaid ==
  ASSUME TypeOK, RetriesPaid, NEW s \in Supervisor, NEW pc \in Pc, Go(s, pc),
         pc \in {"prepare", "boot"} => sup[s].pc \in {"prepare", "boot"},
         pc \in Early => sup[s].pc \in Early
  PROVE  RetriesPaid'
<1> DEFINE r == sup[s]
           q == [r EXCEPT !.pc = pc]
<1>1. r \in SupRecord /\ PaidFor(r)
  BY DEF TypeOK, RetriesPaid
<1>2. q \in SupRecord
  BY <1>1, SupRecords
<1>3. /\ q.boots = r.boots /\ q.attempts = r.attempts
      /\ q.reinstalled = r.reinstalled /\ q.rotated = r.rotated
      /\ q.pc = pc /\ q.mode = r.mode
  BY <1>1 DEF SupRecord
<1>4. PaidFor(q)
  <2> HIDE DEF q
  <2> QED
    BY <1>1, <1>2, <1>3, PaidKept DEF PaidFor
<1>5. Others(s) /\ sup'[s] = q
  BY GoMoves DEF TypeOK
<1> QED
  BY <1>4, <1>5, MovePaid

LEMMA DecidedPaid ==
  ASSUME TypeOK, RetriesPaid, NEW s \in Supervisor, Others(s),
         NEW result \in Fault \cup {"controlled", "unexpected", "lasting"},
         sup'[s] = [sup[s] EXCEPT !.pc = "decide", !.result = result,
                                !.pid = NoPid]
  PROVE  RetriesPaid'
<1> DEFINE r == sup[s]
           q == sup'[s]
<1>1. r \in SupRecord /\ PaidFor(r)
  BY DEF TypeOK, RetriesPaid
<1>2. q \in SupRecord
  BY <1>1, SupResults
<1>3. /\ q.boots = r.boots /\ q.attempts = r.attempts
      /\ q.reinstalled = r.reinstalled /\ q.rotated = r.rotated
      /\ q.pc = "decide"
  BY <1>1 DEF SupRecord
<1>4. PaidFor(q)
  <2> HIDE DEF q
  <2> QED
    BY <1>1, <1>2, <1>3, PaidKept DEF Early
<1> QED
  BY <1>4, MovePaid

LEMMA AgainPaid ==
  ASSUME TypeOK, RetriesPaid, NEW s \in Supervisor, NEW r \in SupRecord,
         Again(s, r),
         \/ r.boots = 0
         \/ r.boots = sup[s].boots /\ Paid(r) >= Paid(sup[s]) + 1
         \/ r.boots = sup[s].boots /\ Paid(r) >= Paid(sup[s])
            /\ r.mode = "Setup"
  PROVE  RetriesPaid'
<1> DEFINE q == [r EXCEPT !.pc = "prepare", !.result = "none"]
<1>1. sup[s] \in SupRecord /\ PaidFor(sup[s])
  BY DEF TypeOK, RetriesPaid
<1>2. q \in SupRecord
  BY SupRecords
<1>3. /\ q.boots = r.boots /\ q.attempts = r.attempts
      /\ q.reinstalled = r.reinstalled /\ q.rotated = r.rotated
      /\ q.pc = "prepare" /\ q.mode = r.mode
  BY DEF SupRecord
<1>4. Paid(q) = Paid(r)
  BY <1>3 DEF Paid
<1>5. PaidFor(q)
  <2> HIDE DEF q
  <2> QED
    BY <1>1, <1>2, <1>3, <1>4, PaidZero, PaidMore, PaidSetup DEF Early
<1>6. Others(s) /\ sup'[s] = q
  BY AgainMoves DEF TypeOK
<1> QED
  BY <1>5, <1>6, MovePaid

LEMMA SupervisePaid ==
  ASSUME TypeOK, RetriesPaid, NEW s \in Supervisor, Supervise(s)
  PROVE  RetriesPaid'
<1>0. sup[s] \in SupRecord /\ PaidFor(sup[s])
  BY DEF TypeOK, RetriesPaid
<1>1. CASE Fatal(s)
  BY <1>1, FatalPaid
<1>2. CASE Leave(s)
  BY <1>2, LeavePaid
<1>3. CASE Claim(s) \/ InspectMigrates(s) \/ MigrateDone(s)
  BY <1>3, GoPaid DEF Claim, InspectMigrates, MigrateDone, At, Early, Pc
<1>4. CASE Prepare(s)
  BY <1>4, GoPaid DEF Prepare, At, Early, Pc
<1>5. CASE \/ Register(s) \/ ProbeFails(s) \/ ProbeReady(s) \/ WatchEnds(s)
           \/ WatchPromotes(s) \/ Finish(s)
  BY <1>5, GoPaid
  DEF Register, ProbeFails, ProbeReady, WatchEnds, WatchPromotes, Finish, Early, Pc
<1>6. ASSUME NEW fault \in Fault, FailEarly(s, fault) PROVE RetriesPaid'
  BY <1>6, FailEarlyMoves, DecidedPaid DEF TypeOK
<1>7. CASE PrepareFails(s) \/ (BootFails(s) /\ ~Fatal(s)) \/ Abandon(s)
  BY <1>6, <1>7 DEF PrepareFails, BootFails, Abandon, Fault
<1>8. CASE Judge(s)
  BY <1>8, JudgeMoves, DecidedPaid DEF TypeOK
<1>9. CASE InspectDone(s)
  <2>1. PICK m \in Mode :
          /\ Others(s)
          /\ sup'[s] = [sup[s] EXCEPT !.mode = m, !.pc = "prepare"]
    BY <1>9, InspectDoneMoves DEF TypeOK
  <2>2. sup'[s] \in SupRecord
    BY SuperviseType DEF TypeOK
  <2>3. sup'[s].boots = sup[s].boots
    BY <1>0, <2>1 DEF SupRecord
  <2>4. sup[s].boots = 0
    BY <1>0, <1>9 DEF PaidFor, InspectDone, At, Early
  <2> QED
    BY <2>1, <2>2, <2>3, <2>4, PaidZero, MovePaid
<1>10. CASE Boot(s)
  <2>1. PICK p \in Pid :
          /\ Others(s)
          /\ sup'[s] = [sup[s] EXCEPT !.pid = p, !.pc = "register",
                           !.asked = StillAsked(s), !.boots = Counted(s)]
    BY <1>10, BootMoves
  <2>2. /\ sup'[s].boots = Counted(s) /\ sup'[s].pc = "register"
        /\ sup'[s].attempts = sup[s].attempts
        /\ sup'[s].reinstalled = sup[s].reinstalled
        /\ sup'[s].rotated = sup[s].rotated
    BY <1>0, <2>1 DEF SupRecord
  <2>3. Paid(sup'[s]) = Paid(sup[s])
    BY <2>2 DEF Paid
  <2>4. Counted(s) <= Paid(sup[s]) + 1
    BY <1>0, <1>10, PaidNat DEF Counted, PaidFor, Boot, At
  <2>5. PaidFor(sup'[s])
    BY <2>2, <2>3, <2>4 DEF PaidFor, Early
  <2> QED
    BY <2>1, <2>5, MovePaid
<1>11. CASE DecideRestart(s)
  BY <1>11, RestartAgain, AgainPaid
<1>12. CASE DecideRecover(s)
  <2>1. PICK r \in SupRecord :
           /\ Again(s, r)
           /\ r.reinstalled = sup[s].reinstalled
           /\ r.rotated = sup[s].rotated
           /\ \/ r.boots = 0
              \/ r.boots = sup[s].boots /\ r.attempts = sup[s].attempts + 1
              \/ r.boots = sup[s].boots /\ r.attempts = sup[s].attempts
                 /\ r.mode = "Setup"
    BY <1>12, RecoverAgain
  <2>2. CASE r.boots = 0
    BY <2>1, <2>2, AgainPaid
  <2>3. CASE r.boots = sup[s].boots /\ r.attempts = sup[s].attempts + 1
    <3>1. Paid(r) >= Paid(sup[s]) + 1
      BY <1>0, <2>1, <2>3, PaidRetry, PaidNat
    <3> QED
      BY <2>1, <2>3, <3>1, AgainPaid
  <2>4. CASE r.boots = sup[s].boots /\ r.attempts = sup[s].attempts
             /\ r.mode = "Setup"
    <3>1. Paid(r) = Paid(sup[s])
      BY <2>1, <2>4 DEF Paid
    <3>2. Paid(r) >= Paid(sup[s])
      BY <1>0, <3>1, PaidNat
    <3> QED
      BY <2>1, <2>4, <3>2, AgainPaid
  <2> QED
    BY <2>1, <2>2, <2>3, <2>4
<1>13. CASE DecideReinstall(s)
  <2> DEFINE r == [sup[s] EXCEPT !.reinstalled = TRUE]
  <2>1. r \in SupRecord
    BY <1>0, SupRecords
  <2>2. /\ r.attempts = sup[s].attempts /\ r.rotated = sup[s].rotated
        /\ r.reinstalled /\ r.boots = sup[s].boots
    BY <1>0 DEF SupRecord
  <2>3. Again(s, r) /\ ~sup[s].reinstalled
    BY <1>13 DEF DecideReinstall, Reinstalled, MayReinstall
  <2> HIDE DEF r
  <2>4. Paid(r) >= Paid(sup[s]) + 1
    BY <1>0, <2>1, <2>2, <2>3, PaidReinstall, PaidNat
  <2> QED
    BY <2>1, <2>2, <2>3, <2>4, AgainPaid
<1>14. CASE DecideRotate(s) /\ ~Fatal(s)
  <2> DEFINE r == [sup[s] EXCEPT !.rotated = TRUE]
  <2>1. r \in SupRecord
    BY <1>0, SupRecords
  <2>2. /\ r.attempts = sup[s].attempts /\ r.reinstalled = sup[s].reinstalled
        /\ r.rotated /\ r.boots = sup[s].boots
    BY <1>0 DEF SupRecord
  <2>3. Again(s, r) /\ ~sup[s].rotated
    BY <1>14 DEF DecideRotate, MayRotate
  <2> HIDE DEF r
  <2>4. Paid(r) >= Paid(sup[s]) + 1
    BY <1>0, <2>1, <2>2, <2>3, PaidRotate, PaidNat
  <2> QED
    BY <2>1, <2>2, <2>3, <2>4, AgainPaid
<1>15. CASE OpenSetup(s)
  <2> DEFINE r == IF MayReinstall(s) THEN [sup[s] EXCEPT !.reinstalled = TRUE]
                  ELSE sup[s]
             q == [r EXCEPT !.mode = "Setup", !.setupUsed = TRUE]
  <2>1. r \in SupRecord
    BY <1>0, SupRecords
  <2>2. r.attempts = sup[s].attempts /\ r.rotated = sup[s].rotated
        /\ r.boots = sup[s].boots
    BY <1>0 DEF SupRecord
  <2>3. Paid(r) >= Paid(sup[s])
    <3>1. CASE MayReinstall(s)
      <4>1. r.reinstalled /\ ~sup[s].reinstalled
        BY <1>0, <3>1 DEF MayReinstall, SupRecord
      <4> HIDE DEF r
      <4> QED
        BY <1>0, <2>1, <2>2, <4>1, PaidReinstall, PaidNat
    <3>2. CASE ~MayReinstall(s)
      BY <1>0, <3>2, PaidNat
    <3> QED
      BY <3>1, <3>2
  <2>4. Again(s, q)
    BY <1>15 DEF OpenSetup, Reinstalled
  <2> HIDE DEF r
  <2>5. q \in SupRecord
    BY <2>1, SupRecords
  <2>6. /\ q.attempts = r.attempts /\ q.reinstalled = r.reinstalled
        /\ q.rotated = r.rotated /\ q.boots = r.boots /\ q.mode = "Setup"
    BY <2>1 DEF SupRecord
  <2> HIDE DEF q
  <2>7. Paid(q) = Paid(r)
    BY <2>6 DEF Paid
  <2> QED
    BY <2>2, <2>3, <2>4, <2>5, <2>6, <2>7, AgainPaid
<1> QED
  BY <1>1, <1>2, <1>3, <1>4, <1>5, <1>7, <1>8, <1>9, <1>10, <1>11, <1>12,
     <1>13, <1>14, <1>15, Supervise(s)
  DEF Supervise, ClaimRefused, InspectRefuses, InspectFails, RepairDone,
      MigrateTimesOut, DecideStop, DecideSetup, DecideExit

LEMMA NextPaid == TypeOK /\ RetriesPaid /\ [Next]_vars => RetriesPaid'
<1> SUFFICES ASSUME TypeOK, RetriesPaid, [Next]_vars PROVE RetriesPaid'
  OBVIOUS
<1>1. ASSUME NEW s \in Supervisor, Launch(s) PROVE RetriesPaid'
  <2>1. \A t \in Supervisor : sup'[t] \in {[Off EXCEPT !.pc = "claim"], Lost[t]}
    BY <1>1 DEF Launch, TypeOK, Lost
  <2> QED
    BY <2>1, PaidOff, PaidForgets DEF RetriesPaid, TypeOK
<1>2. ASSUME NEW s \in Supervisor, LauncherDies(s) PROVE RetriesPaid'
  BY <1>2, LeavePaid DEF LauncherDies
<1>3. ASSUME \/ UNCHANGED sup \/ sup' = Lost \/ \E p : sup' = Asked(p)
      PROVE  RetriesPaid'
  BY <1>3, PaidForgets DEF RetriesPaid, TypeOK
<1>4. ASSUME NEW p \in Pid, Backend(p) PROVE RetriesPaid'
  BY <1>3, <1>4
  DEF Backend, Serve, Crash, BeginWork, EndWork, AcceptStop, AcceptRestart,
      SaveConfig, SaveAndRestart, ShutDown
<1>5. ASSUME NEW c \in Client, Call(c) PROVE RetriesPaid'
  BY <1>3, <1>5
  DEF Call, ClientRestarts, ClientPromotes, ClientReturns, ClientStops,
      ClientForgets, ClientClears, EmergencyWarns, EmergencyMarks,
      EmergencyKills, EmergencyEnds
<1>6. CASE StopScriptClears \/ UNCHANGED vars
  BY <1>3, <1>6 DEF StopScriptClears, vars
<1> QED
  BY <1>1, <1>2, <1>4, <1>5, <1>6, SupervisePaid DEF Next

-----------------------------------------------------------------------------
(* The theorems.                                                           *)

\* The invariant holds whatever launchers, processes and callers do and
\* however the files change.
THEOREM Inductive == Spec => []LInv
<1>1. Init => LInv
  <2>1. Init => StopKept
    BY DEF Init, StopKept, Off
  <2>2. Init => RetriesPaid
    BY PaidOff DEF Init, RetriesPaid
  <2> QED
    BY <2>1, <2>2, InitType, InitAlone DEF LInv
<1>2. LInv /\ [Next]_vars => LInv'
  BY NextType, NextAlone, NextStop, NextPaid DEF LInv
<1> QED
  BY <1>1, <1>2, PTL DEF Spec

\* Every variable keeps its type under every action of every party.
THEOREM TypeCorrect == Spec => []TypeOK
<1>1. LInv => TypeOK
  BY DEF LInv
<1> QED
  BY <1>1, Inductive, PTL

\* At most one backend process exists, however often launchers are started
\* or killed and whoever empties the State folder.
THEOREM OneRuntimeOnly == Spec => []OneRuntime
<1>1. LInv => OneRuntime
  BY OneAlive DEF LInv
<1> QED
  BY <1>1, Inductive, PTL

\* A stop confirmed to an operator is never taken for a crash or a restart.
THEOREM StopsAreFinal == Spec => []StopIsFinal
<1>1. LInv => StopIsFinal
  BY DEF LInv, StopKept, StopIsFinal, Holding
<1> QED
  BY <1>1, Inductive, PTL

\* Without a request or a long healthy period Windows mode is started at most
\* once, plus once per recovery attempt, reinstallation and rotation.
THEOREM RetriesAreBounded == Spec => []BoundedRetries
<1>1. LInv => BoundedRetries
  <2> SUFFICES ASSUME LInv, NEW s \in Supervisor
               PROVE  sup[s].boots <= MaxBoots
    BY DEF BoundedRetries
  <2>1. sup[s] \in SupRecord /\ sup[s].boots <= Paid(sup[s]) + 1
    BY DEF LInv, TypeOK, RetriesPaid, PaidFor
  <2> QED
    BY <2>1, PaidNat, BoundAssumption DEF MaxBoots
<1> QED
  BY <1>1, Inductive, PTL

-----------------------------------------------------------------------------
(* How operations end.                                                     *)

\* What a marker may end: it is gone or on its way, a marker that its gate did
\* not grant was written, or Setup mode, which serves no GPO operation.
Quiet(p) ==
    \/ proc[p].phase \in {"gone", "leaving"} \/ proc[p].doomed # "no"
    \/ proc[p].mode = "Setup"
WorkServed == \A p \in Pid :
    proc[p].busy => proc[p].phase = "serving" /\ proc[p].mode = "Windows"
\* A process is started without markers, but for those that doom it; so the
\* markers its launcher heeds are about this process.
StartUnmarked == \A s \in Supervisor :
    sup[s].pc = "boot" => stop # "asked"
Heeds(s) == sup[s].pc \in Holding =>
    /\ Marked \/ sup[s].pc = "finish" => Quiet(sup[s].pid)
    /\ sup[s].mode = "Setup" => proc[sup[s].pid].mode = "Setup"
MarksHeeded == \A s \in Supervisor : Heeds(s)
\* A caller that goes on has dealt with the process it remembers.
Knows(c) ==
    /\ client[c].pc # "idle" => client[c].pid \in Pid
    /\ client[c].pc = "promoting" => proc[client[c].pid].phase \in {"gone", "leaving"}
    /\ client[c].pc = "waiting" => 
           ~Live(client[c].pid) \/ proc[client[c].pid].doomed # "no"
CallersKnow == \A c \in Client : Knows(c)
QuietInv == WorkServed /\ StartUnmarked /\ MarksHeeded /\ CallersKnow

\* Processes end, markers are deleted, callers return, and a launcher moves
\* on only to where it may.
LEMMA EndingQuiet ==
  ASSUME QuietInv,
         \A p \in Pid : proc'[p] = proc[p] \/ proc'[p] = Gone,
         restart' \in {restart, "none"}, stop' \in {stop, "none"},
         \A c \in Client :
             \/ client'[c] = client[c]
             \/ client'[c] = Idle
             \/ client[c].pc # "idle" /\ client'[c] = [pc |-> "clearing", pid |-> client[c].pid],
         \A s \in Supervisor : sup'[s].pc \in Holding =>
             /\ sup[s].pc \in Holding /\ sup[s].pid \in Pid
             /\ sup'[s].pid = sup[s].pid /\ sup'[s].mode = sup[s].mode
             /\ sup'[s].pc = "finish" => sup[s].pc = "finish" \/ Quiet(sup[s].pid),
         \A s \in Supervisor : sup'[s].pc = "boot" =>
             sup[s].pc = "boot" \/ (restart' = "none" /\ stop' = "none")
  PROVE  QuietInv'
<1>1. \A p \in Pid : Quiet(p) => Quiet(p)'
  BY DEF Quiet, Gone
<1>2. WorkServed'
  BY DEF QuietInv, WorkServed, Gone
<1>3. StartUnmarked'
  BY DEF QuietInv, StartUnmarked
<1>4. ASSUME NEW s \in Supervisor, sup'[s].pc \in Holding PROVE Heeds(s)'
  <2>1. /\ sup[s].pc \in Holding /\ sup[s].pid \in Pid
        /\ sup'[s].pid = sup[s].pid /\ sup'[s].mode = sup[s].mode
        /\ sup'[s].pc = "finish" => sup[s].pc = "finish" \/ Quiet(sup[s].pid)
    BY <1>4
  <2>2. Marked' => Marked
    BY DEF Marked
  <2>3. Heeds(s)
    BY DEF QuietInv, MarksHeeded
  <2>4. Marked' \/ sup'[s].pc = "finish" => Quiet(sup[s].pid)
    BY <2>1, <2>2, <2>3 DEF Heeds
  <2>5. proc'[sup[s].pid] = proc[sup[s].pid] \/ proc'[sup[s].pid] = Gone
    BY <2>1
  <2> QED
    BY <2>1, <2>3, <2>4, <2>5 DEF Heeds, Quiet, Gone
<1>5. ASSUME NEW c \in Client PROVE Knows(c)'
  <2>1. CASE client'[c] = Idle
    BY <2>1 DEF Idle, Knows
  <2>2. CASE client'[c] = client[c] /\ client[c].pc # "idle"
    <3>1. Knows(c) /\ client[c].pid \in Pid
      BY <2>2 DEF QuietInv, CallersKnow, Knows
    <3>2. proc'[client[c].pid] = proc[client[c].pid] \/ proc'[client[c].pid] = Gone
      BY <3>1
    <3> QED
      BY <2>2, <3>1, <3>2 DEF Knows, Live, Gone
  <2>3. CASE client'[c] = client[c] /\ client[c].pc = "idle"
    BY <2>3 DEF Knows
  <2>4. CASE client[c].pc # "idle" /\ client'[c] = [pc |-> "clearing", pid |-> client[c].pid]
    BY <2>4 DEF QuietInv, CallersKnow, Knows
  <2> QED
    BY <2>1, <2>2, <2>3, <2>4
<1>6. MarksHeeded' /\ CallersKnow'
  BY <1>4, <1>5 DEF MarksHeeded, CallersKnow, Heeds
<1> QED
  BY <1>2, <1>3, <1>6 DEF QuietInv

\* A launcher that goes on, fails, starts again or leaves; nobody else moves.
LEMMA MovingQuiet ==
  ASSUME QuietInv, NEW s \in Supervisor,
         \A p \in Pid : proc'[p] = proc[p] \/ proc'[p] = Gone,
         restart' \in {restart, "none"}, stop' \in {stop, "none"}, client' = client,
         \A t \in Supervisor \ {s} : sup'[t].pc = sup[t].pc
             /\ sup'[t].pid = sup[t].pid /\ sup'[t].mode = sup[t].mode,
         sup'[s].pc \notin Holding, sup'[s].pc = "boot" => restart' = "none" /\ stop' = "none",
         Alone
  PROVE  QuietInv'
<1>1. ASSUME NEW t \in Supervisor, sup'[t].pc \in Holding
      PROVE  /\ sup[t].pc \in Holding /\ sup[t].pid \in Pid
             /\ sup'[t].pid = sup[t].pid /\ sup'[t].mode = sup[t].mode
             /\ sup'[t].pc = "finish" => sup[t].pc = "finish" \/ Quiet(sup[t].pid)
  BY <1>1 DEF Alone, Position
<1>2. ASSUME NEW t \in Supervisor, sup'[t].pc = "boot"
      PROVE  sup[t].pc = "boot" \/ (restart' = "none" /\ stop' = "none")
  <2>1. CASE t = s
    BY <1>2, <2>1
  <2>2. CASE t # s
    BY <1>2, <2>2
  <2> QED
    BY <2>1, <2>2
<1>3. \A c \in Client : client'[c] = client[c] \/ client'[c] = Idle
  OBVIOUS
<1>4. \A t \in Supervisor : sup'[t].pc \in Holding =>
          /\ sup[t].pc \in Holding /\ sup[t].pid \in Pid
          /\ sup'[t].pid = sup[t].pid /\ sup'[t].mode = sup[t].mode
          /\ sup'[t].pc = "finish" => sup[t].pc = "finish" \/ Quiet(sup[t].pid)
  BY <1>1
<1>5. \A t \in Supervisor : sup'[t].pc = "boot" =>
          sup[t].pc = "boot" \/ (restart' = "none" /\ stop' = "none")
  BY <1>2
<1> HIDE DEF QuietInv, Quiet, Holding
<1> QED
  BY <1>3, <1>4, <1>5, EndingQuiet

\* A process that no operation keeps leaves, at somebody's request.
LEMMA LeavingQuiet ==
  ASSUME TypeOK, Alone, QuietInv, NEW p \in Pid, CanLeave(p),
         proc' = [proc EXCEPT ![p].phase = "leaving"],
         stop' \in {stop, "asked"},
         \A c \in Client :
             \/ client'[c] = client[c]
             \/ client'[c].pc \in {"promoting", "stopping"} /\ client'[c].pid = p,
         \A s \in Supervisor : sup'[s].pc \in Holding \cup {"boot"} =>
             sup'[s].pc = sup[s].pc /\ sup'[s].pid = sup[s].pid /\ sup'[s].mode = sup[s].mode
  PROVE  QuietInv'
<1>1. /\ Live(p) /\ ~proc[p].busy /\ proc \in [Pid -> ProcRecord]
      /\ \A q \in Pid \ {p} : proc'[q] = proc[q]
      /\ proc'[p].phase = "leaving" /\ proc'[p].mode = proc[p].mode
      /\ proc'[p].busy = proc[p].busy /\ proc'[p].doomed = proc[p].doomed
  BY DEF CanLeave, Live, TypeOK, ProcRecord
<1>2. \A s \in Supervisor : sup[s].pc # "boot" /\ (sup[s].pc \in Holding => sup[s].pid = p)
  BY <1>1 DEF Alone, Position
<1>3. WorkServed'
  BY <1>1 DEF QuietInv, WorkServed
<1>4. StartUnmarked'
  BY <1>2 DEF StartUnmarked
<1>5. ASSUME NEW s \in Supervisor PROVE Heeds(s)'
  BY <1>1, <1>2 DEF QuietInv, MarksHeeded, Heeds, Quiet
<1>6. ASSUME NEW c \in Client PROVE Knows(c)'
  <2>1. CASE client'[c] = client[c]
    <3>1. Knows(c)
      BY DEF QuietInv, CallersKnow
    <3> QED
      BY <1>1, <2>1, <3>1 DEF Knows, Live
  <2>2. CASE client'[c].pc \in {"promoting", "stopping"} /\ client'[c].pid = p
    BY <1>1, <2>2 DEF Knows
  <2> QED
    BY <2>1, <2>2
<1> QED
  BY <1>3, <1>4, <1>5, <1>6 DEF QuietInv, MarksHeeded, CallersKnow

\* A process starts: nobody remembers it, and no marker is about it but those
\* that doom it.
LEMMA BootQuiet ==
  ASSUME TypeOK, Alone, QuietInv, NEW s \in Supervisor, Boot(s)
  PROVE  QuietInv'
<1>1. PICK p \in Unused :
        /\ proc' = [proc EXCEPT ![p] = [phase |-> "starting", mode |-> sup[s].mode,
               folder |-> FolderOf[s], busy |-> FALSE, doomed |-> DoomAtStart]]
        /\ sup' = [sup EXCEPT ![s] = [@ EXCEPT !.pid = p, !.pc = "register",
               !.asked = StillAsked(s), !.boots = Counted(s)]]
  BY DEF Boot
<1>2. /\ sup[s].pc = "boot" /\ restart' = restart /\ stop' = stop /\ client' = client
      /\ sup[s] \in SupRecord
  BY DEF Boot, At, files, TypeOK
<1>3. /\ p \in Pid /\ proc'[p].phase = "starting" /\ proc'[p].busy = FALSE
      /\ proc'[p].mode = sup[s].mode /\ proc'[p].doomed = DoomAtStart
      /\ \A q \in Pid \ {p} : proc'[q] = proc[q]
  BY <1>1 DEF Unused, TypeOK
<1>4. /\ sup'[s].pc = "register" /\ sup'[s].pid = p /\ sup'[s].mode = sup[s].mode
      /\ \A t \in Supervisor \ {s} : sup'[t] = sup[t]
  BY <1>1, <1>2 DEF TypeOK, SupRecord
<1>5. \A t \in Supervisor \ {s} : sup[t].pc \in {"off", "claim"}
  BY <1>2 DEF Alone, MutexHeld
<1>6. Marked => DoomAtStart # "no"
  BY <1>2 DEF QuietInv, StartUnmarked, TypeOK, Marked, DoomAtStart
<1>7. WorkServed'
  BY <1>3 DEF QuietInv, WorkServed
<1>8. StartUnmarked'
  BY <1>4, <1>5 DEF StartUnmarked
<1>9. ASSUME NEW t \in Supervisor PROVE Heeds(t)'
  <2>1. CASE t = s
    BY <1>2, <1>3, <1>4, <1>6, <2>1 DEF Heeds, Marked, Quiet
  <2>2. CASE t # s
    BY <1>4, <1>5, <2>2 DEF Heeds, Holding
  <2> QED
    BY <2>1, <2>2
<1>10. ASSUME NEW c \in Client PROVE Knows(c)'
  <2>1. client[c].pid # p /\ Knows(c)
    BY <1>1 DEF Unused, Held, QuietInv, CallersKnow
  <2> QED
    BY <1>2, <1>3, <2>1 DEF Knows, Live
<1> QED
  BY <1>7, <1>8, <1>9, <1>10 DEF QuietInv, MarksHeeded, CallersKnow

\* A launcher fails or is ended: it ends no process.
LEMMA FatalQuiet ==
  ASSUME TypeOK, Alone, QuietInv, NEW s \in Supervisor, Fatal(s)
  PROVE  QuietInv'
<1>1. /\ sup'[s].pc = "off" /\ \A t \in Supervisor \ {s} : sup'[t] = Lost[t]
  BY DEF Fatal, TypeOK, Lost, Off
<1>2. \A t \in Supervisor : Lost[t].pc = sup[t].pc /\ Lost[t].pid = sup[t].pid
                               /\ Lost[t].mode = sup[t].mode
  BY DEF Lost, TypeOK, SupRecord
<1> QED
  BY <1>1, <1>2, MovingQuiet DEF Fatal, ClearFiles, Holding

LEMMA LeaveQuiet ==
  ASSUME TypeOK, Alone, QuietInv, NEW s \in Supervisor, Leave(s),
         restart' \in {restart, "none"}, stop' \in {stop, "none"}, UNCHANGED <<proc, client>>
  PROVE  QuietInv'
<1>1. /\ sup'[s].pc = "off" /\ \A t \in Supervisor \ {s} : sup'[t] = sup[t]
  BY DEF Leave, TypeOK, Off
<1> QED
  BY <1>1, MovingQuiet DEF Holding

\* A launcher that knows its process goes on with it, and asks for its end
\* only where it may.
LEMMA HoldingQuiet ==
  ASSUME TypeOK, Alone, QuietInv, NEW s \in Supervisor, NEW pc \in Holding, Go(s, pc),
         sup[s].pc \in Holding, UNCHANGED <<proc, stop, restart, client>>,
         pc = "finish" => Quiet(sup[s].pid)
  PROVE  QuietInv'
<1>1. /\ \A t \in Supervisor \ {s} : sup'[t] = sup[t]
      /\ sup'[s].pc = pc /\ sup'[s].pid = sup[s].pid /\ sup'[s].mode = sup[s].mode
  BY DEF Go, TypeOK, SupRecord
<1>2. \A t \in Supervisor : sup[t].pc \in Holding => sup[t].pid \in Pid
  BY DEF Alone, Position
<1>3. ASSUME NEW t \in Supervisor, sup'[t].pc \in Holding
      PROVE  /\ sup[t].pc \in Holding /\ sup[t].pid \in Pid
             /\ sup'[t].pid = sup[t].pid /\ sup'[t].mode = sup[t].mode
             /\ sup'[t].pc = "finish" => sup[t].pc = "finish" \/ Quiet(sup[t].pid)
  <2>1. CASE t = s
    BY <1>1, <1>2, <2>1
  <2>2. CASE t # s
    BY <1>1, <1>2, <1>3, <2>2
  <2> QED
    BY <2>1, <2>2
<1>4. \A t \in Supervisor : sup'[t].pc \in Holding =>
          /\ sup[t].pc \in Holding /\ sup[t].pid \in Pid
          /\ sup'[t].pid = sup[t].pid /\ sup'[t].mode = sup[t].mode
          /\ sup'[t].pc = "finish" => sup[t].pc = "finish" \/ Quiet(sup[t].pid)
  BY <1>3
<1>5. \A t \in Supervisor : sup'[t].pc = "boot" => sup[t].pc = "boot"
  BY <1>1 DEF Holding
<1> QED
  BY <1>4, <1>5, EndingQuiet

\* A launcher is past the processes it ends: it goes on without one.
LEMMA EndedQuiet ==
  ASSUME TypeOK, Alone, QuietInv, NEW s \in Supervisor, Others(s),
         sup'[s].pc \notin Holding \cup {"boot"},
         \A p \in Pid : proc'[p] = proc[p] \/ proc'[p] = Gone,
         restart' \in {restart, "none"}, stop' \in {stop, "none"}, client' = client
  PROVE  QuietInv'
  BY MovingQuiet DEF Others

\* The promotion of a Setup process whose configuration was just saved.
LEMMA PromotesQuiet ==
  ASSUME TypeOK, Alone, QuietInv, NEW s \in Supervisor, WatchPromotes(s)
  PROVE  QuietInv'
<1>1. /\ \A t \in Supervisor \ {s} : sup'[t] = sup[t]
      /\ sup'[s].pc = "finish" /\ sup'[s].pid = sup[s].pid /\ sup'[s].mode = sup[s].mode
      /\ sup[s].pc = "watch" /\ sup[s].mode = "Setup"
      /\ UNCHANGED <<proc, client>>
  BY DEF WatchPromotes, At, Go, TypeOK, SupRecord
<1>2. \A t \in Supervisor \ {s} : sup[t].pc \in {"off", "claim"}
  BY <1>1 DEF Alone, MutexHeld
<1>3. proc[sup[s].pid].mode = "Setup"
  BY <1>1 DEF QuietInv, MarksHeeded, Heeds, Holding
<1>4. WorkServed' /\ CallersKnow'
  BY <1>1 DEF QuietInv, WorkServed, CallersKnow, Knows, Live
<1>5. StartUnmarked'
  BY <1>1, <1>2 DEF StartUnmarked
<1>6. ASSUME NEW t \in Supervisor PROVE Heeds(t)'
  <2>1. CASE t = s
    BY <1>1, <1>3, <2>1 DEF Heeds, Quiet
  <2>2. CASE t # s
    BY <1>1, <1>2, <2>2 DEF Heeds, Holding
  <2> QED
    BY <2>1, <2>2
<1> QED
  BY <1>4, <1>5, <1>6 DEF QuietInv, MarksHeeded

\* Every step of a launcher ends only what is quiet, and lets what it starts
\* begin without markers.
LEMMA SuperviseQuiet ==
  ASSUME TypeOK, Alone, QuietInv, NEW s \in Supervisor, Supervise(s)
  PROVE  QuietInv'
<1>1. CASE Claim(s)
  <2>1. Others(s) /\ sup'[s].pc = "inspect"
    BY <1>1, GoMoves DEF Claim, TypeOK
  <2> QED
    BY <1>1, <2>1, EndedQuiet DEF Claim, files, Holding
<1>2. CASE Fatal(s)
  BY <1>2, FatalQuiet
<1>3. CASE RepairDone(s) \/ DecideStop(s) \/ DecideExit(s)
  BY <1>3, LeaveQuiet DEF RepairDone, DecideStop, DecideExit, ClearFiles, files
<1>4. CASE InspectMigrates(s)
  <2>1. Others(s) /\ sup'[s].pc = "migrate"
    BY <1>4, GoMoves DEF InspectMigrates, TypeOK
  <2>2. registered \in Pid /\ CanLeave(registered) /\ client' = client
        /\ proc' = [proc EXCEPT ![registered].phase = "leaving"] /\ stop' = "asked"
    BY <1>4, RunningPid DEF InspectMigrates, BackendStops
  <2> QED
    BY <2>1, <2>2, LeavingQuiet DEF Others, Holding
<1>5. CASE MigrateDone(s)
  <2>1. Others(s) /\ sup'[s].pc = "inspect"
    BY <1>5, GoMoves DEF MigrateDone, TypeOK
  <2> QED
    BY <1>5, <2>1, EndedQuiet DEF MigrateDone, Holding
<1>6. CASE InspectDone(s)
  <2>1. Others(s) /\ sup'[s].pc = "prepare"
    BY <1>6, InspectDoneMoves DEF TypeOK
  <2> QED
    BY <1>6, <2>1, EndedQuiet DEF InspectDone, Holding
<1>7. CASE Prepare(s)
  <2>1. Others(s) /\ sup'[s].pc = "boot"
    BY <1>7, GoMoves DEF Prepare, TypeOK
  <2>2. \A p \in Pid : proc'[p] = proc[p] \/ proc'[p] = Gone
    BY <1>7 DEF Prepare, FreePort
  <2> QED
    BY <1>7, <2>1, <2>2, MovingQuiet DEF Prepare, Others, Holding
<1>8. CASE PrepareFails(s) \/ (BootFails(s) /\ ~Fatal(s))
  <2>1. PICK fault \in Fault : FailEarly(s, fault)
    BY <1>8 DEF PrepareFails, BootFails, Fault
  <2>2. Others(s) /\ sup'[s].pc = "decide"
    BY <2>1, FailEarlyMoves DEF TypeOK
  <2> QED
    BY <1>8, <2>2, EndedQuiet DEF PrepareFails, BootFails, files, Holding
<1>9. CASE Boot(s)
  BY <1>9, BootQuiet
<1>10. CASE Register(s) \/ ProbeFails(s) \/ ProbeReady(s) \/ WatchEnds(s)
  <2>1. PICK pc \in Holding : Go(s, pc) /\ (pc = "finish" => WatchEnds(s))
    BY <1>10 DEF Register, ProbeFails, ProbeReady, WatchEnds, Holding
  <2>2. UNCHANGED <<proc, stop, restart, client>> /\ sup[s].pc \in Holding
    BY <1>10 DEF Register, ProbeFails, ProbeReady, WatchEnds, At, Holding, files
  <2>3. WatchEnds(s) => Quiet(sup[s].pid)
    <3>1. sup[s].pid \in Pid /\ Heeds(s)
      BY <2>2 DEF Alone, Position, QuietInv, MarksHeeded
    <3> QED
      BY <2>2, <3>1 DEF WatchEnds, Heeds, Quiet, Live
  <2> QED
    BY <2>1, <2>2, <2>3, HoldingQuiet
<1>11. CASE WatchPromotes(s)
  BY <1>11, PromotesQuiet
<1>12. CASE Abandon(s)
  <2>1. PICK fault \in Fault : FailEarly(s, fault)
    BY <1>12 DEF Abandon
  <2>2. Others(s) /\ sup'[s].pc = "decide"
    BY <2>1, FailEarlyMoves DEF TypeOK
  <2>3. \A p \in Pid : proc'[p] = proc[p] \/ proc'[p] = Gone
    BY <1>12 DEF Abandon, Kill, TypeOK
  <2> QED
    BY <1>12, <2>2, <2>3, EndedQuiet DEF Abandon, Holding
<1>13. CASE Finish(s)
  <2>1. Others(s) /\ sup'[s].pc = "judge"
    BY <1>13, GoMoves DEF Finish, TypeOK
  <2>2. \A p \in Pid : proc'[p] = proc[p] \/ proc'[p] = Gone
    BY <1>13 DEF Finish, Kill, TypeOK
  <2> QED
    BY <1>13, <2>1, <2>2, EndedQuiet DEF Finish, Holding
<1>14. CASE Judge(s)
  <2>1. Others(s) /\ sup'[s].pc = "decide"
    BY <1>14, JudgeMoves DEF TypeOK
  <2> QED
    BY <1>14, <2>1, EndedQuiet DEF Judge, files, Holding
<1>15. CASE \/ DecideRestart(s) \/ DecideRecover(s) \/ DecideReinstall(s)
            \/ (DecideRotate(s) /\ ~Fatal(s))
            \/ (DecideSetup(s) /\ ~Fatal(s))
  <2>1. Others(s) /\ sup'[s].pc = "prepare"
    BY <1>15, DecideMoves
  <2>2. /\ UNCHANGED <<proc, client, stop>> /\ restart' \in {restart, "none"}
    BY <1>15 DEF DecideRestart, DecideRecover, DecideReinstall, DecideRotate,
                 DecideSetup, OpenSetup, NoFileTouched, files
  <2> QED
    BY <2>1, <2>2, EndedQuiet DEF Holding
<1> QED
  BY <1>1, <1>2, <1>3, <1>4, <1>5, <1>6, <1>7, <1>8, <1>9, <1>10, <1>11,
     <1>12, <1>13, <1>14, <1>15, Supervise(s)
  DEF Supervise, ClaimRefused, InspectRefuses, InspectFails, MigrateTimesOut

\* Nobody moves and no marker is written; processes work, or end.
LEMMA WorkingQuiet ==
  ASSUME TypeOK, QuietInv, UNCHANGED <<stop, restart, client, sup>>, WorkServed',
         \A p \in Pid : Quiet(p) => Quiet(p)',
         \A p \in Pid : proc'[p].mode \in {proc[p].mode, "Setup"},
         \A p \in Pid : proc[p].phase \in {"gone", "leaving"} => proc'[p].phase \in {"gone", "leaving"},
         \A p \in Pid : 
             ~Live(p) \/ proc[p].doomed # "no" => (~Live(p) \/ proc[p].doomed # "no")',
         Alone
  PROVE  QuietInv'
<1>1. ASSUME NEW s \in Supervisor PROVE Heeds(s)'
  <2>1. Heeds(s) /\ (sup[s].pc \in Holding => sup[s].pid \in Pid)
    BY DEF Alone, Position, QuietInv, MarksHeeded
  <2> QED
    BY <2>1 DEF Heeds, Marked, Quiet
<1>2. ASSUME NEW c \in Client PROVE Knows(c)'
  <2>1. Knows(c)
    BY DEF QuietInv, CallersKnow
  <2> QED
    BY <2>1 DEF Knows, Live
<1>3. StartUnmarked'
  BY DEF QuietInv, StartUnmarked
<1> QED
  BY <1>1, <1>2, <1>3 DEF QuietInv, MarksHeeded, CallersKnow

\* A process serves, works, crashes or leaves, as it does by itself.
LEMMA BackendQuiet ==
  ASSUME TypeOK, Alone, QuietInv, NEW p \in Pid, Backend(p)
  PROVE  QuietInv'
<1>1. CASE Serve(p) \/ BeginWork(p) \/ EndWork(p)
  <2>1. PICK r : /\ proc' = [proc EXCEPT ![p] = r] /\ r.mode = proc[p].mode
                 /\ r.doomed = proc[p].doomed /\ r.phase \in {"serving", proc[p].phase}
                 /\ r.busy => r.phase = "serving" /\ (r.mode = "Windows")
                 /\ proc[p].phase \notin {"gone", "leaving"}
    <3>1. CASE Serve(p)
      <4>1. proc' = [proc EXCEPT ![p] = [proc[p] EXCEPT !.phase = "serving"]]
            /\ proc[p].phase = "starting" /\ proc[p] \in ProcRecord
        BY <3>1 DEF Serve, TypeOK
      <4> QED
        BY <4>1 DEF QuietInv, WorkServed, ProcRecord
    <3>2. CASE BeginWork(p)
      <4>1. proc' = [proc EXCEPT ![p] = [proc[p] EXCEPT !.busy = TRUE]]
            /\ proc[p].phase = "serving" /\ proc[p].mode = "Windows" /\ proc[p] \in ProcRecord
        BY <3>2 DEF BeginWork, TypeOK
      <4> QED
        BY <4>1 DEF ProcRecord
    <3>3. CASE EndWork(p)
      <4>1. proc' = [proc EXCEPT ![p] = [proc[p] EXCEPT !.busy = FALSE]]
            /\ proc[p].busy /\ proc[p] \in ProcRecord
        BY <3>3 DEF EndWork, TypeOK
      <4> QED
        BY <4>1 DEF QuietInv, WorkServed, ProcRecord
    <3> QED
      BY <1>1, <3>1, <3>2, <3>3
  <2>2. proc'[p] = r /\ \A q \in Pid \ {p} : proc'[q] = proc[q]
    BY <2>1 DEF TypeOK
  <2>3. WorkServed'
    BY <2>1, <2>2 DEF QuietInv, WorkServed
  <2>4. \A q \in Pid : Quiet(q) => Quiet(q)'
    BY <2>1, <2>2 DEF Quiet
  <2>5. /\ \A q \in Pid : proc'[q].mode \in {proc[q].mode, "Setup"}
        /\ \A q \in Pid : proc[q].phase \in {"gone", "leaving"} => proc'[q].phase \in {"gone", "leaving"}
        /\ \A q \in Pid : 
              ~Live(q) \/ proc[q].doomed # "no" => (~Live(q) \/ proc[q].doomed # "no")'
    BY <2>1, <2>2 DEF Live
  <2>6. UNCHANGED <<stop, restart, client, sup>>
    BY <1>1 DEF Serve, BeginWork, EndWork, files
  <2> QED
    BY <2>3, <2>4, <2>5, <2>6, WorkingQuiet
<1>2. CASE Crash(p) \/ ShutDown(p) \/ SaveConfig(p)
  <2>1. /\ \A q \in Pid : proc'[q] = proc[q] \/ proc'[q] = Gone
        /\ UNCHANGED <<stop, restart, client, sup>>
    BY <1>2 DEF Crash, ShutDown, SaveConfig, Kill, files, TypeOK
  <2>2. \A s \in Supervisor : sup[s].pc \in Holding => sup[s].pid \in Pid
    BY DEF Alone, Position
  <2> QED
    BY <2>1, <2>2, EndingQuiet
<1>3. CASE AcceptStop(p)
  <2>1. \A s \in Supervisor : sup'[s].pc = sup[s].pc /\ sup'[s].pid = sup[s].pid
                                 /\ sup'[s].mode = sup[s].mode
    BY <1>3 DEF AcceptStop, Asked, TypeOK, SupRecord
  <2> QED
    BY <1>3, <2>1, LeavingQuiet DEF AcceptStop, BackendStops
<1>4. CASE AcceptRestart(p) \/ SaveAndRestart(p)
  BY <1>4, LeavingQuiet DEF AcceptRestart, SaveAndRestart, BackendRestarts
<1> QED
  BY <1>1, <1>2, <1>3, <1>4 DEF Backend

\* A promotion that is written late dooms what was started meanwhile.
LEMMA ClientPromotesQuiet ==
  ASSUME TypeOK, Alone, QuietInv, NEW c \in Client, ClientPromotes(c)
  PROVE  QuietInv'
<1>1. /\ client[c].pc = "promoting" /\ UNCHANGED <<stop, sup>>
      /\ proc' = Promoted(client[c].pid)
      /\ \A d \in Client : client'[d] = client[d] \/ client'[d] = Idle
  BY DEF ClientPromotes, TypeOK
<1>2. client[c].pid \in Pid /\ proc[client[c].pid].phase \in {"gone", "leaving"}
  BY <1>1 DEF QuietInv, CallersKnow, Knows
<1>3. ASSUME NEW p \in Pid
      PROVE  /\ proc'[p].phase = proc[p].phase /\ proc'[p].mode = proc[p].mode
             /\ proc'[p].busy = proc[p].busy
             /\ Live(p) /\ p # client[c].pid => proc'[p].doomed # "no"
             /\ proc[p].doomed # "no" => proc'[p].doomed # "no"
  <2>1. proc[p] \in ProcRecord
    BY DEF TypeOK
  <2> QED
    BY <1>1, <2>1 DEF Promoted, ProcRecord
<1>4. \A p \in Pid : Quiet(p)'
  BY <1>2, <1>3 DEF Quiet, Live
<1>5. WorkServed'
  BY <1>3 DEF QuietInv, WorkServed
<1>6. StartUnmarked'
  BY <1>1 DEF QuietInv, StartUnmarked
<1>7. ASSUME NEW s \in Supervisor PROVE Heeds(s)'
  <2>1. Heeds(s) /\ (sup[s].pc \in Holding => sup[s].pid \in Pid)
    BY DEF Alone, Position, QuietInv, MarksHeeded
  <2>2. sup'[s] = sup[s]
    BY <1>1
  <2>3. sup'[s].pc \in Holding => Quiet(sup[s].pid)'
    BY <1>4, <2>1, <2>2
  <2> QED
    BY <1>3, <2>1, <2>2, <2>3 DEF Heeds, Quiet
<1>8. ASSUME NEW d \in Client PROVE Knows(d)'
  <2>1. Knows(d)
    BY DEF QuietInv, CallersKnow
  <2>2. CASE client'[d] = Idle
    BY <2>2 DEF Knows, Idle
  <2>3. CASE client'[d] = client[d]
    BY <1>3, <2>1, <2>3 DEF Knows, Live
  <2> QED
    BY <1>1, <2>2, <2>3
<1> QED
  BY <1>5, <1>6, <1>7, <1>8 DEF QuietInv, MarksHeeded, CallersKnow

\* An emergency stop dooms what lives.
LEMMA EmergencyQuiet ==
  ASSUME TypeOK, Alone, QuietInv, NEW c \in Client, EmergencyMarks(c)
  PROVE  QuietInv'
<1>1. /\ client[c].pc = "warned" /\ client' = [client EXCEPT ![c].pc = "waiting"]
      /\ stop' = "emergency" /\ UNCHANGED <<restart, sup>>
      /\ \A p \in Pid : proc'[p] = IF Live(p) 
             THEN [proc[p] EXCEPT !.doomed = "emergency"] ELSE proc[p]
  BY DEF EmergencyMarks
<1>2. ASSUME NEW p \in Pid
      PROVE  /\ proc'[p].phase = proc[p].phase /\ proc'[p].mode = proc[p].mode
             /\ proc'[p].busy = proc[p].busy /\ (Live(p) => proc'[p].doomed # "no")
             /\ proc[p].doomed # "no" => proc'[p].doomed # "no"
  <2>1. proc[p] \in ProcRecord
    BY DEF TypeOK
  <2> QED
    BY <1>1, <2>1 DEF ProcRecord
<1>3. WorkServed'
  BY <1>2 DEF QuietInv, WorkServed
<1>4. StartUnmarked'
  BY <1>1 DEF QuietInv, StartUnmarked
<1>5. ASSUME NEW s \in Supervisor PROVE Heeds(s)'
  <2>1. Heeds(s) /\ (sup[s].pc \in Holding => sup[s].pid \in Pid)
    BY DEF Alone, Position, QuietInv, MarksHeeded
  <2> QED
    BY <1>1, <1>2, <2>1 DEF Heeds, Quiet, Live
<1>6. ASSUME NEW d \in Client PROVE Knows(d)'
  <2>1. Knows(d) /\ client[d] \in ClientRecord
    BY DEF QuietInv, CallersKnow, TypeOK
  <2>2. CASE d = c
    <3>1. client'[d].pc = "waiting" /\ client'[d].pid = client[d].pid /\ client[d].pid \in Pid
      BY <1>1, <2>1, <2>2 DEF Knows, TypeOK, ClientRecord
    <3> QED
      BY <1>2, <3>1 DEF Knows, Live
  <2>3. CASE d # c
    <3>1. client'[d] = client[d]
      BY <1>1, <2>3 DEF TypeOK
    <3> QED
      BY <1>2, <2>1, <3>1 DEF Knows, Live
  <2> QED
    BY <2>2, <2>3
<1> QED
  BY <1>3, <1>4, <1>5, <1>6 DEF QuietInv, MarksHeeded, CallersKnow

\* Whatever a native caller does, what it remembers is true.
LEMMA CallQuiet ==
  ASSUME TypeOK, Alone, QuietInv, NEW c \in Client, Call(c)
  PROVE  QuietInv'
<1>1. CASE ClientRestarts(c)
  <2>1. /\ registered \in Pid /\ CanLeave(registered) /\ UNCHANGED <<stop, sup>>
        /\ proc' = [proc EXCEPT ![registered].phase = "leaving"]
        /\ client' = [client EXCEPT ![c] = [pc |-> "promoting", pid |-> registered]]
    BY <1>1, RunningPid DEF ClientRestarts, BackendRestarts
  <2>2. \A d \in Client :
             \/ client'[d] = client[d]
             \/ client'[d].pc \in {"promoting", "stopping"} /\ client'[d].pid = registered
    BY <2>1 DEF TypeOK
  <2> QED
    BY <2>1, <2>2, LeavingQuiet
<1>2. CASE ClientStops(c)
  <2>1. /\ registered \in Pid /\ CanLeave(registered) /\ stop' = "asked"
        /\ proc' = [proc EXCEPT ![registered].phase = "leaving"]
        /\ client' = [client EXCEPT ![c] = [pc |-> "stopping", pid |-> registered]]
    BY <1>2, RunningPid DEF ClientStops, BackendStops
  <2>2. \A d \in Client :
             \/ client'[d] = client[d]
             \/ client'[d].pc \in {"promoting", "stopping"} /\ client'[d].pid = registered
    BY <2>1 DEF TypeOK
  <2>3. \A s \in Supervisor : sup'[s].pc = sup[s].pc /\ sup'[s].pid = sup[s].pid
                                 /\ sup'[s].mode = sup[s].mode
    BY <1>2 DEF ClientStops, Asked, TypeOK, SupRecord
  <2> QED
    BY <2>1, <2>2, <2>3, LeavingQuiet
<1>3. CASE ClientPromotes(c)
  BY <1>3, ClientPromotesQuiet
<1>4. CASE \/ ClientReturns(c) \/ ClientForgets(c)
           \/ EmergencyKills(c) \/ EmergencyEnds(c)
  <2>1. /\ \A p \in Pid : proc'[p] = proc[p] \/ proc'[p] = Gone
        /\ UNCHANGED <<stop, restart, sup>> /\ client[c].pc # "idle"
    BY <1>4 DEF ClientReturns, ClientForgets, EmergencyKills, EmergencyEnds, Kill, files, TypeOK
  <2>2. \A d \in Client :
             \/ client'[d] = client[d]
             \/ client'[d] = Idle
             \/ client[d].pc # "idle" /\ client'[d] = [pc |-> "clearing", pid |-> client[d].pid]
    BY <1>4, <2>1
    DEF ClientReturns, ClientForgets, EmergencyKills, EmergencyEnds, Returned, TypeOK
  <2>3. \A s \in Supervisor : sup[s].pc \in Holding => sup[s].pid \in Pid
    BY DEF Alone, Position
  <2> QED
    BY <2>1, <2>2, <2>3, EndingQuiet
<1>5. CASE EmergencyWarns(c)
  <2>1. /\ registered \in Pid /\ UNCHANGED <<stop, restart, proc, sup>>
        /\ client' = [client EXCEPT ![c] = [pc |-> "warned", pid |-> registered]]
    BY <1>5, RunningPid DEF EmergencyWarns, files
  <2>2. ASSUME NEW d \in Client PROVE Knows(d)'
    BY <2>1 DEF Knows, Live, TypeOK, QuietInv, CallersKnow
  <2>3. WorkServed' /\ StartUnmarked' /\ MarksHeeded'
    BY <2>1 DEF QuietInv, WorkServed, StartUnmarked, MarksHeeded, Heeds, Marked, Quiet
  <2> QED
    BY <2>2, <2>3 DEF QuietInv, CallersKnow
<1>6. CASE EmergencyMarks(c)
  BY <1>6, EmergencyQuiet
<1>7. CASE ClientClears(c)
  <2>1. \A t \in Supervisor : sup'[t].pc = sup[t].pc /\ sup'[t].pid = sup[t].pid
                                 /\ sup'[t].mode = sup[t].mode
    BY <1>7 DEF ClientClears, Lost, TypeOK, SupRecord
  <2>2. \A d \in Client : client'[d] = client[d] \/ client'[d] = Idle
    BY <1>7 DEF ClientClears, TypeOK
  <2>3. \A s \in Supervisor : sup[s].pc \in Holding => sup[s].pid \in Pid
    BY DEF Alone, Position
  <2> QED
    BY <1>7, <2>1, <2>2, <2>3, EndingQuiet DEF ClientClears, ClearFiles
<1> QED
  BY <1>1, <1>2, <1>3, <1>4, <1>5, <1>6, <1>7 DEF Call

\* Every step keeps what a marker may end quiet.
LEMMA NextQuiet ==
  ASSUME TypeOK, Alone, QuietInv, [Next]_vars
  PROVE  QuietInv'
<1>0. \A s \in Supervisor : sup[s].pc \in Holding => sup[s].pid \in Pid
  BY DEF Alone, Position
<1>1. ASSUME NEW s \in Supervisor, Launch(s) PROVE QuietInv'
  <2>1. /\ sup'[s].pc = "claim" /\ \A t \in Supervisor \ {s} : sup'[t] = Lost[t]
    BY <1>1 DEF Launch, TypeOK, Lost, Off
  <2>2. \A t \in Supervisor : Lost[t].pc = sup[t].pc /\ Lost[t].pid = sup[t].pid
                                 /\ Lost[t].mode = sup[t].mode
    BY DEF Lost, TypeOK, SupRecord
  <2> QED
    BY <1>1, <2>1, <2>2, MovingQuiet DEF Launch, Holding
<1>2. ASSUME NEW s \in Supervisor, LauncherDies(s) PROVE QuietInv'
  BY <1>2, LeaveQuiet DEF LauncherDies, files
<1>3. CASE StopScriptClears
  <2>1. \A t \in Supervisor : sup'[t].pc = sup[t].pc /\ sup'[t].pid = sup[t].pid
                                 /\ sup'[t].mode = sup[t].mode
    BY <1>3 DEF StopScriptClears, Lost, TypeOK, SupRecord
  <2> QED
    BY <1>0, <1>3, <2>1, EndingQuiet DEF StopScriptClears, ClearFiles
<1>4. CASE UNCHANGED vars
  BY <1>0, <1>4, EndingQuiet DEF vars
<1> QED
  BY <1>1, <1>2, <1>3, <1>4, SuperviseQuiet, BackendQuiet, CallQuiet DEF Next

\* Who ends a process that is busy and was not doomed: itself, by a crash, or
\* the launcher that has given it up.
LEMMA OnlyCrashes ==
  ASSUME TypeOK, Alone, QuietInv, [Next]_vars, NEW p \in Pid,
         proc[p].busy, proc[p].doomed = "no", proc'[p].phase = "gone"
  PROVE  Crash(p) \/ GivenUp(p)
<1>0. ~Quiet(p) /\ proc[p].phase = "serving" /\ Live(p) /\ proc'[p] # proc[p]
  BY DEF QuietInv, WorkServed, Quiet, Live
<1>1. ASSUME NEW s \in Supervisor, Supervise(s) PROVE GivenUp(p)
  <2>1. CASE Prepare(s)
    BY <1>0, <2>1 DEF Prepare, At, Alone, Position
  <2>2. CASE Boot(s)
    <3>1. PICK q \in Pid : proc'[q].phase = "starting" /\ \A r \in Pid \ {q} : proc'[r] = proc[r]
      BY <2>2 DEF Boot, Unused, TypeOK
    <3> QED
      BY <1>0, <3>1
  <2>3. CASE Abandon(s)
    <3>1. proc' = [proc EXCEPT ![sup[s].pid] = Gone]
      BY <2>3 DEF Abandon, Kill
    <3>2. sup[s].pid = p
      BY <1>0, <3>1 DEF TypeOK
    <3> QED
      BY <2>3, <3>2 DEF GivenUp
  <2>4. CASE Finish(s)
    <3>1. Quiet(sup[s].pid) /\ proc' = [proc EXCEPT ![sup[s].pid] = Gone]
      BY <2>4 DEF Finish, Kill, At, QuietInv, MarksHeeded, Heeds, Holding
    <3> QED
      BY <1>0, <3>1 DEF TypeOK
  <2>5. CASE InspectMigrates(s)
    <3>1. proc' = [proc EXCEPT ![registered].phase = "leaving"]
      BY <2>5 DEF InspectMigrates, BackendStops
    <3> QED
      BY <1>0, <3>1 DEF TypeOK, ProcRecord
  <2>6. CASE UNCHANGED proc
    BY <1>0, <2>6
  <2> QED
    BY <1>1, <2>1, <2>2, <2>3, <2>4, <2>5, <2>6
    DEF Supervise, Claim, ClaimRefused, InspectRefuses, InspectFails, InspectDone, RepairDone,
        MigrateDone, MigrateTimesOut, PrepareFails, BootFails, Register, ProbeFails,
        ProbeReady, WatchEnds,
        WatchPromotes, Judge, DecideStop, DecideRestart, DecideRecover, DecideReinstall,
        DecideRotate, DecideSetup, OpenSetup, DecideExit, Fatal, NoFileTouched
<1>2. ASSUME NEW s \in Supervisor, Launch(s) \/ LauncherDies(s) PROVE FALSE
  BY <1>0, <1>2 DEF Launch, LauncherDies
<1>3. ASSUME NEW q \in Pid, Backend(q) PROVE Crash(p)
  <2>1. proc \in [Pid -> ProcRecord]
    BY DEF TypeOK
  <2>2. CASE Crash(q)
    BY <1>0, <2>1, <2>2 DEF Crash, Kill
  <2>3. CASE ShutDown(q)
    BY <1>0, <2>1, <2>3 DEF ShutDown, Kill
  <2>4. CASE ~Crash(q) /\ ~ShutDown(q)
    BY <1>0, <1>3, <2>1, <2>4
    DEF Backend, Serve, BeginWork, EndWork, AcceptStop, AcceptRestart, BackendStops,
        BackendRestarts, SaveConfig, SaveAndRestart, ProcRecord
  <2> QED
    BY <2>2, <2>3, <2>4
<1>4. ASSUME NEW c \in Client, Call(c) PROVE FALSE
  <2>1. proc \in [Pid -> ProcRecord]
    BY DEF TypeOK
  <2>2. CASE EmergencyKills(c)
    <3>1. /\ registered = client[c].pid /\ proc' = [proc EXCEPT ![registered] = Gone]
          /\ client[c].pc = "waiting" /\ Live(registered) /\ Knows(c)
      BY <2>2 DEF EmergencyKills, Kill, Running, QuietInv, CallersKnow
    <3> QED
      BY <1>0, <2>1, <3>1 DEF Knows
  <2>3. CASE EmergencyMarks(c)
    <3>1. proc'[p] = [proc[p] EXCEPT !.doomed = "emergency"]
      BY <1>0, <2>3 DEF EmergencyMarks
    <3> QED
      BY <1>0, <2>1, <3>1 DEF ProcRecord
  <2>4. CASE ClientRestarts(c) \/ ClientStops(c)
    <3>1. proc' = [proc EXCEPT ![registered].phase = "leaving"]
      BY <2>4 DEF ClientRestarts, ClientStops, BackendStops, BackendRestarts
    <3> QED
      BY <1>0, <2>1, <3>1 DEF ProcRecord
  <2>5. CASE ClientPromotes(c)
    <3>1. proc'[p] \in {proc[p], [proc[p] EXCEPT !.doomed = "promotion"]}
      BY <2>5 DEF ClientPromotes, Promoted
    <3> QED
      BY <1>0, <2>1, <3>1 DEF ProcRecord
  <2> QED
    BY <1>0, <1>4, <2>2, <2>3, <2>4, <2>5
    DEF Call, ClientReturns, ClientForgets, ClientClears, EmergencyWarns, EmergencyEnds
<1>5. CASE StopScriptClears \/ UNCHANGED vars
  BY <1>0, <1>5 DEF StopScriptClears, vars
<1> QED
  BY <1>1, <1>2, <1>3, <1>4, <1>5 DEF Next

\* A marker that a launcher heeds is about the process it holds, and what it
\* is about to end after its watch is quiet, however late a caller, another
\* launcher or an emergency writes or deletes markers.
THEOREM QuietInductive == Spec => [](LInv /\ QuietInv)
<1>1. Init => QuietInv
  BY DEF Init, QuietInv, WorkServed, StartUnmarked, MarksHeeded, Heeds, Holding, CallersKnow,
         Knows, Gone, Off, Idle
<1>2. LInv /\ QuietInv /\ [Next]_vars => QuietInv'
  BY NextQuiet DEF LInv
<1> QED
  BY <1>1, <1>2, Inductive, PTL DEF Spec

\* An operation in progress ends with its process only by a crash, by the
\* launcher that gave the process up before it was ready, or by a marker that
\* overruled the gate of that process: no granted stop or restart, second
\* start, migration or port release ends one, for any number of launchers,
\* callers and processes.
THEOREM BusyEndsOnlyOverruled == Spec => BusyEndsAreOverruled
<1>1. LInv /\ QuietInv /\ [Next]_vars =>
        [\A p \in Pid : BusyEnd(p) /\ proc[p].doomed = "no"
                          => Crash(p) \/ GivenUp(p)]_vars
  BY OnlyCrashes DEF LInv, BusyEnd
<1> QED
  BY <1>1, QuietInductive, PTL DEF Spec, BusyEndsAreOverruled
=============================================================================
