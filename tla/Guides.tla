--------------------------------- MODULE Guides ---------------------------------
(* The guided procedure of the Defender controls (remediation-guides.js):   *)
(* an apply block and a rollback block that an operator runs on an endpoint,*)
(* command after command, and that may stop after any of them. Central      *)
(* management may change the value and the protection in between.           *)
EXTENDS FiniteSets

CONSTANTS Endpoint,             \* where the blocks are run
          DomainControllers     \* those of them that are controllers
VARIABLES registry,             \* Defender's value, its protection, who set the value last
          backups,              \* the JSON files the operator holds
          block,                \* the block that runs: kind, next command, where, what it read
          desired               \* the value the control asks for
guideVars == <<registry, backups, block, desired>>

Values == {"on", "off"}         \* "unset": no Boolean is read
NoFile == [computer |-> "none", previous |-> "unset", applied |-> "unset"]
NoBlock == [kind |-> "none", next |-> "none", on |-> "none", before |-> "unset", file |-> NoFile]
GuidesInit ==
    /\ desired \in Values /\ backups = {} /\ block = NoBlock
    /\ registry \in [Endpoint -> [value : Values \cup {"unset"}, protected : {FALSE}, by : {"management"}]]
Here == registry[block.on]
\* The next command, or an exception that ends the block.
Continue(allowed, command) ==
    block' = IF allowed THEN [block EXCEPT !.next = command] ELSE NoBlock
\* Set-MpPreference: a protected endpoint keeps its value.
SetPreference(value) ==
    registry' = IF Here.protected THEN registry
                 ELSE [registry EXCEPT ![block.on].value = value, ![block.on].by = "block"]
CommandAt(kind, command) == block.kind = kind /\ block.next = command

-----------------------------------------------------------------------------
RunApply(e) ==
    /\ block = NoBlock
    /\ block' = IF e \in DomainControllers \/ registry[e].value = "unset" THEN NoBlock
                ELSE [NoBlock EXCEPT !.kind = "apply", !.next = "protection", !.on = e,
                                     !.before = registry[e].value]
    /\ UNCHANGED <<registry, backups, desired>>
RunRollback(e, file) ==
    /\ block = NoBlock
    /\ block' = IF file.computer # e \/ file.applied # desired \/ e \in DomainControllers THEN NoBlock
                ELSE [NoBlock EXCEPT !.kind = "rollback", !.next = "drift", !.on = e, !.file = file]
    /\ UNCHANGED <<registry, backups, desired>>
CheckDrift ==
    /\ CommandAt("rollback", "drift") /\ Continue(Here.value = block.file.applied, "protection")
    /\ UNCHANGED <<registry, backups, desired>>
\* The mode and Tamper Protection. Variant: the apply block sets first.
SetsFirst ==
    /\ block.next = "protection"
    /\ Continue(~Here.protected, "set") /\ UNCHANGED <<registry, backups, desired>>
CheckProtection ==
    /\ block.next = "protection"
    /\ Continue(~Here.protected, IF block.kind = "apply" THEN "backup" ELSE "set")
    /\ UNCHANGED <<registry, backups, desired>>
WriteBackup ==
    /\ CommandAt("apply", "backup") /\ Continue(TRUE, "set")
    /\ backups' = backups \cup {[computer |-> block.on, previous |-> block.before, applied |-> desired]}
    /\ UNCHANGED <<registry, desired>>
SetValue ==
    /\ block.next = "set" /\ Continue(TRUE, "confirm")
    /\ SetPreference(IF block.kind = "apply" THEN desired ELSE block.file.previous)
    /\ UNCHANGED <<backups, desired>>
\* The value is read back; an unconfirmed change is an exception too.
ConfirmValue ==
    /\ block.next = "confirm" /\ block' = NoBlock
    /\ UNCHANGED <<registry, backups, desired>>
Interrupt == block # NoBlock /\ block' = NoBlock /\ UNCHANGED <<registry, backups, desired>>
ManagementSets(e, value) ==
    /\ registry' = [registry EXCEPT ![e].value = value, ![e].by = "management"]
    /\ UNCHANGED <<backups, block, desired>>
ManagementProtects(e) ==
    /\ registry' = [registry EXCEPT ![e].protected = ~@] /\ UNCHANGED <<backups, block, desired>>
GuidesNext ==
    \/ CheckDrift \/ CheckProtection \/ WriteBackup \/ SetValue \/ ConfirmValue \/ Interrupt
    \/ \E e \in Endpoint : RunApply(e) \/ ManagementProtects(e)
    \/ \E e \in Endpoint, file \in backups : RunRollback(e, file)
    \/ \E e \in Endpoint, value \in Values : ManagementSets(e, value)
GuidesSpec == GuidesInit /\ [][GuidesNext]_guideVars

-----------------------------------------------------------------------------
(* What a block set on an endpoint is on record: wherever it was stopped and *)
(* whatever management did, there is a backup of that endpoint whose applied *)
(* or previous value it is, and a controller was never touched.              *)
ChangeHasBackup ==
    \A e \in Endpoint : registry[e].by = "block" =>
        /\ e \notin DomainControllers
        /\ \E file \in backups :
              file.computer = e /\ registry[e].value \in {file.applied, file.previous}
=============================================================================
