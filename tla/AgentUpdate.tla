---------------------------- MODULE AgentUpdate ----------------------------
(***************************************************************************)
(* The Agent's files on a customer's computer.  The MSI puts a version's   *)
(* files into ServiceFiles, a package that does not run; the ConfigTool    *)
(* copies them into Service, whose exe is the one that is registered and   *)
(* runs.  AgentUpdateChecker in the Windows Service launches               *)
(* PrinterAgentUpdater.exe, which stops the service, backs ServiceFiles    *)
(* up, runs msiexec, starts the service and verifies that it runs, and     *)
(* otherwise restores the backup.  Directories are copied and deleted file *)
(* by file; any of it may fail, and the updater may die anywhere.          *)
(*                                                                         *)
(* A check that installs nothing (no release, none newer, a failed or      *)
(* unverified download, no updater on disk) changes no state and is not an *)
(* action.  msiexec is external: it installs every file or, as a           *)
(* transaction, none.  One updater runs at a time: the service that it     *)
(* starts goes through a whole cycle, downloads, and launches an updater   *)
(* that waits first, while the one before has a directory to delete.       *)
(***************************************************************************)
EXTENDS Integers, Sequences, FiniteSets

CONSTANTS
    Files,      \* the files of a version
    Versions,
    Broken,     \* the versions that do not start
    Quotas,     \* bound: how often releases are edited, the user does something
                \* and each thing fails, one function per mix that is explored
    None

\* What may go wrong: a stop times out; deleting an old backup, copying to
\* the new one, deleting ServiceFiles, copying to it, the last clean-up or
\* copying to Service fails; a start is not verified in time; the updater
\* dies; the computer restarts.
Faults == {"stop", "clear", "backup", "wipe", "restore", "clean", "copy", "slow", "kill", "reboot"}
Kinds == {"release", "user"} \cup Faults

ASSUME AgentUpdateAssumption ==
    /\ Versions \subseteq Nat /\ 1 \in Versions \ Broken
    /\ Quotas \subseteq [Kinds -> Nat]
    /\ Files # {}
    /\ None \notin Nat /\ None \notin [Files -> Versions \cup {None}]

VARIABLES
    releases,   \* AgentRelease rows by publishedAt: [version, isActive]
    \* the computer
    files,      \* ServiceFiles: the version of each file; None if there is no directory
    backup,     \* PrinterSaaS-Agent-Update-Backup, the same
    service,    \* Service, the same
    svc,        \* ServiceController.Status, "absent" when it is not registered
    marked,     \* sc delete found it running: it goes when it stops
    version,    \* AgentVersion.Current of the service's process
    \* the updater
    pc,         \* where it is, "idle" when there is none
    target,     \* --msi
    todo,       \* files CopyDirectory has still to copy
    handling,   \* in the exception handler of Program.cs
    \* the ConfigTool
    tool,       \* where InstallOrUpdate, Uninstall, Stop or Start is
    task,       \* which of them
    copying,    \* files InstallOrUpdate has still to copy
    \* observation only
    before,     \* ServiceFiles when the updater was launched
    met,        \* an installation met an update, or a package that was not whole
    struck,     \* what the user did and what failed so far
    quota

updater == <<pc, target, todo, handling, before>>
configTool == <<tool, task, copying>>
windows == <<svc, marked, version>>
vars == <<releases, files, backup, service, windows, updater, configTool, met, struck, quota>>

Directory == [Files -> Versions \cup {None}] \cup {None}
All(v) == [f \in Files |-> v]
Emptied == All(None)
Complete(dir) == \E v \in Versions : dir = All(v)

\* A directory some of whose files are deleted.
Partly(dir) ==
    IF dir = None THEN {None}
    ELSE {[f \in Files |-> IF f \in gone THEN None ELSE dir[f]] : gone \in SUBSET Files}

\* What starting the exe of a directory may come to: the version that runs, or
\* None.  A mix of versions may run as one of them.
Present(dir) == IF dir = None THEN {} ELSE {f \in Files : dir[f] # None}
Outcomes(dir) ==
    LET found == {dir[f] : f \in Files}
    IN  IF Present(dir) # Files THEN {None}
        ELSE IF Complete(dir) /\ found \cap Broken = {} THEN found
        ELSE (found \ Broken) \cup {None}

TypeOK ==
    /\ releases \in Seq([version : Versions, isActive : BOOLEAN])
    /\ files \in Directory /\ backup \in Directory /\ service \in Directory /\ before \in Directory
    /\ svc \in {"absent", "stopped", "starting", "running", "stopping"}
    /\ marked \in BOOLEAN /\ (marked => svc \notin {"absent", "stopped"})
    /\ version \in Versions \cup {None} /\ (version = None <=> svc \in {"absent", "stopped"})
    /\ pc \in {"idle", "stop", "clear", "backup", "install", "start", "clean",
               "rollback", "wipe", "restore", "restart"}
    /\ target \in Versions
    /\ todo \subseteq Files /\ (todo # {} => pc \in {"backup", "restore"})
    /\ handling \in BOOLEAN /\ (handling => pc \in {"rollback", "wipe", "restore", "restart"})
    /\ tool \in {"idle", "stop", "delete", "copy", "create", "start"}
    /\ task \in {"install", "uninstall", "stop", "start"}
    /\ tool = "stop" => task # "start"
    /\ tool \in {"delete", "copy", "create"} => task \in {"install", "uninstall"}
    /\ tool \in {"copy", "create"} => task = "install"
    /\ copying \subseteq Files /\ (copying # {} <=> tool = "copy")
    /\ met \in BOOLEAN
    /\ struck \subseteq {"user"} \cup Faults
    /\ quota \in [Kinds -> Nat]

\* The MSI and the ConfigTool have installed the first version.
Init ==
    /\ releases = <<>>
    /\ files = All(1) /\ before = All(1) /\ service = All(1)
    /\ backup = None
    /\ svc = "running" /\ version = 1 /\ marked = FALSE
    /\ pc = "idle" /\ target = 1 /\ todo = {} /\ handling = FALSE
    /\ tool = "idle" /\ task = "install" /\ copying = {}
    /\ met = FALSE
    /\ struck = {}
    /\ quota \in Quotas

Spend(kind) ==
    /\ quota[kind] > 0
    /\ quota' = [quota EXCEPT ![kind] = @ - 1]
    /\ struck' = struck \cup ({kind} \ {"release"})

Unharmed == UNCHANGED <<struck, quota>>

-----------------------------------------------------------------------------
(* The service as Windows runs it.                                         *)

Alive == svc \notin {"absent", "stopped"}

\* Its process ends.
Gone ==
    /\ svc' = IF marked THEN "absent" ELSE "stopped"
    /\ marked' = FALSE
    /\ version' = None

\* A service that is starting or stopping, or is not there, takes no Stop, and
\* the InvalidOperationException is ignored.
Stop == IF svc = "running" THEN Gone ELSE UNCHANGED windows

StopIsSlow ==
    /\ Spend("stop")
    /\ svc = "running"
    /\ svc' = "stopping"
    /\ UNCHANGED <<marked, version>>

\* Only a stopped service starts; its exe is the one in Service.
Start(running) ==
    \E v \in Outcomes(service) :
        /\ running = (svc = "stopped" /\ v # None)
        /\ svc' = IF running THEN "running" ELSE svc
        /\ version' = IF running THEN v ELSE version
        /\ UNCHANGED marked

StartIsSlow ==
    /\ Spend("slow")
    /\ svc = "stopped"
    /\ svc' = "starting"
    /\ version' \in Outcomes(service) \ {None}
    /\ UNCHANGED marked

\* A service that was too slow gets there after all, or does not.
Settle ==
    /\ \/ svc = "starting" /\ svc' = "running" /\ UNCHANGED <<marked, version>>
       \/ svc \in {"starting", "stopping"} /\ Gone
    /\ UNCHANGED <<releases, files, backup, service, updater, configTool, met>> /\ Unharmed

-----------------------------------------------------------------------------
(* Releases, and the check the service makes.                              *)

Publish(v) ==
    /\ Spend("release")
    /\ releases' = Append(releases, [version |-> v, isActive |-> TRUE])
    /\ UNCHANGED <<files, backup, service, windows, updater, configTool, met>>

Withdraw(i) ==
    /\ Spend("release")
    /\ releases[i].isActive
    /\ releases' = [releases EXCEPT ![i].isActive = FALSE]
    /\ UNCHANGED <<files, backup, service, windows, updater, configTool, met>>

IsLatestActive(i) ==
    /\ releases[i].isActive
    /\ \A j \in DOMAIN releases : releases[j].isActive => j <= i

IsNewer(candidate, current) == candidate > current

CheckAndApply(i) ==
    /\ svc = "running" /\ pc = "idle"
    /\ IsLatestActive(i)
    /\ IsNewer(releases[i].version, version)
    /\ pc' = "stop"
    /\ target' = releases[i].version
    /\ before' = files
    /\ met' = (met \/ tool # "idle")
    /\ UNCHANGED <<releases, files, backup, service, windows, todo, handling, configTool>> /\ Unharmed

-----------------------------------------------------------------------------
(* The updater.                                                            *)

\* The handler rolls back, once more if the exception was a rollback's; an
\* exception in the handler's own rollback ends the updater.
Throws ==
    /\ pc' = IF handling THEN "idle" ELSE "rollback"
    /\ handling' = ~handling
    /\ todo' = {}

Ends == pc' = "idle" /\ handling' = FALSE /\ todo' = {}

\* StopService, of the main path or of Rollback.
MayStop == pc = "stop" \/ (pc = "rollback" /\ backup # None)

StopService ==
    /\ MayStop
    /\ Stop
    /\ pc' = IF pc = "stop" THEN "clear" ELSE "wipe"
    /\ UNCHANGED <<releases, files, backup, service, target, todo, handling, before, configTool, met>>
    /\ Unharmed

StopTimesOut ==
    /\ MayStop
    /\ StopIsSlow
    /\ Throws
    /\ UNCHANGED <<releases, files, backup, service, target, before, configTool, met>>

\* Mutant: a backup that is there is kept.
ClearNothing ==
    /\ pc = "clear"
    /\ backup' = IF backup = None THEN Emptied ELSE backup
    /\ todo' = IF backup = None THEN Files ELSE {}
    /\ pc' = IF backup = None THEN "backup" ELSE "install"
    /\ UNCHANGED <<releases, files, service, windows, target, handling, before, configTool, met>>
    /\ Unharmed

\* BackUp: the old backup goes and, if there is anything to copy, the new
\* directory is there.
ClearBackup ==
    /\ pc = "clear"
    /\ backup' = IF files = None THEN None ELSE Emptied
    /\ todo' = IF files = None THEN {} ELSE Files
    /\ pc' = IF files = None THEN "install" ELSE "backup"
    /\ UNCHANGED <<releases, files, service, windows, target, handling, before, configTool, met>>
    /\ Unharmed

ClearBackupFails ==
    /\ Spend("clear")
    /\ pc = "clear" /\ backup # None
    /\ backup' \in Partly(backup)
    /\ Throws
    /\ UNCHANGED <<releases, files, service, windows, target, before, configTool, met>>

BackUpFile(f) ==
    /\ pc = "backup" /\ f \in todo
    /\ backup' = [backup EXCEPT ![f] = files[f]]
    /\ todo' = todo \ {f}
    /\ pc' = IF todo = {f} THEN "install" ELSE pc
    /\ UNCHANGED <<releases, files, service, windows, target, handling, before, configTool, met>>
    /\ Unharmed

BackUpFails ==
    /\ Spend("backup")
    /\ pc = "backup"
    /\ Throws
    /\ UNCHANGED <<releases, files, backup, service, windows, target, before, configTool, met>>

\* msiexec exits with 0 or 3010, or with anything else.
Install ==
    /\ pc = "install"
    /\ \/ pc' = "start" /\ files' = All(target)
       \/ pc' = "rollback" /\ files' = files
    /\ UNCHANGED <<releases, backup, service, windows, target, todo, handling, before, configTool, met>>
    /\ Unharmed

\* TryStartAndVerify, of the main path or of Rollback.
Starting == pc \in {"start", "restart"}

AfterStart(verified) ==
    /\ pc' = CASE pc = "start" /\ verified -> "clean"
               [] pc = "start" /\ ~verified -> "rollback"
               [] pc = "restart" -> "idle"
    /\ handling' = FALSE

StartService ==
    /\ Starting
    /\ \E verified \in BOOLEAN : Start(verified) /\ AfterStart(verified)
    /\ UNCHANGED <<releases, files, backup, service, target, todo, before, configTool, met>> /\ Unharmed

StartTimesOut ==
    /\ Starting
    /\ StartIsSlow
    /\ AfterStart(FALSE)
    /\ UNCHANGED <<releases, files, backup, service, target, todo, before, configTool, met>>

\* TryDeleteDirectory: best effort.
CleanUp ==
    /\ pc = "clean"
    /\ backup' = None
    /\ Ends
    /\ UNCHANGED <<releases, files, service, windows, target, before, configTool, met>> /\ Unharmed

CleanUpFails ==
    /\ Spend("clean")
    /\ pc = "clean"
    /\ backup' \in Partly(backup)
    /\ Ends
    /\ UNCHANGED <<releases, files, service, windows, target, before, configTool, met>>

\* Rollback without a backup leaves everything as it is.
NoBackup ==
    /\ pc = "rollback" /\ backup = None
    /\ Ends
    /\ UNCHANGED <<releases, files, backup, service, windows, target, before, configTool, met>>
    /\ Unharmed

Wipe ==
    /\ pc = "wipe"
    /\ files' = Emptied
    /\ todo' = Files
    /\ pc' = "restore"
    /\ UNCHANGED <<releases, backup, service, windows, target, handling, before, configTool, met>>
    /\ Unharmed

WipeFails ==
    /\ Spend("wipe")
    /\ pc = "wipe" /\ files # None
    /\ files' \in Partly(files)
    /\ Throws
    /\ UNCHANGED <<releases, backup, service, windows, target, before, configTool, met>>

\* Mutant: the service is left stopped.
RestoreOnly(f) ==
    /\ pc = "restore" /\ f \in todo
    /\ files' = [files EXCEPT ![f] = backup[f]]
    /\ todo' = todo \ {f}
    /\ pc' = IF todo = {f} THEN "idle" ELSE pc
    /\ handling' = (handling /\ todo # {f})
    /\ UNCHANGED <<releases, backup, service, windows, target, before, configTool, met>> /\ Unharmed

RestoreFile(f) ==
    /\ pc = "restore" /\ f \in todo
    /\ files' = [files EXCEPT ![f] = backup[f]]
    /\ todo' = todo \ {f}
    /\ pc' = IF todo = {f} THEN "restart" ELSE pc
    /\ UNCHANGED <<releases, backup, service, windows, target, handling, before, configTool, met>>
    /\ Unharmed

RestoreFails ==
    /\ Spend("restore")
    /\ pc = "restore"
    /\ Throws
    /\ UNCHANGED <<releases, files, backup, service, windows, target, before, configTool, met>>

-----------------------------------------------------------------------------
(* The ConfigTool.  Its buttons work one at a time; an exception ends what *)
(* it is doing with a message.                                             *)

Leaves == tool' = "idle" /\ task' = "install" /\ copying' = {}

\* The user presses a button; InstallOrUpdate wants the package to be there.
Press(button) ==
    /\ Spend("user")
    /\ tool = "idle"
    /\ CASE button = "install"   -> files # None
         [] button = "uninstall" -> svc # "absent"
         [] button = "stop"      -> svc = "running"
         [] button = "start"     -> svc = "stopped"
    /\ task' = button
    /\ tool' = IF button = "start" THEN "start" ELSE "stop"
    /\ met' = (met \/ (button = "install" /\ (pc # "idle" \/ ~Complete(files))))
    /\ UNCHANGED <<releases, files, backup, service, windows, updater, copying>>

StopServiceIfRunning ==
    /\ tool = "stop"
    /\ Stop
    /\ IF task = "stop" THEN Leaves ELSE tool' = "delete" /\ UNCHANGED <<task, copying>>
    /\ UNCHANGED <<releases, files, backup, service, updater, met>> /\ Unharmed

StopForToolTimesOut ==
    /\ tool = "stop"
    /\ StopIsSlow
    /\ Leaves
    /\ UNCHANGED <<releases, files, backup, service, updater, met>>

\* sc delete, whose exit code nobody looks at.
Delete ==
    /\ svc' = IF Alive THEN svc ELSE "absent"
    /\ marked' = Alive
    /\ UNCHANGED version

\* Mutant: what runs is not deleted first.
DeleteNothing ==
    /\ tool = "delete" /\ task = "install"
    /\ service' = IF service = None THEN Emptied ELSE service
    /\ copying' = Present(files)
    /\ tool' = IF copying' = {} THEN "idle" ELSE "copy"
    /\ UNCHANGED <<releases, files, backup, windows, updater, task, met>> /\ Unharmed

\* DeleteServiceIfExists, and the list of files that CopyDirectory makes.
DeleteToInstall ==
    /\ tool = "delete" /\ task = "install"
    /\ Delete
    /\ service' = IF service = None THEN Emptied ELSE service
    /\ copying' = Present(files)
    /\ tool' = IF copying' = {} THEN "idle" ELSE "copy"
    /\ UNCHANGED <<releases, files, backup, updater, task, met>> /\ Unharmed

\* The files of a running process cannot be deleted.
DeleteToRemove ==
    /\ tool = "delete" /\ task = "uninstall"
    /\ Delete
    /\ service' \in IF Alive THEN Partly(service) ELSE {None}
    /\ Leaves
    /\ UNCHANGED <<releases, files, backup, updater, met>> /\ Unharmed

CopyFile(f) ==
    /\ tool = "copy" /\ f \in copying \cap Present(files)
    /\ service' = [service EXCEPT ![f] = files[f]]
    /\ copying' = copying \ {f}
    /\ tool' = IF copying = {f} THEN "create" ELSE tool
    /\ UNCHANGED <<releases, files, backup, windows, updater, task, met>> /\ Unharmed

\* A file is gone from the package, or in use by the process, for five tries.
CopyFails ==
    /\ tool = "copy"
    /\ \/ (~(copying \subseteq Present(files)) \/ Alive) /\ Unharmed
       \/ Spend("copy")
    /\ Leaves
    /\ UNCHANGED <<releases, files, backup, service, windows, updater, met>>

CreateService ==
    /\ tool = "create" /\ svc = "absent"
    /\ svc' = "stopped"
    /\ tool' = "start"
    /\ UNCHANGED <<releases, files, backup, service, marked, version, updater, task, copying, met>>
    /\ Unharmed

\* appsettings.json or the exe is missing, or the old service is still there.
CreateFails ==
    /\ tool = "create" /\ (svc # "absent" \/ Present(service) # Files)
    /\ Leaves
    /\ UNCHANGED <<releases, files, backup, service, windows, updater, met>> /\ Unharmed

StartIfStopped ==
    /\ tool = "start"
    /\ \/ (\E running \in BOOLEAN : Start(running)) /\ Unharmed
       \/ StartIsSlow
    /\ Leaves
    /\ UNCHANGED <<releases, files, backup, service, updater, met>>

ToolStep ==
    \/ StopServiceIfRunning \/ StopForToolTimesOut \/ DeleteToInstall \/ DeleteToRemove
    \/ \E f \in Files : CopyFile(f)
    \/ CopyFails \/ CreateService \/ CreateFails \/ StartIfStopped

-----------------------------------------------------------------------------
(* The updater dies; msiexec, once started, goes on without it.            *)
Dies ==
    /\ files' \in CASE pc = "wipe" -> Partly(files)
                    [] pc = "install" -> {files, All(target)}
                    [] OTHER -> {files}
    /\ backup' \in IF pc \in {"clear", "clean"} THEN Partly(backup) ELSE {backup}
    /\ Ends

Kill ==
    /\ Spend("kill")
    /\ pc # "idle"
    /\ Dies
    /\ UNCHANGED <<releases, service, windows, target, before, configTool, met>>

\* The service is registered with start= auto.
Reboot ==
    /\ Spend("reboot")
    /\ Dies
    /\ Leaves
    /\ marked' = FALSE
    /\ IF svc = "absent" \/ marked
       THEN svc' = "absent" /\ version' = None
       ELSE /\ version' \in Outcomes(service)
            /\ svc' = IF version' = None THEN "stopped" ELSE "running"
    /\ UNCHANGED <<releases, service, target, before, met>>

-----------------------------------------------------------------------------
UpdaterStep ==
    \/ StopService \/ ClearBackup \/ Install \/ StartService \/ CleanUp
    \/ NoBackup \/ Wipe
    \/ \E f \in Files : BackUpFile(f) \/ RestoreFile(f)

Next ==
    \/ \E v \in Versions : Publish(v)
    \/ \E i \in DOMAIN releases : Withdraw(i) \/ CheckAndApply(i)
    \/ UpdaterStep
    \/ StopTimesOut \/ Settle \/ ClearBackupFails \/ BackUpFails
    \/ StartTimesOut \/ CleanUpFails \/ WipeFails \/ RestoreFails
    \/ Kill \/ Reboot
    \/ \E button \in {"install", "uninstall", "stop", "start"} : Press(button)
    \/ ToolStep

\* The updater is a program that runs.
Fairness == WF_vars(UpdaterStep)

Spec == Init /\ [][Next]_vars /\ Fairness

-----------------------------------------------------------------------------
(* Properties.                                                             *)

\* Deaths, restarts, slow starts, users, and failures of msiexec, of the
\* rollback and of the clean-up, in any order and number, leave all files of
\* some version, in ServiceFiles or in the backup.  To lose both takes a
\* failure before the backup is whole, which the handler restores all the
\* same, or an update over what a rollback that died has left: the service
\* runs from elsewhere, does not notice, and updates again.
PackageRemains ==
    struck \cap {"stop", "clear", "backup"} = {} /\ Complete(before)
        => Complete(files) \/ Complete(backup)

\* What is registered to run is all of one version, however installations
\* fail, starts race and computers restart: an installation takes the service
\* away before it touches its files.  It does not keep updates away, and may
\* copy some files before and some after msiexec.
InstalledIsWhole ==
    svc # "absent" /\ ~marked /\ ~met => Complete(service)

Consistent == TypeOK /\ PackageRemains /\ InstalledIsWhole

\* Rollback brings back what was there when the updater was launched, not the
\* new version, not a mix and not a backup some earlier update left behind.
RestoresPrevious ==
    pc = "restart" /\ struck \cap {"stop", "clear", "backup"} = {} => files = before

\* An update that nobody and nothing disturbs ends with the service running
\* again, however the releases come, go and return meanwhile, and whether the
\* new version is installed or the old one rolled back.
ComesBack == (pc = "stop") ~> struck # {} \/ (pc = "idle" /\ svc = "running")

\* "Update successful - service is running the new version" (Program.cs:61):
\* a start that is verified undisturbed is the installed version's.  The code
\* does not do this: what starts is Service, which only InstallOrUpdate copies
\* the package to.
UpdateTakesEffect ==
    pc = "clean" /\ struck = {} => svc = "running" /\ version = target
=============================================================================
