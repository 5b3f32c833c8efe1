-------------------------- MODULE AgentFilesProofs --------------------------
(***************************************************************************)
(* Proofs about the files the Agent keeps on its machine, in two parts.    *)
(* First AgentUpdate, for any files and versions, however often releases   *)
(* change, the user presses buttons and things fail: the types; a complete *)
(* copy of the package remains unless something fails before the backup is *)
(* whole, and Rollback then brings back what was there; what is registered *)
(* to run is whole unless an installation met an update.                   *)
(* Then OfflineQueue, for any callers, capacity and number of faults: the  *)
(* semaphore's holder works on what the file says, only a power loss tears *)
(* the file, and the file protocol implements DurableQueue.                *)
(***************************************************************************)
EXTENDS AgentUpdate, OfflineQueue, SequenceTheorems, TLAPS

\* The parts of TypeOK, which steps change together.
WindowsOK ==
    /\ svc \in {"absent", "stopped", "starting", "running", "stopping"}
    /\ marked \in BOOLEAN /\ (marked => svc \notin {"absent", "stopped"})
    /\ version \in Versions \cup {None} /\ (version = None <=> svc \in {"absent", "stopped"})

UpdaterOK ==
    /\ pc \in {"idle", "stop", "clear", "backup", "install", "start", "clean",
               "rollback", "wipe", "restore", "restart"}
    /\ target \in Versions
    /\ todo \subseteq Files /\ (todo # {} => pc \in {"backup", "restore"})
    /\ handling \in BOOLEAN /\ (handling => pc \in {"rollback", "wipe", "restore", "restart"})

ToolOK ==
    /\ tool \in {"idle", "stop", "delete", "copy", "create", "start"}
    /\ task \in {"install", "uninstall", "stop", "start"}
    /\ tool = "stop" => task # "start"
    /\ tool \in {"delete", "copy", "create"} => task \in {"install", "uninstall"}
    /\ tool \in {"copy", "create"} => task = "install"
    /\ copying \subseteq Files /\ (copying # {} <=> tool = "copy")

TablesOK ==
    /\ releases \in Seq([version : Versions, isActive : BOOLEAN])
    /\ files \in Directory /\ backup \in Directory /\ before \in Directory
    /\ met \in BOOLEAN

BoundOK == struck \subseteq {"user"} \cup Faults /\ quota \in [Kinds -> Nat]

ServiceOK == service \in Directory

LEMMA TypeParts ==
    /\ TypeOK <=> WindowsOK /\ UpdaterOK /\ ToolOK /\ TablesOK /\ BoundOK /\ ServiceOK
    /\ TypeOK' <=> WindowsOK' /\ UpdaterOK' /\ ToolOK' /\ TablesOK' /\ BoundOK' /\ ServiceOK'
  BY DEF TypeOK, WindowsOK, UpdaterOK, ToolOK, TablesOK, BoundOK, ServiceOK

\* The directories that a phase writes to are there.
Written ==
    /\ pc = "backup" => files # None /\ backup # None
    /\ pc = "wipe" => backup # None
    /\ pc = "restore" => files # None /\ backup # None

\* So is the one that an installation copies to.
ServiceWritten == tool = "copy" => service # None

TypeInv == TypeOK /\ Written /\ ServiceWritten

\* None of the faults has happened that RestoresPrevious excludes.
Sound == struck \cap {"stop", "clear", "backup"} = {}

\* What each phase of the updater may rely on.  Up to the backup ServiceFiles
\* is as it was, from then on the backup is, and between the two it is copied
\* file by file.
Kept ==
    /\ pc = "idle" /\ Complete(before) => Complete(files) \/ Complete(backup)
    /\ pc \in {"stop", "clear", "backup", "install"} => files = before
    /\ pc = "backup" => \A f \in Files \ todo : backup[f] = files[f]
    /\ pc = "install" => backup = files
    /\ pc \in {"start", "clean"} => Complete(files)
    /\ pc \in {"start", "rollback", "wipe", "restore", "restart"} => backup = before
    /\ pc = "restore" => \A f \in Files \ todo : files[f] = backup[f]
    /\ pc = "restart" => files = before

\* While the ConfigTool copies, nothing is registered that will stay; what it
\* has copied is what the package holds.
Whole ==
    /\ tool \in {"copy", "create"} => svc = "absent" \/ marked
    /\ ~met /\ tool # "idle" /\ task = "install" => pc = "idle" /\ Complete(files)
    /\ ~met /\ tool = "copy" => \A f \in Files \ copying : service[f] = files[f]
    /\ ~met /\ tool = "create" => Complete(service)
    /\ InstalledIsWhole

IInv == TypeInv /\ (Sound => Kept) /\ Whole

LEMMA AllIsDirectory ==
    /\ \A v \in Versions \cup {None} : All(v) \in [Files -> Versions \cup {None}]
    /\ \A dir : Complete(dir) => dir \in [Files -> Versions \cup {None}] /\ dir # None
    /\ Emptied \in [Files -> Versions \cup {None}]
    /\ Emptied # None
    /\ None \notin Versions
<1>1. \A v \in Versions \cup {None} : All(v) \in [Files -> Versions \cup {None}]
  BY DEF All
<1> QED
  BY <1>1, AgentUpdateAssumption DEF Complete, Emptied

\* Files that are deleted leave a directory.
LEMMA PartlyIsDirectory ==
    ASSUME NEW dir \in Directory
    PROVE  /\ Partly(dir) \subseteq Directory
           /\ dir # None => None \notin Partly(dir)
<1>1. CASE dir = None
  BY <1>1 DEF Partly, Directory
<1>2. CASE dir # None
  <2>1. dir \in [Files -> Versions \cup {None}]
    BY <1>2 DEF Directory
  <2>2. ASSUME NEW d \in Partly(dir)
        PROVE  d \in [Files -> Versions \cup {None}]
    <3>1. PICK gone \in SUBSET Files : d = [f \in Files |-> IF f \in gone THEN None ELSE dir[f]]
      BY <1>2, <2>2 DEF Partly
    <3> QED
      BY <2>1, <3>1
  <2> QED
    BY <2>2, AgentUpdateAssumption DEF Directory
<1> QED
  BY <1>1, <1>2

\* A directory starts as one of its files' versions or not at all.
LEMMA OutcomesAreVersions ==
    ASSUME NEW dir \in Directory
    PROVE  Outcomes(dir) \subseteq Versions \cup {None}
<1>1. CASE Present(dir) # Files
  BY <1>1 DEF Outcomes
<1>2. CASE Present(dir) = Files
  <2>1. dir # None
    BY <1>2, AgentUpdateAssumption DEF Present
  <2>2. \A f \in Files : dir[f] \in Versions \cup {None}
    BY <2>1 DEF Directory
  <2> QED
    BY <1>2, <2>2 DEF Outcomes
<1> QED
  BY <1>1, <1>2

AgentRelease == [version : Versions, isActive : BOOLEAN]

\* Publishing and withdrawing keep releases a sequence of releases.
LEMMA ReleaseRows ==
    ASSUME NEW rows \in Seq(AgentRelease)
    PROVE  /\ \A v \in Versions : Append(rows, [version |-> v, isActive |-> TRUE]) \in Seq(AgentRelease)
           /\ \A i \in DOMAIN rows : /\ rows[i] \in AgentRelease
                                     /\ [rows EXCEPT ![i].isActive = FALSE] \in Seq(AgentRelease)
<1>1. \A v \in Versions : [version |-> v, isActive |-> TRUE] \in AgentRelease
  BY DEF AgentRelease
<1>2. ASSUME NEW i \in DOMAIN rows
      PROVE  rows[i] \in AgentRelease /\ [rows EXCEPT ![i].isActive = FALSE] \in Seq(AgentRelease)
  <2>1. i \in 1..Len(rows) /\ rows[i] \in AgentRelease
    BY ElementOfSeq
  <2>2. [rows[i] EXCEPT !.isActive = FALSE] \in AgentRelease
    BY <2>1 DEF AgentRelease
  <2> QED
    BY <2>1, <2>2, ExceptSeq
<1> QED
  BY <1>1, <1>2, AppendProperties

LEMMA SpendTypes ==
    ASSUME NEW kind \in Kinds, Spend(kind), BoundOK
    PROVE  BoundOK' /\ struck \subseteq struck' /\ (kind \in {"stop", "clear", "backup"} => kind \in struck')
<1>1. quota' \in [Kinds -> Nat]
  BY DEF Spend, BoundOK
<1>2. struck' = struck \cup ({kind} \ {"release"})
  BY DEF Spend
<1> QED
  BY <1>1, <1>2 DEF BoundOK, Kinds

\* What Windows does with the service keeps its types.
LEMMA WindowsStep ==
    ASSUME WindowsOK, ServiceOK,
           \/ Stop \/ StopIsSlow \/ (\E running \in BOOLEAN : Start(running)) \/ StartIsSlow
           \/ Gone \/ Delete \/ UNCHANGED windows
    PROVE  WindowsOK'
<1> USE DEF WindowsOK, ServiceOK
<1>0. None \notin Versions
  BY AllIsDirectory
<1>1. CASE Stop
  BY <1>0, <1>1 DEF Stop, Gone, windows
<1>2. CASE StopIsSlow
  BY <1>0, <1>2 DEF StopIsSlow
<1>3. ASSUME NEW running \in BOOLEAN, Start(running) PROVE WindowsOK'
  <2>1. PICK v \in Outcomes(service) :
           /\ running = (svc = "stopped" /\ v # None)
           /\ svc' = IF running THEN "running" ELSE svc
           /\ version' = IF running THEN v ELSE version
           /\ UNCHANGED marked
    BY <1>3 DEF Start
  <2>2. CASE svc = "stopped" /\ v # None
    <3>1. svc' = "running" /\ version' = v /\ marked' = marked /\ v \in Versions
      BY <2>1, <2>2, OutcomesAreVersions
    <3> QED
      BY <1>0, <2>2, <3>1
  <2>3. CASE ~(svc = "stopped" /\ v # None)
    <3>1. svc' = svc /\ version' = version /\ marked' = marked
      BY <2>1, <2>3
    <3> QED
      BY <3>1
  <2> QED
    BY <2>2, <2>3
<1>4. CASE StartIsSlow
  BY <1>0, <1>4, OutcomesAreVersions DEF StartIsSlow
<1>5. CASE Gone
  BY <1>0, <1>5 DEF Gone
<1>6. CASE Delete
  BY <1>0, <1>6 DEF Delete, Alive
<1>7. CASE UNCHANGED windows
  BY <1>7 DEF windows
<1> QED
  BY <1>1, <1>2, <1>3, <1>4, <1>5, <1>6, <1>7

\* The types are inductive.
LEMMA TypeStep == TypeInv /\ [Next]_vars => TypeInv'
<1> SUFFICES ASSUME TypeInv, [Next]_vars PROVE TypeInv'
  OBVIOUS
<1>0. WindowsOK /\ UpdaterOK /\ ToolOK /\ TablesOK /\ BoundOK /\ ServiceOK /\ Written /\ ServiceWritten
  BY TypeParts DEF TypeInv
<1> SUFFICES WindowsOK' /\ UpdaterOK' /\ ToolOK' /\ TablesOK' /\ BoundOK' /\ ServiceOK' /\ Written' /\ ServiceWritten'
  BY TypeParts DEF TypeInv
<1> DEFINE Typed == WindowsOK /\ UpdaterOK /\ ToolOK /\ TablesOK /\ BoundOK /\ ServiceOK /\ Written /\ ServiceWritten
<1>1. /\ \A k \in Kinds : Spend(k) => BoundOK'
      /\ Unharmed => BoundOK'
  BY <1>0, SpendTypes DEF BoundOK, Unharmed
<1>2. \A k \in {"release", "user"} \cup Faults : k \in Kinds
  BY DEF Kinds
<1>3. /\ Spend("release") \/ Spend("user") => BoundOK'
      /\ \A k \in Faults : Spend(k) => BoundOK'
  BY <1>1, <1>2
<1>4. /\ UNCHANGED windows => WindowsOK'
      /\ Stop \/ StopIsSlow \/ StartIsSlow \/ Gone \/ Delete => WindowsOK'
      /\ \A running \in BOOLEAN : Start(running) => WindowsOK'
  BY <1>0, WindowsStep
<1>5. /\ UNCHANGED updater => UpdaterOK'
      /\ UNCHANGED configTool => ToolOK'
      /\ UNCHANGED <<releases, files, backup, before, met>> => TablesOK'
      /\ UNCHANGED service => ServiceOK'
      /\ UNCHANGED <<pc, files, backup>> => Written'
      /\ UNCHANGED <<tool, service>> => ServiceWritten'
  BY <1>0 DEF UpdaterOK, ToolOK, TablesOK, ServiceOK, Written, ServiceWritten, updater, configTool
<1>6. /\ StopIsSlow => BoundOK'
      /\ StartIsSlow => BoundOK'
  BY <1>3 DEF StopIsSlow, StartIsSlow, Faults
<1>7. ASSUME NEW v \in Versions, Publish(v) PROVE Typed'
  <2>1. releases' \in Seq(AgentRelease)
    BY <1>7, <1>0, ReleaseRows DEF Publish, TablesOK, AgentRelease
  <2>2. TablesOK'
    BY <1>7, <1>0, <2>1 DEF Publish, TablesOK, AgentRelease, updater
  <2> QED
    BY <1>7, <1>3, <1>4, <1>5, <2>2 DEF Publish, updater, configTool
<1>8. ASSUME NEW i \in DOMAIN releases, Withdraw(i) PROVE Typed'
  <2>1. releases' \in Seq(AgentRelease)
    BY <1>8, <1>0, ReleaseRows DEF Withdraw, TablesOK, AgentRelease
  <2>2. TablesOK'
    BY <1>8, <1>0, <2>1 DEF Withdraw, TablesOK, AgentRelease, updater
  <2> QED
    BY <1>8, <1>3, <1>4, <1>5, <2>2 DEF Withdraw, updater, configTool
<1>9. ASSUME NEW i \in DOMAIN releases, CheckAndApply(i) PROVE Typed'
  <2>1. releases[i].version \in Versions
    BY <1>0, ReleaseRows DEF TablesOK, AgentRelease
  <2>2. UpdaterOK' /\ TablesOK' /\ Written'
    BY <1>9, <1>0, <2>1 DEF CheckAndApply, UpdaterOK, TablesOK, Written
  <2> QED
    BY <1>9, <1>1, <1>4, <1>5, <2>2 DEF CheckAndApply, configTool
<1>10. CASE Settle
  <2>1. WindowsOK'
    BY <1>10, <1>4, <1>0 DEF Settle, WindowsOK
  <2> QED
    BY <1>10, <1>1, <1>5, <2>1 DEF Settle, updater, configTool
<1>11. CASE StopService
  <2>1. UpdaterOK' /\ TablesOK' /\ Written'
    BY <1>11, <1>0 DEF StopService, MayStop, UpdaterOK, TablesOK, Written
  <2> QED
    BY <1>11, <1>1, <1>3, <1>4, <1>5, <1>6, <2>1 DEF StopService, configTool, Faults
<1>12. CASE StopTimesOut
  <2>1. UpdaterOK' /\ TablesOK' /\ Written'
    BY <1>12, <1>0 DEF StopTimesOut, MayStop, Throws, UpdaterOK, TablesOK, Written
  <2> QED
    BY <1>12, <1>1, <1>3, <1>4, <1>5, <1>6, <2>1 DEF StopTimesOut, configTool, Faults
<1>13. CASE ClearBackup
  <2>1. UpdaterOK' /\ TablesOK' /\ Written'
    BY <1>13, <1>0, AllIsDirectory DEF ClearBackup, Directory, UpdaterOK, TablesOK, Written
  <2> QED
    BY <1>13, <1>1, <1>3, <1>4, <1>5, <1>6, <2>1 DEF ClearBackup, configTool, Faults
<1>14. CASE ClearBackupFails
  <2>1. UpdaterOK' /\ TablesOK' /\ Written'
    BY <1>14, <1>0, PartlyIsDirectory DEF ClearBackupFails, Throws, UpdaterOK, TablesOK, Written
  <2> QED
    BY <1>14, <1>1, <1>3, <1>4, <1>5, <1>6, <2>1 DEF ClearBackupFails, configTool, Faults
<1>15. ASSUME NEW f \in Files, BackUpFile(f) PROVE Typed'
  <2>1. backup \in [Files -> Versions \cup {None}] /\ files \in [Files -> Versions \cup {None}]
    BY <1>15, <1>0 DEF BackUpFile, TablesOK, Written, Directory
  <2>2. backup' \in [Files -> Versions \cup {None}]
    BY <1>15, <2>1 DEF BackUpFile
  <2>3. backup' \in Directory /\ backup' # None
    BY <2>2, AgentUpdateAssumption DEF Directory
  <2>4. UpdaterOK'
    BY <1>15, <1>0 DEF BackUpFile, UpdaterOK
  <2>5. TablesOK' /\ Written'
    BY <1>15, <1>0, <2>3 DEF BackUpFile, TablesOK, Written
  <2> QED
    BY <1>15, <1>1, <1>4, <1>5, <2>4, <2>5 DEF BackUpFile, configTool
<1>16. CASE BackUpFails
  <2>1. UpdaterOK' /\ TablesOK' /\ Written'
    BY <1>16, <1>0 DEF BackUpFails, Throws, UpdaterOK, TablesOK, Written
  <2> QED
    BY <1>16, <1>1, <1>3, <1>4, <1>5, <1>6, <2>1 DEF BackUpFails, configTool, Faults
<1>17. CASE Install
  <2>1. All(target) \in Directory
    BY <1>0, AllIsDirectory DEF UpdaterOK, Directory
  <2>2. UpdaterOK' /\ TablesOK' /\ Written'
    BY <1>17, <1>0, <2>1 DEF Install, UpdaterOK, TablesOK, Written
  <2> QED
    BY <1>17, <1>1, <1>3, <1>4, <1>5, <1>6, <2>2 DEF Install, configTool, Faults
<1>18. CASE StartService
  <2>1. UpdaterOK' /\ TablesOK' /\ Written'
    BY <1>18, <1>0 DEF StartService, Starting, AfterStart, UpdaterOK, TablesOK, Written
  <2>2. WindowsOK'
    BY <1>18, <1>4 DEF StartService
  <2> QED
    BY <1>18, <1>1, <1>5, <2>1, <2>2 DEF StartService, configTool
<1>19. CASE StartTimesOut
  <2>1. UpdaterOK' /\ TablesOK' /\ Written'
    BY <1>19, <1>0 DEF StartTimesOut, Starting, AfterStart, UpdaterOK, TablesOK, Written
  <2> QED
    BY <1>19, <1>1, <1>3, <1>4, <1>5, <1>6, <2>1 DEF StartTimesOut, configTool, Faults
<1>20. CASE CleanUp
  <2>1. UpdaterOK' /\ TablesOK' /\ Written'
    BY <1>20, <1>0 DEF CleanUp, Ends, Directory, UpdaterOK, TablesOK, Written
  <2> QED
    BY <1>20, <1>1, <1>3, <1>4, <1>5, <1>6, <2>1 DEF CleanUp, configTool, Faults
<1>21. CASE CleanUpFails
  <2>1. UpdaterOK' /\ TablesOK' /\ Written'
    BY <1>21, <1>0, PartlyIsDirectory DEF CleanUpFails, Ends, UpdaterOK, TablesOK, Written
  <2> QED
    BY <1>21, <1>1, <1>3, <1>4, <1>5, <1>6, <2>1 DEF CleanUpFails, configTool, Faults
<1>22. CASE NoBackup
  <2>1. UpdaterOK' /\ TablesOK' /\ Written'
    BY <1>22, <1>0 DEF NoBackup, Ends, UpdaterOK, TablesOK, Written
  <2> QED
    BY <1>22, <1>1, <1>3, <1>4, <1>5, <1>6, <2>1 DEF NoBackup, configTool, Faults
<1>23. CASE Wipe
  <2>1. UpdaterOK' /\ TablesOK' /\ Written'
    BY <1>23, <1>0, AllIsDirectory DEF Wipe, Directory, UpdaterOK, TablesOK, Written
  <2> QED
    BY <1>23, <1>1, <1>3, <1>4, <1>5, <1>6, <2>1 DEF Wipe, configTool, Faults
<1>24. CASE WipeFails
  <2>1. UpdaterOK' /\ TablesOK' /\ Written'
    BY <1>24, <1>0, PartlyIsDirectory DEF WipeFails, Throws, UpdaterOK, TablesOK, Written
  <2> QED
    BY <1>24, <1>1, <1>3, <1>4, <1>5, <1>6, <2>1 DEF WipeFails, configTool, Faults
<1>25. ASSUME NEW f \in Files, RestoreFile(f) PROVE Typed'
  <2>1. backup \in [Files -> Versions \cup {None}] /\ files \in [Files -> Versions \cup {None}]
    BY <1>25, <1>0 DEF RestoreFile, TablesOK, Written, Directory
  <2>2. files' \in [Files -> Versions \cup {None}]
    BY <1>25, <2>1 DEF RestoreFile
  <2>3. files' \in Directory /\ files' # None
    BY <2>2, AgentUpdateAssumption DEF Directory
  <2>4. UpdaterOK'
    BY <1>25, <1>0 DEF RestoreFile, UpdaterOK
  <2>5. TablesOK' /\ Written'
    BY <1>25, <1>0, <2>3 DEF RestoreFile, TablesOK, Written
  <2> QED
    BY <1>25, <1>1, <1>4, <1>5, <2>4, <2>5 DEF RestoreFile, configTool
<1>26. CASE RestoreFails
  <2>1. UpdaterOK' /\ TablesOK' /\ Written'
    BY <1>26, <1>0 DEF RestoreFails, Throws, UpdaterOK, TablesOK, Written
  <2> QED
    BY <1>26, <1>1, <1>3, <1>4, <1>5, <1>6, <2>1 DEF RestoreFails, configTool, Faults
<1>27. Dies => /\ files' \in Directory /\ backup' \in Directory
             /\ pc' = "idle" /\ todo' = {} /\ handling' = FALSE
  <2>1. All(target) \in Directory
    BY <1>0, AllIsDirectory DEF UpdaterOK, Directory
  <2> QED
    BY <1>0, <2>1, PartlyIsDirectory DEF Dies, Ends, TablesOK
<1>28. CASE Kill
  <2>1. UpdaterOK' /\ TablesOK' /\ Written'
    BY <1>28, <1>0, <1>27 DEF Kill, UpdaterOK, TablesOK, Written
  <2> QED
    BY <1>28, <1>3, <1>4, <1>5, <2>1 DEF Kill, configTool, Faults
<1>29. CASE Reboot
  <2>1. UpdaterOK' /\ TablesOK' /\ Written'
    BY <1>29, <1>0, <1>27 DEF Reboot, UpdaterOK, TablesOK, Written
  <2>2. ToolOK' /\ ServiceWritten'
    BY <1>29 DEF Reboot, Leaves, ToolOK, ServiceWritten
  <2>3. WindowsOK'
    <3>1. Outcomes(service) \subseteq Versions \cup {None} /\ None \notin Versions
      BY <1>0, OutcomesAreVersions, AllIsDirectory DEF ServiceOK
    <3> QED
      BY <1>29, <3>1 DEF Reboot, WindowsOK
  <2> QED
    BY <1>29, <1>3, <1>5, <2>1, <2>2, <2>3 DEF Reboot, Faults
<1>30. ASSUME NEW button \in {"install", "uninstall", "stop", "start"}, Press(button) PROVE Typed'
  <2>1. ToolOK' /\ ServiceWritten'
    BY <1>30, <1>0 DEF Press, ToolOK, ServiceWritten
  <2>2. TablesOK' /\ Written'
    BY <1>30, <1>0 DEF Press, TablesOK, Written, updater
  <2> QED
    BY <1>30, <1>3, <1>4, <1>5, <2>1, <2>2 DEF Press
<1>31. CASE StopServiceIfRunning
  <2>0. /\ service' = service
        /\ IF task = "stop" THEN Leaves ELSE tool' = "delete" /\ UNCHANGED <<task, copying>>
    BY <1>31 DEF StopServiceIfRunning
  <2>1. ToolOK' /\ ServiceOK' /\ ServiceWritten'
    <3>1. CASE task = "stop"
      BY <2>0, <3>1, <1>0 DEF Leaves, ToolOK, ServiceOK, ServiceWritten
    <3>2. CASE task # "stop"
      <4>1. tool = "stop"
        BY <1>31 DEF StopServiceIfRunning
      <4>2. tool' = "delete" /\ task' = task /\ copying' = {}
        BY <2>0, <3>2, <4>1, <1>0 DEF ToolOK
      <4>3. task' \in {"install", "uninstall"}
        BY <4>1, <4>2, <3>2, <1>0 DEF ToolOK
      <4> QED
        BY <2>0, <4>2, <4>3, <1>0 DEF ToolOK, ServiceOK, ServiceWritten
    <3> QED
      BY <3>1, <3>2
  <2> QED
    BY <1>31, <1>1, <1>4, <1>5, <2>1 DEF StopServiceIfRunning, updater
<1>32. CASE StopForToolTimesOut
  <2>1. ToolOK' /\ ServiceOK' /\ ServiceWritten'
    BY <1>32, <1>0 DEF StopForToolTimesOut, Leaves, ToolOK, ServiceOK, ServiceWritten
  <2> QED
    BY <1>32, <1>1, <1>3, <1>4, <1>5, <1>6, <2>1 DEF StopForToolTimesOut, updater, Faults
<1>33. CASE DeleteToInstall
  <2>1. copying' \subseteq Files
    BY <1>33 DEF DeleteToInstall, Present
  <2>2. ToolOK'
    BY <1>33, <1>0, <2>1 DEF DeleteToInstall, ToolOK
  <2>3. ServiceOK' /\ ServiceWritten'
    BY <1>33, <1>0, AllIsDirectory DEF DeleteToInstall, ServiceOK, ServiceWritten, Directory
  <2> QED
    BY <1>33, <1>1, <1>4, <1>5, <2>2, <2>3 DEF DeleteToInstall, updater
<1>34. CASE DeleteToRemove
  <2>1. service' \in Directory
    BY <1>34, <1>0, PartlyIsDirectory DEF DeleteToRemove, ServiceOK, Directory
  <2>2. ToolOK' /\ ServiceOK' /\ ServiceWritten'
    BY <1>34, <2>1 DEF DeleteToRemove, Leaves, ToolOK, ServiceOK, ServiceWritten
  <2> QED
    BY <1>34, <1>1, <1>4, <1>5, <2>2 DEF DeleteToRemove, updater
<1>35. ASSUME NEW f \in Files, CopyFile(f) PROVE Typed'
  <2>1. files # None /\ service # None
    BY <1>35, <1>0 DEF CopyFile, ServiceWritten, Present
  <2>2. service \in [Files -> Versions \cup {None}] /\ files \in [Files -> Versions \cup {None}]
    BY <1>0, <2>1 DEF ServiceOK, TablesOK, Directory
  <2>3. service' \in [Files -> Versions \cup {None}]
    BY <1>35, <2>2 DEF CopyFile
  <2>4. ServiceOK' /\ ServiceWritten'
    BY <2>3, AgentUpdateAssumption DEF ServiceOK, ServiceWritten, Directory
  <2>5. ToolOK'
    BY <1>35, <1>0 DEF CopyFile, ToolOK
  <2> QED
    BY <1>35, <1>1, <1>4, <1>5, <2>4, <2>5 DEF CopyFile, updater
<1>36. CASE CopyFails
  <2>1. ToolOK' /\ ServiceOK' /\ ServiceWritten'
    BY <1>36, <1>0 DEF CopyFails, Leaves, ToolOK, ServiceOK, ServiceWritten
  <2> QED
    BY <1>36, <1>1, <1>3, <1>4, <1>5, <1>6, <2>1 DEF CopyFails, updater, Faults
<1>37. CASE CreateService
  <2>1. ToolOK' /\ ServiceWritten'
    BY <1>37, <1>0 DEF CreateService, ToolOK, ServiceWritten
  <2>2. WindowsOK'
    BY <1>37, <1>0 DEF CreateService, WindowsOK
  <2> QED
    BY <1>37, <1>1, <1>5, <2>1, <2>2 DEF CreateService, updater
<1>38. CASE CreateFails
  <2>1. ToolOK' /\ ServiceOK' /\ ServiceWritten'
    BY <1>38, <1>0 DEF CreateFails, Leaves, ToolOK, ServiceOK, ServiceWritten
  <2> QED
    BY <1>38, <1>1, <1>3, <1>4, <1>5, <1>6, <2>1 DEF CreateFails, updater, Faults
<1>39. CASE StartIfStopped
  <2>1. ToolOK' /\ ServiceWritten'
    BY <1>39 DEF StartIfStopped, Leaves, ToolOK, ServiceWritten
  <2>2. WindowsOK' /\ BoundOK'
    BY <1>39, <1>1, <1>4, <1>6 DEF StartIfStopped
  <2> QED
    BY <1>39, <1>5, <2>1, <2>2 DEF StartIfStopped, updater
<1>40. CASE UNCHANGED vars
  BY <1>40, <1>0 DEF vars, windows, updater, configTool, WindowsOK, UpdaterOK, ToolOK, TablesOK,
                BoundOK, ServiceOK, Written, ServiceWritten
<1> QED
  BY <1>7, <1>8, <1>9, <1>10, <1>11, <1>12, <1>13, <1>14, <1>15, <1>16, <1>17, <1>18, <1>19, <1>20, <1>21, <1>22, <1>23, <1>24, <1>25, <1>26, <1>28, <1>29, <1>30, <1>31, <1>32, <1>33, <1>34, <1>35, <1>36, <1>37, <1>38, <1>39, <1>40 DEF Next, UpdaterStep, ToolStep

\* Each step keeps what the phases rely on, if it leaves the run sound.
LEMMA KeptStep == IInv /\ [Next]_vars => (Sound => Kept)'
<1> SUFFICES ASSUME IInv, [Next]_vars, Sound' PROVE Kept'
  OBVIOUS
<1>0. TypeOK /\ Written /\ UpdaterOK /\ TablesOK /\ BoundOK
  BY TypeParts DEF IInv, TypeInv
<1>1. \A k \in {"release", "user"} \cup Faults : Spend(k) => struck \subseteq struck' /\ k \notin {"stop", "clear", "backup"}
  BY <1>0, SpendTypes DEF Kinds, Sound
<1>2. /\ \A k \in Faults : Spend(k) => struck \subseteq struck'
      /\ Spend("release") \/ Spend("user") \/ Unharmed => struck \subseteq struck'
  BY <1>1 DEF Unharmed
<1>3. struck \subseteq struck' => Kept
  BY DEF Sound, IInv
<1>4. UNCHANGED <<files, backup, updater>> /\ struck \subseteq struck' => Kept'
  BY <1>3 DEF updater, Kept, Complete
<1>5. ~StopTimesOut /\ ~ClearBackupFails /\ ~BackUpFails
  BY <1>1 DEF StopTimesOut, StopIsSlow, ClearBackupFails, BackUpFails, Faults
<1>6. StopIsSlow \/ StartIsSlow => struck \subseteq struck'
  BY <1>2 DEF StopIsSlow, StartIsSlow, Faults
<1>7. ASSUME NEW v \in Versions, Publish(v) PROVE Kept'
  BY <1>7, <1>2, <1>4 DEF Publish
<1>8. ASSUME NEW i \in DOMAIN releases, Withdraw(i) PROVE Kept'
  BY <1>8, <1>2, <1>4 DEF Withdraw
<1>9. ASSUME NEW i \in DOMAIN releases, CheckAndApply(i) PROVE Kept'
  BY <1>9, <1>0 DEF CheckAndApply, Kept, UpdaterOK, Complete
<1>10. CASE Settle
  BY <1>10, <1>2, <1>4 DEF Settle
<1>11. CASE StopService
  <2>1. Kept
    BY <1>11, <1>2, <1>3, <1>6 DEF StopService, Faults
  <2> QED
    BY <1>11, <1>0, <2>1 DEF StopService, MayStop, Kept, UpdaterOK, Complete
<1>12. CASE ClearBackup
  <2>1. Kept
    BY <1>12, <1>2, <1>3, <1>6 DEF ClearBackup, Faults
  <2> QED
    BY <1>12, <1>0, <2>1, AllIsDirectory DEF ClearBackup, Kept, UpdaterOK, Complete
<1>13. CASE Install
  <2>1. Kept /\ Complete(All(target))
    BY <1>13, <1>0, <1>2, <1>3 DEF Install, UpdaterOK, Complete
  <2> QED
    BY <1>13, <1>0, <2>1 DEF Install, Kept, UpdaterOK
<1>14. CASE StartService
  <2>1. Kept
    BY <1>14, <1>2, <1>3, <1>6 DEF StartService, Faults
  <2> QED
    BY <1>14, <1>0, <2>1 DEF StartService, Starting, AfterStart, Kept, UpdaterOK, Complete
<1>15. CASE StartTimesOut
  <2>1. Kept
    BY <1>15, <1>2, <1>3, <1>6 DEF StartTimesOut, Faults
  <2> QED
    BY <1>15, <1>0, <2>1 DEF StartTimesOut, Starting, AfterStart, Kept, UpdaterOK, Complete
<1>16. CASE CleanUp
  <2>1. Kept
    BY <1>16, <1>2, <1>3, <1>6 DEF CleanUp, Faults
  <2> QED
    BY <1>16, <1>0, <2>1 DEF CleanUp, Ends, Kept, UpdaterOK, Complete
<1>17. CASE CleanUpFails
  <2>1. Kept
    BY <1>17, <1>2, <1>3, <1>6 DEF CleanUpFails, Faults
  <2> QED
    BY <1>17, <1>0, <2>1 DEF CleanUpFails, Ends, Kept, UpdaterOK, Complete
<1>18. CASE NoBackup
  <2>1. Kept /\ (Complete(before) => before # None)
    BY <1>18, <1>2, <1>3, AllIsDirectory DEF NoBackup, Sound
  <2> QED
    BY <1>18, <2>1 DEF NoBackup, Ends, Kept
<1>19. CASE Wipe
  <2>1. Kept
    BY <1>19, <1>2, <1>3, <1>6 DEF Wipe, Faults
  <2> QED
    BY <1>19, <1>0, <2>1 DEF Wipe, Kept, UpdaterOK, Complete
<1>20. CASE WipeFails
  <2>1. Kept
    BY <1>20, <1>2, <1>3, <1>6 DEF WipeFails, Faults
  <2> QED
    BY <1>20, <1>0, <2>1 DEF WipeFails, Throws, Kept, UpdaterOK, Complete
<1>21. CASE RestoreFails
  <2>1. Kept
    BY <1>21, <1>2, <1>3, <1>6 DEF RestoreFails, Faults
  <2> QED
    BY <1>21, <1>0, <2>1 DEF RestoreFails, Throws, Kept, UpdaterOK, Complete
<1>22. ASSUME NEW f \in Files, BackUpFile(f) PROVE Kept'
  <2>1. Kept /\ pc = "backup"
    BY <1>22, <1>2, <1>3 DEF BackUpFile
  <2>2. backup \in [Files -> Versions \cup {None}] /\ files \in [Files -> Versions \cup {None}]
    BY <1>0, <2>1 DEF TablesOK, Written, Directory
  <2>3. backup' = [backup EXCEPT ![f] = files[f]] /\ files' = files /\ todo' = todo \ {f}
    BY <1>22 DEF BackUpFile
  <2>4. \A g \in Files \ todo' : backup'[g] = files'[g]
    BY <2>1, <2>2, <2>3 DEF Kept
  <2>5. todo' = {} => backup' = files'
    BY <2>2, <2>3, <2>4
  <2>6. pc' = "install" => todo' = {}
    BY <1>22, <2>1, <2>3 DEF BackUpFile
  <2>7. pc' \in {pc, "install"} /\ before' = before
    BY <1>22 DEF BackUpFile
  <2> QED
    BY <2>1, <2>3, <2>4, <2>5, <2>6, <2>7 DEF Kept
<1>23. ASSUME NEW f \in Files, RestoreFile(f) PROVE Kept'
  <2>1. Kept /\ pc = "restore"
    BY <1>23, <1>2, <1>3 DEF RestoreFile
  <2>2. backup \in [Files -> Versions \cup {None}] /\ files \in [Files -> Versions \cup {None}]
    BY <1>0, <2>1 DEF TablesOK, Written, Directory
  <2>3. files' = [files EXCEPT ![f] = backup[f]] /\ backup' = backup /\ todo' = todo \ {f}
    BY <1>23 DEF RestoreFile
  <2>4. \A g \in Files \ todo' : files'[g] = backup'[g]
    BY <2>1, <2>2, <2>3 DEF Kept
  <2>5. todo' = {} => files' = backup'
    BY <2>2, <2>3, <2>4
  <2>6. pc' = "restart" => todo' = {}
    BY <1>23, <2>1, <2>3 DEF RestoreFile
  <2>7. pc' \in {pc, "restart"} /\ before' = before
    BY <1>23 DEF RestoreFile
  <2> QED
    BY <2>1, <2>3, <2>4, <2>5, <2>6, <2>7 DEF Kept
<1>24. ASSUME Kept, Dies PROVE pc' = "idle" /\ (Complete(before) => Complete(files)' \/ Complete(backup)')
  <2>1. Complete(All(target))
    BY <1>0 DEF Complete, UpdaterOK
  <2> QED
    BY <1>0, <1>24, <2>1 DEF Dies, Ends, Kept, UpdaterOK, Sound
<1>25. CASE Kill
  <2>1. Kept /\ Dies /\ before' = before
    BY <1>25, <1>2, <1>3 DEF Kill, Sound, Faults
  <2> QED
    BY <1>24, <2>1 DEF Kept
<1>26. CASE Reboot
  <2>1. Kept /\ Dies /\ before' = before
    BY <1>26, <1>2, <1>3 DEF Reboot, Sound, Faults
  <2> QED
    BY <1>24, <2>1 DEF Kept
<1>27. ASSUME NEW button \in {"install", "uninstall", "stop", "start"}, Press(button) PROVE Kept'
  BY <1>27, <1>2, <1>4 DEF Press
<1>28. CASE StopServiceIfRunning
  BY <1>28, <1>2, <1>4, <1>6 DEF StopServiceIfRunning
<1>29. CASE StopForToolTimesOut
  BY <1>29, <1>2, <1>4, <1>6 DEF StopForToolTimesOut
<1>30. CASE DeleteToInstall
  BY <1>30, <1>2, <1>4, <1>6 DEF DeleteToInstall
<1>31. CASE DeleteToRemove
  BY <1>31, <1>2, <1>4, <1>6 DEF DeleteToRemove
<1>32. ASSUME NEW f \in Files, CopyFile(f) PROVE Kept'
  BY <1>32, <1>2, <1>4 DEF CopyFile
<1>33. CASE CopyFails
  BY <1>33, <1>2, <1>4, <1>6 DEF CopyFails, Faults
<1>34. CASE CreateService
  BY <1>34, <1>2, <1>4, <1>6 DEF CreateService
<1>35. CASE CreateFails
  BY <1>35, <1>2, <1>4, <1>6 DEF CreateFails
<1>36. CASE StartIfStopped
  BY <1>36, <1>2, <1>4, <1>6 DEF StartIfStopped
<1>37. CASE UNCHANGED vars
  BY <1>37, <1>4 DEF vars, updater
<1> QED
  BY <1>5, <1>7, <1>8, <1>9, <1>10, <1>11, <1>12, <1>13, <1>14, <1>15, <1>16, <1>17, <1>18, <1>19, <1>20, <1>21, <1>22, <1>23, <1>25, <1>26, <1>27, <1>28, <1>29, <1>30, <1>31, <1>32, <1>33, <1>34, <1>35, <1>36, <1>37 DEF Next, UpdaterStep, ToolStep

Registered == svc # "absent" /\ ~marked

\* Only CreateService registers the service.
LEMMA WindowsRegisterNothing ==
    ASSUME WindowsOK,
           \/ Stop \/ StopIsSlow \/ (\E running \in BOOLEAN : Start(running)) \/ StartIsSlow
           \/ Delete \/ UNCHANGED windows
    PROVE  Registered' => Registered
<1>1. CASE Stop
  BY <1>1 DEF Stop, Gone, windows, Registered
<1>2. CASE StopIsSlow
  BY <1>2 DEF StopIsSlow, Registered
<1>3. ASSUME NEW running \in BOOLEAN, Start(running) PROVE Registered' => Registered
  <2>1. marked' = marked /\ (svc' = svc \/ svc = "stopped")
    BY <1>3 DEF Start
  <2> QED
    BY <2>1 DEF Registered
<1>4. CASE StartIsSlow
  BY <1>4 DEF StartIsSlow, Registered
<1>5. CASE Delete
  BY <1>5 DEF Delete, Alive, Registered
<1>6. CASE UNCHANGED windows
  BY <1>6 DEF windows, Registered
<1> QED
  BY <1>1, <1>2, <1>3, <1>4, <1>5, <1>6

\* What is registered stays whole: the updater and Windows do not touch it, and
\* an installation that meets no update copies one version.
LEMMA WholeStep == IInv /\ [Next]_vars => Whole'
<1> SUFFICES ASSUME IInv, [Next]_vars PROVE Whole'
  OBVIOUS
<1>0. WindowsOK /\ UpdaterOK /\ ToolOK /\ TablesOK /\ ServiceOK /\ ServiceWritten /\ Whole
  BY TypeParts DEF IInv, TypeInv
<1>1. /\ Stop \/ StopIsSlow \/ StartIsSlow \/ Delete \/ UNCHANGED windows => (Registered' => Registered)
      /\ (\E running \in BOOLEAN : Start(running)) => (Registered' => Registered)
  BY <1>0, WindowsRegisterNothing
<1>2. /\ UNCHANGED <<service, configTool, met>>
      /\ UNCHANGED <<files, pc>> \/ pc # "idle"
      /\ Registered' => Registered
      => Whole'
  <2> SUFFICES ASSUME UNCHANGED <<service, configTool, met>>,
                      UNCHANGED <<files, pc>> \/ pc # "idle",
                      Registered' => Registered
               PROVE  Whole'
    OBVIOUS
  <2>1. CASE UNCHANGED <<files, pc>>
    BY <1>0, <2>1 DEF Whole, Registered, InstalledIsWhole, Complete, configTool
  <2>2. CASE pc # "idle"
    BY <1>0, <2>2 DEF Whole, Registered, InstalledIsWhole, Complete, configTool, ToolOK
  <2> QED
    BY <2>1, <2>2
<1>3. /\ tool' = "idle" /\ UNCHANGED <<service, met>>
      /\ Registered' => Registered
      => Whole'
  BY <1>0 DEF Whole, Registered, InstalledIsWhole, Complete
<1>4. ASSUME NEW v \in Versions, Publish(v) PROVE Whole'
  BY <1>4, <1>1, <1>2 DEF Publish, updater
<1>5. ASSUME NEW i \in DOMAIN releases, Withdraw(i) PROVE Whole'
  BY <1>5, <1>1, <1>2 DEF Withdraw, updater
<1>6. ASSUME NEW i \in DOMAIN releases, CheckAndApply(i) PROVE Whole'
  <2>1. UNCHANGED <<windows, service, configTool>> /\ met' = (met \/ tool # "idle")
    BY <1>6 DEF CheckAndApply
  <2> QED
    BY <1>0, <2>1 DEF windows, configTool, Whole, InstalledIsWhole, Complete
<1>7. CASE Settle
  <2>1. Registered' => Registered
    BY <1>7 DEF Settle, Gone, Registered
  <2> QED
    BY <1>7, <1>2, <2>1 DEF Settle, updater
<1>8. CASE StopService
  BY <1>8, <1>1, <1>2 DEF StopService, MayStop
<1>9. CASE StopTimesOut
  BY <1>9, <1>1, <1>2 DEF StopTimesOut, MayStop
<1>10. CASE ClearBackup
  BY <1>10, <1>1, <1>2 DEF ClearBackup
<1>11. CASE ClearBackupFails
  BY <1>11, <1>1, <1>2 DEF ClearBackupFails
<1>12. CASE BackUpFails
  BY <1>12, <1>1, <1>2 DEF BackUpFails
<1>13. CASE Install
  BY <1>13, <1>1, <1>2 DEF Install
<1>14. CASE StartService
  BY <1>14, <1>1, <1>2 DEF StartService, Starting
<1>15. CASE StartTimesOut
  BY <1>15, <1>1, <1>2 DEF StartTimesOut, Starting
<1>16. CASE CleanUp
  BY <1>16, <1>1, <1>2 DEF CleanUp
<1>17. CASE CleanUpFails
  BY <1>17, <1>1, <1>2 DEF CleanUpFails
<1>18. CASE NoBackup
  BY <1>18, <1>1, <1>2 DEF NoBackup
<1>19. CASE Wipe
  BY <1>19, <1>1, <1>2 DEF Wipe
<1>20. CASE WipeFails
  BY <1>20, <1>1, <1>2 DEF WipeFails
<1>21. CASE RestoreFails
  BY <1>21, <1>1, <1>2 DEF RestoreFails
<1>22. CASE Kill
  BY <1>22, <1>1, <1>2 DEF Kill
<1>23. ASSUME NEW f \in Files, BackUpFile(f) PROVE Whole'
  BY <1>23, <1>1, <1>2 DEF BackUpFile
<1>24. ASSUME NEW f \in Files, RestoreFile(f) PROVE Whole'
  BY <1>24, <1>1, <1>2 DEF RestoreFile
<1>25. CASE Reboot
  <2>1. Registered' => Registered
    BY <1>25 DEF Reboot, Registered
  <2> QED
    BY <1>25, <1>3, <2>1 DEF Reboot, Leaves
<1>26. ASSUME NEW button \in {"install", "uninstall", "stop", "start"}, Press(button) PROVE Whole'
  <2>1. /\ tool' \in {"stop", "start"} /\ task' = button
        /\ UNCHANGED <<service, windows, files, pc>>
        /\ met' = (met \/ (button = "install" /\ (pc # "idle" \/ ~Complete(files))))
    BY <1>26 DEF Press, updater
  <2>2. ~met' /\ task' = "install" => pc' = "idle" /\ Complete(files)'
    BY <2>1 DEF Complete
  <2> QED
    BY <1>0, <2>1, <2>2 DEF Whole, InstalledIsWhole, Complete, windows
<1>27. CASE StopServiceIfRunning
  <2>1. /\ UNCHANGED <<service, met, files, pc>>
        /\ tool' = "idle" \/ (tool' = "delete" /\ task' = task /\ tool = "stop")
    BY <1>27 DEF StopServiceIfRunning, Leaves, updater
  <2>2. Registered' => Registered
    BY <1>27, <1>1 DEF StopServiceIfRunning
  <2>3. CASE tool' = "idle"
    BY <1>3, <2>1, <2>2, <2>3
  <2>4. CASE tool' = "delete"
    BY <1>0, <2>1, <2>2, <2>4 DEF Whole, InstalledIsWhole, Registered, Complete
  <2> QED
    BY <2>1, <2>3, <2>4
<1>28. CASE StopForToolTimesOut
  BY <1>28, <1>1, <1>3 DEF StopForToolTimesOut, Leaves
<1>29. CASE CopyFails
  BY <1>29, <1>1, <1>3 DEF CopyFails, Leaves
<1>30. CASE CreateFails
  BY <1>30, <1>1, <1>3 DEF CreateFails, Leaves
<1>31. CASE StartIfStopped
  BY <1>31, <1>1, <1>3 DEF StartIfStopped, Leaves
<1>32. CASE DeleteToInstall
  <2>1. ~Registered'
    BY <1>32 DEF DeleteToInstall, Delete, Alive, Registered
  <2>2. /\ UNCHANGED <<files, pc, task, met>> /\ tool = "delete" /\ task = "install"
        /\ copying' = Present(files) /\ tool' = IF copying' = {} THEN "idle" ELSE "copy"
    BY <1>32 DEF DeleteToInstall, updater
  <2>3. ~met => pc = "idle" /\ Complete(files)
    BY <1>0, <2>2 DEF Whole
  <2>4. Complete(files) => copying' = Files
    BY <2>2, AllIsDirectory DEF Complete, All, Present
  <2> QED
    BY <2>1, <2>2, <2>3, <2>4 DEF Whole, InstalledIsWhole, Registered, Complete
<1>33. CASE DeleteToRemove
  <2>1. ~Registered' /\ tool' = "idle"
    BY <1>33 DEF DeleteToRemove, Leaves, Delete, Alive, Registered
  <2> QED
    BY <2>1 DEF Whole, InstalledIsWhole, Registered
<1>34. ASSUME NEW f \in Files, CopyFile(f) PROVE Whole'
  <2>1. /\ UNCHANGED <<files, pc, task, met, svc, marked>> /\ tool = "copy" /\ files # None
        /\ service' = [service EXCEPT ![f] = files[f]]
        /\ copying' = copying \ {f} /\ tool' = IF copying = {f} THEN "create" ELSE tool
    BY <1>34 DEF CopyFile, updater, windows, Present
  <2>2. service \in [Files -> Versions \cup {None}] /\ files \in [Files -> Versions \cup {None}]
    BY <1>0, <2>1 DEF ServiceOK, ServiceWritten, TablesOK, Directory
  <2>3. ~Registered'
    BY <1>0, <2>1 DEF Whole, Registered
  <2>4. ~met => pc = "idle" /\ Complete(files) /\ \A g \in Files \ copying' : service'[g] = files[g]
    BY <1>0, <2>1, <2>2 DEF Whole, ToolOK
  <2>5. ~met /\ tool' = "create" => service' = files
    BY <2>1, <2>2, <2>4
  <2> QED
    BY <1>0, <2>1, <2>3, <2>4, <2>5 DEF Whole, InstalledIsWhole, Registered, Complete
<1>35. CASE CreateService
  <2>1. /\ UNCHANGED <<files, pc, task, met, service>> /\ tool = "create" /\ tool' = "start"
    BY <1>35 DEF CreateService, updater
  <2>2. ~met => Complete(service)
    BY <1>0, <2>1 DEF Whole
  <2> QED
    BY <1>0, <2>1, <2>2 DEF Whole, InstalledIsWhole, Complete
<1>36. CASE UNCHANGED vars
  BY <1>36, <1>1, <1>2 DEF vars, updater
<1> QED
  BY <1>4, <1>5, <1>6, <1>7, <1>8, <1>9, <1>10, <1>11, <1>12, <1>13, <1>14, <1>15, <1>16, <1>17, <1>18, <1>19, <1>20, <1>21, <1>22, <1>23, <1>24, <1>25, <1>26, <1>27, <1>28, <1>29, <1>30, <1>31, <1>32, <1>33, <1>34, <1>35, <1>36 DEF Next, UpdaterStep, ToolStep

\* The inductive invariant holds, for any number of files and versions.
THEOREM Inductive == Spec => []IInv
<1>1. Init => IInv
  <2>1. All(1) \in Directory /\ 1 \in Versions /\ Complete(All(1))
    BY AllIsDirectory, AgentUpdateAssumption DEF Directory, Complete
  <2>2. quota \in Quotas => quota \in [Kinds -> Nat]
    BY AgentUpdateAssumption
  <2>3. <<>> \in Seq([version : Versions, isActive : BOOLEAN])
    BY EmptySeq
  <2>4. None \in Directory /\ None \notin Versions
    BY AllIsDirectory DEF Directory
  <2>5. Init => TypeInv
    BY <2>1, <2>2, <2>3, <2>4 DEF Init, TypeInv, TypeOK, Written, ServiceWritten
  <2>6. Init => Kept /\ Whole
    BY <2>1 DEF Init, Kept, Whole, InstalledIsWhole
  <2> QED
    BY <2>5, <2>6 DEF IInv
<1>2. IInv /\ [Next]_vars => IInv'
  <2> SUFFICES ASSUME IInv, [Next]_vars PROVE IInv'
    OBVIOUS
  <2>1. TypeInv'
    BY TypeStep DEF IInv
  <2>2. (Sound => Kept)' /\ Whole'
    BY KeptStep, WholeStep
  <2> QED
    BY <2>1, <2>2 DEF IInv
<1> QED
  BY <1>1, <1>2, PTL DEF Spec

\* The variables of the update and of the installation always have their types.
THEOREM TypeCorrect == Spec => []TypeOK
<1>1. IInv => TypeOK
  BY DEF IInv, TypeInv
<1> QED
  BY <1>1, Inductive, PTL

\* Unless something fails before the backup is whole, or the update began with a
\* package that was not, a complete copy of the package remains, whenever and
\* however often the updater dies, the computer restarts, or msiexec, the
\* rollback or the clean-up fails; and what is registered to run is whole
\* unless an installation met an update.
THEOREM AlwaysConsistent == Spec => []Consistent
<1>1. IInv => PackageRemains
  BY DEF IInv, TypeInv, TypeOK, Kept, Sound, PackageRemains
<1>2. IInv => Consistent
  BY <1>1 DEF IInv, TypeInv, Whole, Consistent
<1> QED
  BY <1>2, Inductive, PTL

\* When Rollback starts the service again, the package is what it was at the
\* launch, if nothing failed before the backup was whole.
THEOREM RollbackRestores == Spec => []RestoresPrevious
<1>1. IInv => RestoresPrevious
  BY DEF IInv, Kept, Sound, RestoresPrevious
<1> QED
  BY <1>1, Inductive, PTL

-----------------------------------------------------------------------------
(* The second part: OfflineQueue.                                           *)

\* The overflow rule returns a list of the same batches.
LEMMA KeepNewestType ==
    ASSUME NEW S, NEW s \in Seq(S), NEW max \in Nat
    PROVE  KeepNewest(s, max) \in Seq(S)
<1>1. CASE Len(s) > max
  <2>1. Len(s) - max + 1 \in 1..(Len(s) + 1) /\ Len(s) \in Nat
    BY <1>1
  <2>2. SubSeq(s, Len(s) - max + 1, Len(s)) \in Seq(S)
    BY <2>1
  <2>3. QED  BY <1>1, <2>2 DEF KeepNewest
<1>2. CASE ~(Len(s) > max)
  BY <1>2 DEF KeepNewest
<1>3. QED  BY <1>1, <1>2

\* What an operation writes is a list of batches.
LEMMA RewrittenType ==
    ASSUME QueueTypeOK, NEW c \in Callers
    PROVE  Rewritten(c) \in List
<1>1. pending[c] \in List /\ arg[c] \in List /\ op[c] \in Operations
  BY DEF QueueTypeOK
<1>2. pending[c] \o arg[c] \in List /\ arg[c] \o pending[c] \in List /\ <<>> \in List
  BY <1>1 DEF List
<1>3. KeepNewest(pending[c] \o arg[c], MaxEntries) \in List
  BY <1>2, KeepNewestType, QueueAssumption DEF List
<1>4. QED  BY <1>1, <1>2, <1>3 DEF Rewritten, Operations

\* Taking a batch out of a list leaves a list.
LEMMA WithoutType ==
    ASSUME NEW S, NEW s \in Seq(S), NEW i \in DOMAIN s
    PROVE  Without(s, i) \in Seq(S)
<1>1. i \in 1..Len(s) /\ Len(s) \in Nat
  OBVIOUS
<1>2. SubSeq(s, 1, i - 1) \in Seq(S) /\ SubSeq(s, i + 1, Len(s)) \in Seq(S)
  BY <1>1
<1>3. QED  BY <1>2 DEF Without

LEMMA InitQueueIInv == QueueInit => QueueIInv
<1>1. SUFFICES ASSUME QueueInit PROVE QueueIInv
  OBVIOUS
<1>2. Missing \in File /\ <<>> \in List
  BY DEF Missing, File, List
<1>3. QueueTypeOK
  BY <1>1, <1>2, QueueAssumption DEF QueueInit, QueueTypeOK, Operations
<1>4. QED
  BY <1>1, <1>3 DEF QueueInit, QueueIInv, QueueConsistent, WorksOnCurrentFile,
     HolderWorks, TempIsWhole,
                    HandsUntouched, InOperation

\* A caller with free hands calls an operation, a caller that holds batches
\* requeues them.
LEMMA QueueCall ==
    ASSUME QueueIInv, NEW c \in Callers,
           CallEnqueue(c) \/ CallDrain(c) \/ CallRequeue(c)
    PROVE  QueueIInv'
<1> USE DEF QueueIInv, QueueConsistent
<1>1. PICK o \in Operations, a \in List :
        /\ Call(c, o, a)
        /\ next' \in 1..(MaxBatches + 1)
        /\ held' = held
        /\ \/ o = "Enqueue" /\ \E b \in Batch : a = <<b>>
           \/ o = "Drain" /\ held[c] = <<>>
           \/ o = "Requeue" /\ a = held[c]
  <2>1. CASE CallEnqueue(c)
    <3>1. next \in Batch /\ next' \in 1..(MaxBatches + 1)
      BY <2>1, QueueAssumption DEF CallEnqueue, Batch, QueueTypeOK
    <3>2. <<next>> \in List
      BY <3>1 DEF List
    <3>3. QED  BY <2>1, <3>1, <3>2 DEF CallEnqueue, Operations
  <2>2. CASE CallDrain(c)
    BY <2>2 DEF CallDrain, Operations, List, QueueTypeOK
  <2>3. CASE CallRequeue(c)
    BY <2>3 DEF CallRequeue, Operations, QueueTypeOK
  <2>4. QED  BY <2>1, <2>2, <2>3
<1>2. /\ at[c] = "idle" /\ at' = [at EXCEPT ![c] = "wait"]
      /\ op' = [op EXCEPT ![c] = o] /\ arg' = [arg EXCEPT ![c] = a]
      /\ UNCHANGED <<file, synced, tmp, lock, pending, unread, held, faults, losses>>
  BY <1>1 DEF Call, Goto
<1>3. QueueTypeOK'
  BY <1>1, <1>2 DEF QueueTypeOK
<1>4. \A d \in Callers : d # c => at'[d] = at[d] /\ op'[d] = op[d] /\ arg'[d] = arg[d]
  BY <1>2 DEF QueueTypeOK
<1>5. at'[c] = "wait" /\ op'[c] = o /\ arg'[c] = a
  BY <1>2 DEF QueueTypeOK
<1>6. WorksOnCurrentFile' /\ HolderWorks'
  BY <1>2, <1>4, <1>5 DEF WorksOnCurrentFile, HolderWorks, ReadAll
<1>7. TempIsWhole'
  BY <1>2, <1>4, <1>5 DEF TempIsWhole, Rewritten, WholeFile
<1>8. HandsUntouched'
  BY <1>1, <1>2, <1>4, <1>5 DEF HandsUntouched, InOperation, Batch
<1>9. QED  BY <1>3, <1>6, <1>7, <1>8

LEMMA QueueDeliver ==
    ASSUME QueueIInv, NEW c \in Callers, Deliver(c)
    PROVE  QueueIInv'
<1> USE DEF QueueIInv, QueueConsistent
<1>1. PICK i \in DOMAIN held[c] : held' = [held EXCEPT ![c] = Without(held[c], i)]
  BY DEF Deliver
<1>2. held[c] \in Seq(Batch)
  BY DEF QueueTypeOK, List
<1>3. Without(held[c], i) \in List
  BY <1>2, WithoutType DEF List
<1>4. at[c] = "idle" /\ UNCHANGED <<file, synced, tmp, lock, at, op, arg, pending, unread, next, faults, losses>>
  BY DEF Deliver
<1>5. QueueTypeOK'
  BY <1>1, <1>3, <1>4 DEF QueueTypeOK
<1>6. \A d \in Callers : d # c => held'[d] = held[d]
  BY <1>1 DEF QueueTypeOK
<1>7. WorksOnCurrentFile' /\ HolderWorks' /\ TempIsWhole'
  BY <1>4 DEF WorksOnCurrentFile, HolderWorks, ReadAll, TempIsWhole,
     Rewritten, WholeFile
<1>8. HandsUntouched'
  BY <1>4, <1>6 DEF HandsUntouched, InOperation, Batch
<1>9. QED  BY <1>5, <1>7, <1>8

\* The steps of one operation: the holder of the semaphore is the only one
\* that reads and writes the files.
LEMMA QueueStep ==
    ASSUME QueueIInv, NEW c \in Callers, Step(c) \/ ReadFails(c) \/ IOError(c)
    PROVE  QueueIInv'
<1> USE DEF QueueIInv, QueueConsistent
<1>0. \A d \in Callers : at[d] \in {"idle", "wait", "read", "create", "serialize", "move", "release"}
  BY DEF QueueTypeOK
<1>1. \A d \in Callers : d # c /\ lock \in {c, NoCaller} => at[d] \in {"idle", "wait"}
  BY <1>0, QueueAssumption DEF HolderWorks
<1>2. CASE WaitAsync(c)
  <2>1. /\ lock = NoCaller /\ lock' = c /\ at[c] = "wait" /\ at' = [at EXCEPT ![c] = "read"]
        /\ UNCHANGED <<file, synced, tmp, op, arg, pending, unread, held, next, faults, losses>>
    BY <1>2 DEF WaitAsync, Goto
  <2>2. QueueTypeOK'
    BY <2>1 DEF QueueTypeOK
  <2>3. at'[c] = "read" /\ \A d \in Callers : d # c => at'[d] = at[d] /\ at'[d] \in {"idle", "wait"}
    BY <1>1, <2>1 DEF QueueTypeOK
  <2>4. WorksOnCurrentFile' /\ HolderWorks' /\ TempIsWhole'
    BY <2>1, <2>3 DEF WorksOnCurrentFile, HolderWorks, TempIsWhole
  <2>5. HandsUntouched'
    BY <2>1, <2>3 DEF HandsUntouched, InOperation, Batch
  <2>6. QED  BY <2>2, <2>4, <2>5
<1>3. CASE ReadAllAsync(c)
  <2>1. /\ at[c] = "read" /\ at' = [at EXCEPT ![c] = "create"] /\ pending' = [pending EXCEPT ![c] = ReadAll]
        /\ UNCHANGED <<file, synced, tmp, lock, op, arg, unread, held, next, faults, losses>>
    BY <1>3 DEF ReadAllAsync, Goto
  <2>2. ReadAll \in List
    BY DEF ReadAll, QueueTypeOK, File, List
  <2>3. QueueTypeOK'
    BY <2>1, <2>2 DEF QueueTypeOK
  <2>4. at'[c] = "create" /\ \A d \in Callers : d # c => at'[d] = at[d] /\ at'[d] \in {"idle", "wait"}
    BY <1>1, <2>1 DEF QueueTypeOK, HolderWorks
  <2>5. pending'[c] = ReadAll /\ ReadAll' = ReadAll
    BY <2>1 DEF QueueTypeOK, ReadAll
  <2>6. WorksOnCurrentFile' /\ HolderWorks' /\ TempIsWhole'
    BY <2>1, <2>4, <2>5 DEF WorksOnCurrentFile, HolderWorks, TempIsWhole
  <2>7. HandsUntouched'
    BY <2>1, <2>4 DEF HandsUntouched, InOperation, Batch
  <2>8. QED  BY <2>3, <2>6, <2>7
<1>9. CASE ReadFails(c)
  <2>1. /\ at[c] = "read" /\ at' = [at EXCEPT ![c] = "create"] /\ pending' = [pending EXCEPT ![c] = <<>>]
        /\ unread' = [unread EXCEPT ![c] = TRUE] /\ ReadAll # <<>> /\ faults < MaxFaults /\ faults' = faults + 1
        /\ UNCHANGED <<file, synced, tmp, lock, op, arg, held, next, losses>>
    BY <1>9 DEF ReadFails, Goto
  <2>2. <<>> \in List /\ faults' \in 0..MaxFaults
    BY <2>1, QueueAssumption DEF List, QueueTypeOK
  <2>3. QueueTypeOK'
    BY <2>1, <2>2 DEF QueueTypeOK
  <2>4. at'[c] = "create" /\ \A d \in Callers : d # c => at'[d] = at[d] /\ at'[d] \in {"idle", "wait"}
    BY <1>1, <2>1 DEF QueueTypeOK, HolderWorks
  <2>5. pending'[c] = <<>> /\ unread'[c] /\ ReadAll' = ReadAll
    BY <2>1 DEF QueueTypeOK, ReadAll
  <2>6. WorksOnCurrentFile' /\ HolderWorks' /\ TempIsWhole'
    BY <2>1, <2>4, <2>5 DEF WorksOnCurrentFile, HolderWorks, TempIsWhole
  <2>7. HandsUntouched'
    BY <2>1, <2>4 DEF HandsUntouched, InOperation, Batch
  <2>8. QED  BY <2>3, <2>6, <2>7
<1>4. CASE CreateTemp(c)
  <2>1. /\ at[c] = "create" /\ at' = [at EXCEPT ![c] = "serialize"] /\ tmp' = Torn
        /\ UNCHANGED <<file, synced, lock, op, arg, pending, unread, held, next, faults, losses>>
    BY <1>4 DEF CreateTemp, Goto
  <2>2. Torn \in File
    BY DEF Torn, File, List
  <2>3. QueueTypeOK'
    BY <2>1, <2>2 DEF QueueTypeOK
  <2>4. at'[c] = "serialize" /\ \A d \in Callers : d # c => at'[d] = at[d] /\ at'[d] \in {"idle", "wait"}
    BY <1>1, <2>1 DEF QueueTypeOK, HolderWorks
  <2>5. WorksOnCurrentFile' /\ HolderWorks' /\ TempIsWhole'
    BY <2>1, <2>4 DEF WorksOnCurrentFile, HolderWorks, TempIsWhole, ReadAll
  <2>6. HandsUntouched'
    BY <2>1, <2>4 DEF HandsUntouched, InOperation, Batch
  <2>7. QED  BY <2>3, <2>5, <2>6
<1>5. CASE SerializeTemp(c)
  <2>1. /\ at[c] = "serialize" /\ at' = [at EXCEPT ![c] = "move"] /\ tmp' = WholeFile(Rewritten(c))
        /\ UNCHANGED <<file, synced, lock, op, arg, pending, unread, held, next, faults, losses>>
    BY <1>5 DEF SerializeTemp, Goto
  <2>2. WholeFile(Rewritten(c)) \in File
    BY RewrittenType DEF WholeFile, File
  <2>3. QueueTypeOK'
    BY <2>1, <2>2 DEF QueueTypeOK
  <2>4. at'[c] = "move" /\ \A d \in Callers : d # c => at'[d] = at[d] /\ at'[d] \in {"idle", "wait"}
    BY <1>1, <2>1 DEF QueueTypeOK, HolderWorks
  <2>5. WorksOnCurrentFile' /\ HolderWorks'
    BY <2>1, <2>4 DEF WorksOnCurrentFile, HolderWorks, ReadAll
  <2>6. TempIsWhole'
    BY <2>1, <2>4 DEF TempIsWhole, Rewritten, WholeFile, KeepNewest
  <2>7. HandsUntouched'
    BY <2>1, <2>4 DEF HandsUntouched, InOperation, Batch
  <2>8. QED  BY <2>3, <2>5, <2>6, <2>7
<1>6. CASE MoveTemp(c)
  <2>1. /\ at[c] = "move" /\ at' = [at EXCEPT ![c] = "release"]
        /\ file' = tmp /\ tmp' = Missing /\ synced' = FALSE
        /\ UNCHANGED <<lock, op, arg, pending, unread, next, faults>>
    BY <1>6 DEF MoveTemp, Goto
  <2>2. \/ held' = [held EXCEPT ![c] = pending[c]]
        \/ held' = [held EXCEPT ![c] = <<>>]
        \/ held' = held
    BY <1>6 DEF MoveTemp, QueueTypeOK, Operations
  <2>3. Missing \in File /\ <<>> \in List
    BY DEF Missing, File, List
  <2>4. QueueTypeOK'
    <3>1. held' \in [Callers -> List]
      BY <2>2, <2>3 DEF QueueTypeOK
    <3>2. file' \in File /\ tmp' \in File /\ synced' \in BOOLEAN
      BY <2>1, <2>3 DEF QueueTypeOK
    <3>3. losses' \in Nat
      BY <1>6 DEF MoveTemp, QueueTypeOK
    <3>4. QED  BY <2>1, <3>1, <3>2, <3>3 DEF QueueTypeOK
  <2>5. at'[c] = "release" /\ \A d \in Callers : d # c => at'[d] = at[d] /\ at'[d] \in {"idle", "wait"}
    BY <1>1, <2>1 DEF QueueTypeOK, HolderWorks
  <2>6. WorksOnCurrentFile' /\ HolderWorks' /\ TempIsWhole'
    BY <2>1, <2>5 DEF WorksOnCurrentFile, HolderWorks, TempIsWhole
  <2>7. \A d \in Callers : d # c => held'[d] = held[d]
    BY <2>2 DEF QueueTypeOK
  <2>8. HandsUntouched'
    BY <2>1, <2>5, <2>7 DEF HandsUntouched, InOperation, Batch
  <2>9. QED  BY <2>4, <2>6, <2>8
<1>7. CASE Release(c) \/ IOError(c)
  <2>1. /\ at[c] \in {"create", "serialize", "move", "release"}
        /\ at' = [at EXCEPT ![c] = "idle"] /\ lock' = NoCaller
        /\ arg' = [arg EXCEPT ![c] = <<>>] /\ pending' = [pending EXCEPT ![c] = <<>>]
        /\ unread' = [unread EXCEPT ![c] = FALSE]
        /\ UNCHANGED <<file, synced, tmp, op, next, losses>>
    BY <1>7 DEF Release, IOError, Goto
  <2>2. held' = held \/ held' = [held EXCEPT ![c] = <<>>]
    BY <1>7 DEF Release, IOError
  <2>3. faults' \in 0..MaxFaults
    BY <1>7, QueueAssumption DEF Release, IOError, QueueTypeOK
  <2>4. <<>> \in List
    BY DEF List
  <2>5. QueueTypeOK'
    BY <2>1, <2>2, <2>3, <2>4 DEF QueueTypeOK
  <2>6. at'[c] = "idle" /\ \A d \in Callers : d # c => at'[d] = at[d] /\ at'[d] \in {"idle", "wait"}
    BY <1>1, <2>1 DEF QueueTypeOK, HolderWorks
  <2>11. ~ unread'[c] /\ \A d \in Callers : d # c => unread'[d] = unread[d]
    BY <2>1 DEF QueueTypeOK
  <2>7. WorksOnCurrentFile' /\ HolderWorks' /\ TempIsWhole'
    BY <2>6, <2>11 DEF WorksOnCurrentFile, HolderWorks, TempIsWhole
  <2>8. \A d \in Callers : d # c => held'[d] = held[d] /\ arg'[d] = arg[d]
    BY <2>1, <2>2 DEF QueueTypeOK
  <2>9. HandsUntouched'
    BY <2>1, <2>6, <2>8 DEF HandsUntouched, InOperation, Batch
  <2>10. QED  BY <2>5, <2>7, <2>9
<1>8. QED
  BY <1>2, <1>3, <1>4, <1>5, <1>6, <1>7, <1>9 DEF Step

\* A restart empties every hand; the machine may tear the file.
LEMMA QueueRestart ==
    ASSUME QueueIInv, Crash \/ PowerLoss
    PROVE  QueueIInv'
<1> USE DEF QueueIInv, QueueConsistent
<1>1. Restart
  BY DEF Crash, PowerLoss
<1>2. faults' \in 0..MaxFaults /\ losses' \in Nat
  BY <1>1, QueueAssumption DEF Restart, Crash, PowerLoss, QueueTypeOK
<1>3. Torn \in File /\ Missing \in File /\ <<>> \in List
  BY DEF Torn, Missing, File, List
<1>4. file' \in File /\ tmp' \in File /\ synced' \in BOOLEAN
  BY <1>3 DEF Crash, PowerLoss, QueueTypeOK
<1>5. QueueTypeOK'
  BY <1>1, <1>2, <1>3, <1>4 DEF Restart, QueueTypeOK
<1>6. \A d \in Callers : at'[d] = "idle" /\ ~ unread'[d]
  BY <1>1 DEF Restart
<1>7. QED
  BY <1>5, <1>6 DEF WorksOnCurrentFile, HolderWorks, TempIsWhole,
     HandsUntouched, InOperation

LEMMA NextQueueIInv == QueueIInv /\ [QueueNext]_queueVars => QueueIInv'
<1> SUFFICES ASSUME QueueIInv, [QueueNext]_queueVars PROVE QueueIInv'
  OBVIOUS
<1>1. CASE UNCHANGED queueVars \/ WriteBack
  <2>1. UNCHANGED <<file, tmp, lock, at, op, arg, pending, unread, held, next, faults, losses>>
    BY <1>1 DEF queueVars, WriteBack
  <2>2. synced' \in BOOLEAN
    BY <1>1 DEF queueVars, WriteBack, QueueIInv, QueueConsistent, QueueTypeOK
  <2>3. QED
    BY <2>1, <2>2 DEF QueueIInv, QueueConsistent, QueueTypeOK, WorksOnCurrentFile,
       HolderWorks, TempIsWhole,
       HandsUntouched, InOperation, ReadAll, Rewritten, WholeFile, KeepNewest, Batch, List, File
<1>2. CASE \E c \in Callers : CallEnqueue(c) \/ CallDrain(c) \/ CallRequeue(c)
  BY <1>2, QueueCall
<1>3. CASE \E c \in Callers : Deliver(c)
  BY <1>3, QueueDeliver
<1>4. CASE \E c \in Callers : Step(c) \/ ReadFails(c) \/ IOError(c)
  BY <1>4, QueueStep
<1>5. CASE Crash \/ PowerLoss
  BY <1>5, QueueRestart
<1>6. QED  BY <1>1, <1>2, <1>3, <1>4, <1>5 DEF QueueNext

\* Whatever the callers do and whatever goes wrong, who is in an operation,
\* who holds the semaphore and what the files and the hands hold agree.
THEOREM QueueInductive == QueueSpec => []QueueIInv
  BY InitQueueIInv, NextQueueIInv, PTL DEF QueueSpec

\* Whatever the interleaving of its callers and wherever errors and crashes
\* strike, the queue file is well typed and an operation that is about to
\* rewrite it works on what it says or, only if its own read failed, on nothing
\* (the semaphore and ReadAllAsync of OfflineQueue.cs).
THEOREM QueueAlwaysConsistent == QueueSpec => []QueueConsistent
<1>1. QueueIInv => QueueConsistent
  BY DEF QueueIInv
<1>2. QED  BY <1>1, QueueInductive, PTL

\* No step but a power loss tears the queue file (WriteAllAsync, which writes
\* a temporary file and renames it).
THEOREM NeverTorn == QueueSpec => TornOnlyByPowerLoss
<1>1. QueueIInv /\ [QueueNext]_queueVars => [file' = Torn => file = Torn \/ PowerLoss]_queueVars
  <2> SUFFICES ASSUME QueueIInv, [QueueNext]_queueVars, ~ UNCHANGED queueVars, file' = Torn, ~ PowerLoss
               PROVE  file = Torn
    OBVIOUS
  <2>1. \A c \in Callers : ~ MoveTemp(c)
    <3> SUFFICES ASSUME NEW c \in Callers, MoveTemp(c) PROVE FALSE
      OBVIOUS
    <3>1. file' = WholeFile(Rewritten(c))
      BY DEF MoveTemp, Goto, QueueIInv, TempIsWhole
    <3>2. QED  BY <3>1 DEF WholeFile, Torn
  <2>2. file' = file
    BY <2>1 DEF QueueNext, Step, CallEnqueue, CallDrain, CallRequeue,
       Call, Deliver, WaitAsync,
       ReadAllAsync, ReadFails, CreateTemp, SerializeTemp, Release, IOError, WriteBack, Crash, queueVars
  <2>3. QED  BY <2>2
<1>2. QED  BY <1>1, QueueInductive, PTL DEF QueueSpec, TornOnlyByPowerLoss

-----------------------------------------------------------------------------
(* OfflineQueue implements DurableQueue: its operations take effect when    *)
(* the temporary file is renamed, and every other step of a caller leaves   *)
(* the list and the hands alone.                                            *)

\* The rename is the abstract operation.
LEMMA MoveIsAtomic ==
    ASSUME QueueIInv, NEW c \in Callers, MoveTemp(c)
    PROVE  \E list \in {ReadAll, <<>>} :
             /\ Abstract!Read(list)
             /\ \/ \E b \in Batch : Abstract!Enqueue(b, list)
                \/ Abstract!Drain(c, list)
                \/ Abstract!Requeue(c, list)
<1> USE DEF QueueIInv, QueueConsistent
<1>1. at[c] = "move" /\ file' = WholeFile(Rewritten(c))
  BY DEF MoveTemp, Goto, TempIsWhole
<1>2. ReadAll' = Rewritten(c)
  BY <1>1 DEF ReadAll, WholeFile
<1>3. pending[c] \in {ReadAll, <<>>} /\ Abstract!Read(pending[c])
  BY <1>1 DEF WorksOnCurrentFile, MoveTemp, Abstract!Read
<1>4. CASE op[c] = "Enqueue"
  <2>1. PICK b \in Batch : arg[c] = <<b>>
    BY <1>1, <1>4 DEF HandsUntouched, InOperation
  <2>2. pending[c] \in Seq(Batch)
    BY DEF QueueTypeOK, List
  <2>3. pending[c] \o <<b>> = Append(pending[c], b)
    BY <2>2
  <2>4. Rewritten(c) = KeepNewest(Append(pending[c], b), MaxEntries)
    BY <1>4, <2>1, <2>3 DEF Rewritten
  <2>5. Rewritten(c) = Abstract!KeepNewest(Append(pending[c], b), MaxEntries)
    BY <2>4 DEF KeepNewest, Abstract!KeepNewest
  <2>6. held' = held
    BY <1>4 DEF MoveTemp
  <2>7. Abstract!Enqueue(b, pending[c])
    BY <1>2, <2>5, <2>6 DEF Abstract!Enqueue
  <2>8. QED  BY <1>3, <2>7
<1>5. CASE op[c] = "Drain"
  <2>1. held[c] = <<>>
    BY <1>1, <1>5 DEF HandsUntouched, InOperation
  <2>2. held' = [held EXCEPT ![c] = pending[c]] /\ Rewritten(c) = <<>>
    BY <1>5 DEF MoveTemp, Rewritten
  <2>3. Abstract!Drain(c, pending[c])
    BY <1>2, <2>1, <2>2 DEF Abstract!Drain
  <2>4. QED  BY <1>3, <2>3
<1>6. CASE op[c] = "Requeue"
  <2>1. arg[c] = held[c]
    BY <1>1, <1>6 DEF HandsUntouched, InOperation
  <2>2. held' = [held EXCEPT ![c] = <<>>] /\ Rewritten(c) = arg[c] \o pending[c]
    BY <1>6 DEF MoveTemp, Rewritten
  <2>3. Abstract!Requeue(c, pending[c])
    BY <1>2, <2>1, <2>2 DEF Abstract!Requeue
  <2>4. QED  BY <1>3, <2>3
<1>7. QED  BY <1>4, <1>5, <1>6 DEF QueueTypeOK, Operations

\* A restart is the abstract crash or the abstract power loss.
LEMMA RestartIsAbstract ==
    ASSUME QueueIInv, Crash \/ PowerLoss
    PROVE  Abstract!Crash \/ Abstract!PowerLoss
<1>1. held' = [c \in Callers |-> <<>>]
  BY DEF Crash, PowerLoss, Restart
<1>2. CASE Crash
  BY <1>1, <1>2 DEF Crash, Abstract!Crash, ReadAll
<1>3. CASE PowerLoss
  <2>1. losses' = losses + 1 /\ file' \in {file, Torn}
    BY <1>3 DEF PowerLoss
  <2>2. ReadAll' \in {ReadAll, <<>>}
    BY <2>1 DEF ReadAll, Torn
  <2>3. QED  BY <1>1, <2>1, <2>2 DEF Abstract!PowerLoss
<1>4. QED  BY <1>2, <1>3

LEMMA QueueStepsAreAbstract ==
    QueueIInv /\ [QueueNext]_queueVars => [Abstract!Next]_(Abstract!vars)
<1> SUFFICES ASSUME QueueIInv, [QueueNext]_queueVars PROVE [Abstract!Next]_(Abstract!vars)
  OBVIOUS
<1> USE DEF Abstract!vars
<1>1. ASSUME UNCHANGED <<file, held, losses>> PROVE UNCHANGED Abstract!vars
  BY <1>1 DEF ReadAll
<1>2. CASE UNCHANGED queueVars \/ WriteBack
  BY <1>1, <1>2 DEF queueVars, WriteBack
<1>3. CASE Crash \/ PowerLoss
  BY <1>3, RestartIsAbstract DEF Abstract!Next
<1>4. ASSUME NEW c \in Callers, CallEnqueue(c) \/ CallDrain(c) \/ CallRequeue(c)
      PROVE  UNCHANGED Abstract!vars
  BY <1>1, <1>4 DEF CallEnqueue, CallDrain, CallRequeue, Call
<1>5. ASSUME NEW c \in Callers, Deliver(c) PROVE Abstract!Next
  <2>1. PICK i \in DOMAIN held[c] : held' = [held EXCEPT ![c] = Without(held[c], i)]
    BY <1>5 DEF Deliver
  <2>2. held' = [held EXCEPT ![c] = Abstract!Without(held[c], i)]
    BY <2>1 DEF Without, Abstract!Without
  <2>3. ReadAll' = ReadAll /\ losses' = losses
    BY <1>5 DEF Deliver, ReadAll
  <2>4. Abstract!Settle(c)
    BY <2>2, <2>3 DEF Abstract!Settle
  <2>5. QED  BY <2>4 DEF Abstract!Next
<1>6. ASSUME NEW c \in Callers, MoveTemp(c) PROVE Abstract!Next
  BY <1>6, MoveIsAtomic DEF Abstract!Next
<1>7. ASSUME NEW c \in Callers,
             WaitAsync(c) \/ ReadAllAsync(c) \/ ReadFails(c) \/ CreateTemp(c) \/ SerializeTemp(c) \/ Release(c)
      PROVE  UNCHANGED Abstract!vars
  BY <1>1, <1>7 DEF WaitAsync, ReadAllAsync, ReadFails, CreateTemp, SerializeTemp,
     Release
<1>8. ASSUME NEW c \in Callers, IOError(c) PROVE Abstract!Next
  <2>1. ReadAll' = ReadAll /\ losses' = losses /\ held' = [held EXCEPT ![c] = <<>>]
    BY <1>8 DEF IOError, ReadAll
  <2>2. QED  BY <2>1 DEF Abstract!Forget, Abstract!Next
<1>9. QED
  BY <1>2, <1>3, <1>4, <1>5, <1>6, <1>7, <1>8 DEF QueueNext, Step

\* At file level the queue is a durable list with atomic operations, which
\* only a power loss or an operation whose read failed can empty: what
\* DurableQueue promises, every behaviour of OfflineQueue.cs keeps.
THEOREM QueueIsDurable == QueueSpec => ImplementsDurableQueue
<1>1. QueueInit => Abstract!Init
  BY DEF QueueInit, Abstract!Init, ReadAll, Missing
<1>2. QED
  BY <1>1, QueueStepsAreAbstract, QueueInductive, PTL
  DEF QueueSpec, ImplementsDurableQueue, Abstract!Spec
=============================================================================
