---------------------- MODULE InstanceLifecycleProofs ----------------------
(***************************************************************************)
(* Proofs about InstanceLifecycle, for every value of its constants: that  *)
(* IndInv is inductive, conjunct by conjunct and action by action, and     *)
(* from IndInv the safety properties and the implementation of VmSpec.     *)
(***************************************************************************)
EXTENDS InstanceLifecycle, TLAPS

(* The labels, spelled out. *)
LEMMA LabelsListed ==
  /\ {"idle", "lock", "status", "match", "clearpid", "clearqmp", "exists",
      "remove", "ok"} \subseteq Labels
  /\ {"prepare", "mkdir", "disk", "seed", "config"} \subseteq Labels
  /\ {"artifacts", "launch", "qemu", "waitpid", "ssh", "info"} \subseteq Labels
  /\ {"status2", "match2", "readpid", "signal", "wait20", "term", "wait5",
      "kill", "wait2"} \subseteq Labels
BY DEF Labels, CreateLabels, StartLabels, StopLabels

(* Where the match on a status may go. *)
LEMMA OnStatusCases ==
  ASSUME NEW h \in Hp, NEW status \in {Missing, Stopped, Running},
         OnStatus(h, status), OpAt(h) \in Ops
  PROVE  \/ Leave(h)
         \/ status = Missing /\ OpAt(h) = "create" /\ Step(h, "prepare")
         \/ status = Stopped /\ OpAt(h) = "start" /\ Step(h, "artifacts")
         \/ status = Running /\ OpAt(h) = "start" /\ Step(h, "ssh")
         \/ status = Stopped /\ OpAt(h) = "stop" /\ Step(h, "clearpid")
         \/ status = Running /\ OpAt(h) = "stop" /\ Step(h, "readpid")
         \/ status # Running /\ OpAt(h) = "delete" /\ Step(h, "exists")
         \/ status = Running /\ OpAt(h) = "delete" /\ Step(h, "status2")
BY DEF OnStatus, NextLabel, Missing, Stopped, Running, Ops

-----------------------------------------------------------------------------
(* Each conjunct of IndInv is preserved by every action. *)

(* Every step keeps the types. *)
LEMMA TypePreserved ==
  ASSUME IndInv, Next
  PROVE  TypeOK'
<1> USE LifecycleAssumption, LabelsListed DEF IndInv, TypeOK, LocalsOK,
  FilesOK, ProcsOK, LabelsOfOps, InCreate, CreateLabels, Ops, Disks
<1>1. ASSUME NEW h \in Hp, Invoke(h) PROVE TypeOK'
  BY <1>1 DEF Invoke, At, Goto, files, procs
<1>2. ASSUME NEW h \in Hp, Lock(h) PROVE TypeOK'
  BY <1>2 DEF Lock, At, Goto, files, procs
<1>3. ASSUME NEW h \in Hp, Return(h) PROVE TypeOK'
  BY <1>3 DEF Return, At, Leave, files, procs
<1>4. ASSUME NEW h \in Hp, Status(h) PROVE TypeOK'
  BY <1>4 DEF Status, OnStatus, Missing, Stopped, Leave, Goto, At, files,
    procs, NextLabel, OpAt, Step, Running
<1>5. ASSUME NEW h \in Hp, Match(h) PROVE TypeOK'
  BY <1>5 DEF Match, OnStatus, OurQemu, Running, Stopped, files, procs,
    NextLabel, OpAt, Leave, Step, Booting, Missing, Goto
<1>6. ASSUME NEW h \in Hp, PsFails(h) PROVE TypeOK'
  BY <1>6 DEF PsFails, OnStatus, Stopped, files, procs, NextLabel, OpAt,
    Leave, Step, Missing, Running, Goto
<1>7. ASSUME NEW h \in Hp, Prepare(h) PROVE TypeOK'
  BY <1>7 DEF Prepare, At, Step, files, procs, Goto
<1>8. ASSUME NEW h \in Hp, EnsureDir(h) PROVE TypeOK'
  BY <1>8 DEF EnsureDir, At, Step, procs, Goto
<1>9. ASSUME NEW h \in Hp, CreateOverlayDisk(h) PROVE TypeOK'
  BY <1>9 DEF CreateOverlayDisk, At, Step, procs, Goto
<1>10. ASSUME NEW h \in Hp, CreateSeedImage(h) PROVE TypeOK'
  BY <1>10 DEF CreateSeedImage, At, Step, procs, Goto
<1>11. ASSUME NEW h \in Hp, WriteConfig(h) PROVE TypeOK'
  BY <1>11 DEF WriteConfig, At, Step, procs, Goto
<1>12. ASSUME NEW h \in Hp, EnsureExistingArtifacts(h) PROVE TypeOK'
  BY <1>12 DEF EnsureExistingArtifacts, At, Step, Leave, files, procs, Goto
<1>13. ASSUME NEW h \in Hp, ClearPid(h) PROVE TypeOK'
  BY <1>13 DEF ClearPid, At, Step, procs, Goto
<1>14. ASSUME NEW h \in Hp, ClearQmp(h) PROVE TypeOK'
  BY <1>14 DEF ClearQmp, At, Step, procs, Goto
<1>15. ASSUME NEW h \in Hp, LaunchVm(h) PROVE TypeOK'
  BY <1>15 DEF LaunchVm, At, Goto, files
<1>16. ASSUME NEW h \in Hp, LaunchFails(h) PROVE TypeOK'
  BY <1>16 DEF LaunchFails, At, Leave, files, procs
<1>17. ASSUME NEW h \in Hp, RunLaunchSpec(h) PROVE TypeOK'
  BY <1>17 DEF RunLaunchSpec, At, Step, Leave, files, procs, Goto
<1>18. ASSUME NEW h \in Hp, WaitForPid(h) PROVE TypeOK'
  BY <1>18 DEF WaitForPid, At, Step, Leave, files, procs, Goto
<1>19. ASSUME NEW h \in Hp, WaitForSsh(h) PROVE TypeOK'
  BY <1>19 DEF WaitForSsh, At, Step, Leave, files, procs, Goto
<1>20. ASSUME NEW h \in Hp, InfoStatus(h) PROVE TypeOK'
  BY <1>20 DEF InfoStatus, At, Leave, Step, files, procs, Goto
<1>21. ASSUME NEW h \in Hp, ReadPid(h) PROVE TypeOK'
  BY <1>21 DEF ReadPid, At, Goto, Leave, files, procs
<1>22. ASSUME NEW h \in Hp, RequestStop(h) PROVE TypeOK'
  BY <1>22 DEF RequestStop, At, IsFile, Signal, Step, KillFinds, Leave, files,
    Goto
<1>23. ASSUME NEW h \in Hp, WaitForExit(h) PROVE TypeOK'
  BY <1>23 DEF WaitForExit, Step, KillFinds, At, files, procs, Goto
<1>24. ASSUME NEW h \in Hp, Terminate(h) PROVE TypeOK'
  BY <1>24 DEF Terminate, At, KillFinds, Signal, Step, files, Goto
<1>25. ASSUME NEW h \in Hp, Kill(h) PROVE TypeOK'
  BY <1>25 DEF Kill, At, KillFinds, Signal, Step, Leave, files, Goto
<1>26. ASSUME NEW h \in Hp, WaitKilled(h) PROVE TypeOK'
  BY <1>26 DEF WaitKilled, At, OurQemu, Step, files, procs, Booting, Goto
<1>27. ASSUME NEW h \in Hp, GiveUpOnKilled(h) PROVE TypeOK'
  BY <1>27 DEF GiveUpOnKilled, At, OurQemu, Step, files, procs, Booting, Goto
<1>28. ASSUME NEW h \in Hp, DirExists(h) PROVE TypeOK'
  BY <1>28 DEF DirExists, At, Step, files, procs, Goto
<1>29. ASSUME NEW h \in Hp, RemoveEntry(h) PROVE TypeOK'
  BY <1>29 DEF RemoveEntry, At, RemoveConfig, RemoveDisk, RemoveSeed,
    RemovePid, RemoveQmp, locals
<1>30. ASSUME NEW h \in Hp, RemoveDir(h) PROVE TypeOK'
  BY <1>30 DEF RemoveDir, At, DirEmpty, Step, procs, Goto
<1>31. ASSUME NEW h \in Hp, IoError(h) PROVE TypeOK'
  BY <1>31 DEF IoError, Fallible, PartialWrite, Leave, At, procs
<1>32. ASSUME NEW h \in Hp, Crash(h) PROVE TypeOK'
  BY <1>32 DEF Crash, PartialWrite, Leave, At, procs
<1>33. ASSUME NEW p \in Pids, QemuOpensPidFile(p) PROVE TypeOK'
  BY <1>33 DEF QemuOpensPidFile, PidFileLocked, locals, OurQemu, Booting
<1>34. ASSUME NEW p \in Pids, QemuWritesPid(p) PROVE TypeOK'
  BY <1>34 DEF QemuWritesPid, locals
<1>35. ASSUME NEW p \in Pids, QemuReady(p) PROVE TypeOK'
  BY <1>35 DEF QemuReady, Report, At
<1>36. ASSUME NEW p \in Pids, QemuInitFails(p) PROVE TypeOK'
  BY <1>36 DEF QemuInitFails, Booting, Report, At
<1>37. ASSUME NEW p \in Pids, QemuQuits(p) PROVE TypeOK'
  BY <1>37 DEF QemuQuits, locals
<1>38. ASSUME NEW p \in Pids, ProcessEnds(p) PROVE TypeOK'
  BY <1>38 DEF ProcessEnds, locals, files
<1>39. ASSUME NEW p \in Pids, PidReused(p) PROVE TypeOK'
  BY <1>39 DEF PidReused, locals, files
<1> QED BY <1>1, <1>2, <1>3, <1>4, <1>5, <1>6, <1>7, <1>8, <1>9, <1>10,
  <1>11, <1>12, <1>13, <1>14, <1>15, <1>16, <1>17, <1>18, <1>19, <1>20,
  <1>21, <1>22, <1>23, <1>24, <1>25, <1>26, <1>27, <1>28, <1>29, <1>30,
  <1>31, <1>32, <1>33, <1>34, <1>35, <1>36, <1>37, <1>38, <1>39 DEF Next,
  HpStep, HpFault, CreateStep, StartStep, StopStep, DeleteStep, QemuStep,
  QemuBoots

(* Every step leaves each invocation at a label of its operation. *)
LEMMA LabelsPreserved ==
  ASSUME IndInv, Next
  PROVE  LabelsOfOps'
<1> USE DEF IndInv, TypeOK, LocalsOK, FilesOK, LabelsOfOps, InCreate,
  PidLabels, Ops, CreateLabels, StartLabels, StopLabels
<1>1. ASSUME NEW h \in Hp, Invoke(h) PROVE LabelsOfOps'
  BY <1>1 DEF Invoke, At, Goto, files, procs
<1>2. ASSUME NEW h \in Hp, Lock(h) PROVE LabelsOfOps'
  BY <1>2 DEF Lock, At, Goto, files, procs
<1>3. ASSUME NEW h \in Hp, Return(h) PROVE LabelsOfOps'
  BY <1>3 DEF Return, At, Leave, files, procs
<1>4. ASSUME NEW h \in Hp, Status(h) PROVE LabelsOfOps'
  BY <1>4 DEF Status, OnStatus, Missing, Stopped, Leave, Goto, At, files,
    procs, NextLabel, OpAt, Step, Running
<1>5. ASSUME NEW h \in Hp, Match(h) PROVE LabelsOfOps'
  BY <1>5 DEF Match, OnStatus, OurQemu, Running, Stopped, files, procs,
    NextLabel, OpAt, Leave, Step, Booting, Missing, Goto
<1>6. ASSUME NEW h \in Hp, PsFails(h) PROVE LabelsOfOps'
  BY <1>6 DEF PsFails, OnStatus, Stopped, files, procs, NextLabel, OpAt,
    Leave, Step, Missing, Running, Goto
<1>7. ASSUME NEW h \in Hp, Prepare(h) PROVE LabelsOfOps'
  BY <1>7 DEF Prepare, At, Step, files, procs, Goto
<1>8. ASSUME NEW h \in Hp, EnsureDir(h) PROVE LabelsOfOps'
  BY <1>8 DEF EnsureDir, At, Step, procs, Goto
<1>9. ASSUME NEW h \in Hp, CreateOverlayDisk(h) PROVE LabelsOfOps'
  BY <1>9 DEF CreateOverlayDisk, At, Step, procs, Goto
<1>10. ASSUME NEW h \in Hp, CreateSeedImage(h) PROVE LabelsOfOps'
  BY <1>10 DEF CreateSeedImage, At, Step, procs, Goto
<1>11. ASSUME NEW h \in Hp, WriteConfig(h) PROVE LabelsOfOps'
  BY <1>11 DEF WriteConfig, At, Step, procs, Goto
<1>12. ASSUME NEW h \in Hp, EnsureExistingArtifacts(h) PROVE LabelsOfOps'
  BY <1>12 DEF EnsureExistingArtifacts, At, Step, Leave, files, procs, Goto
<1>13. ASSUME NEW h \in Hp, ClearPid(h) PROVE LabelsOfOps'
  BY <1>13 DEF ClearPid, At, Step, procs, Goto
<1>14. ASSUME NEW h \in Hp, ClearQmp(h) PROVE LabelsOfOps'
  BY <1>14 DEF ClearQmp, At, Step, procs, Goto
<1>15. ASSUME NEW h \in Hp, LaunchVm(h) PROVE LabelsOfOps'
  BY <1>15 DEF LaunchVm, At, Goto, files
<1>16. ASSUME NEW h \in Hp, LaunchFails(h) PROVE LabelsOfOps'
  BY <1>16 DEF LaunchFails, At, Leave, files, procs
<1>17. ASSUME NEW h \in Hp, RunLaunchSpec(h) PROVE LabelsOfOps'
  BY <1>17 DEF RunLaunchSpec, At, Step, Leave, files, procs, Goto
<1>18. ASSUME NEW h \in Hp, WaitForPid(h) PROVE LabelsOfOps'
  BY <1>18 DEF WaitForPid, At, Step, Leave, files, procs, Goto
<1>19. ASSUME NEW h \in Hp, WaitForSsh(h) PROVE LabelsOfOps'
  BY <1>19 DEF WaitForSsh, At, Step, Leave, files, procs, Goto
<1>20. ASSUME NEW h \in Hp, InfoStatus(h) PROVE LabelsOfOps'
  BY <1>20 DEF InfoStatus, At, Leave, Step, files, procs, Goto
<1>21. ASSUME NEW h \in Hp, ReadPid(h) PROVE LabelsOfOps'
  BY <1>21 DEF ReadPid, At, Goto, Leave, files, procs
<1>22. ASSUME NEW h \in Hp, RequestStop(h) PROVE LabelsOfOps'
  BY <1>22 DEF RequestStop, At, IsFile, Signal, Step, KillFinds, Leave, files,
    Goto
<1>23. ASSUME NEW h \in Hp, WaitForExit(h) PROVE LabelsOfOps'
  BY <1>23 DEF WaitForExit, Step, KillFinds, At, files, procs, Goto
<1>24. ASSUME NEW h \in Hp, Terminate(h) PROVE LabelsOfOps'
  BY <1>24 DEF Terminate, At, KillFinds, Signal, Step, files, Goto
<1>25. ASSUME NEW h \in Hp, Kill(h) PROVE LabelsOfOps'
  BY <1>25 DEF Kill, At, KillFinds, Signal, Step, Leave, files, Goto
<1>26. ASSUME NEW h \in Hp, WaitKilled(h) PROVE LabelsOfOps'
  BY <1>26 DEF WaitKilled, At, OurQemu, Step, files, procs, Booting, Goto
<1>27. ASSUME NEW h \in Hp, GiveUpOnKilled(h) PROVE LabelsOfOps'
  BY <1>27 DEF GiveUpOnKilled, At, OurQemu, Step, files, procs, Booting, Goto
<1>28. ASSUME NEW h \in Hp, DirExists(h) PROVE LabelsOfOps'
  BY <1>28 DEF DirExists, At, Step, files, procs, Goto
<1>29. ASSUME NEW h \in Hp, RemoveEntry(h) PROVE LabelsOfOps'
  BY <1>29 DEF RemoveEntry, At, RemoveConfig, RemoveDisk, RemoveSeed,
    RemovePid, RemoveQmp, locals
<1>30. ASSUME NEW h \in Hp, RemoveDir(h) PROVE LabelsOfOps'
  BY <1>30 DEF RemoveDir, At, DirEmpty, Step, procs, Goto
<1>31. ASSUME NEW h \in Hp, IoError(h) PROVE LabelsOfOps'
  BY <1>31 DEF IoError, Fallible, PartialWrite, Leave, At, procs
<1>32. ASSUME NEW h \in Hp, Crash(h) PROVE LabelsOfOps'
  BY <1>32 DEF Crash, PartialWrite, Leave, At, procs
<1>33. ASSUME NEW p \in Pids, QemuOpensPidFile(p) PROVE LabelsOfOps'
  BY <1>33 DEF QemuOpensPidFile, PidFileLocked, locals, OurQemu, Booting
<1>34. ASSUME NEW p \in Pids, QemuWritesPid(p) PROVE LabelsOfOps'
  BY <1>34 DEF QemuWritesPid, locals
<1>35. ASSUME NEW p \in Pids, QemuReady(p) PROVE LabelsOfOps'
  BY <1>35 DEF QemuReady, Report, At
<1>36. ASSUME NEW p \in Pids, QemuInitFails(p) PROVE LabelsOfOps'
  BY <1>36 DEF QemuInitFails, Booting, Report, At
<1>37. ASSUME NEW p \in Pids, QemuQuits(p) PROVE LabelsOfOps'
  BY <1>37 DEF QemuQuits, locals
<1>38. ASSUME NEW p \in Pids, ProcessEnds(p) PROVE LabelsOfOps'
  BY <1>38 DEF ProcessEnds, locals, files
<1>39. ASSUME NEW p \in Pids, PidReused(p) PROVE LabelsOfOps'
  BY <1>39 DEF PidReused, locals, files
<1> QED BY <1>1, <1>2, <1>3, <1>4, <1>5, <1>6, <1>7, <1>8, <1>9, <1>10,
  <1>11, <1>12, <1>13, <1>14, <1>15, <1>16, <1>17, <1>18, <1>19, <1>20,
  <1>21, <1>22, <1>23, <1>24, <1>25, <1>26, <1>27, <1>28, <1>29, <1>30,
  <1>31, <1>32, <1>33, <1>34, <1>35, <1>36, <1>37, <1>38, <1>39 DEF Next,
  HpStep, HpFault, CreateStep, StartStep, StopStep, DeleteStep, QemuStep,
  QemuBoots

(* Every step keeps the lock with the one operation that is under way. *)
LEMMA LockPreserved ==
  ASSUME IndInv, Next
  PROVE  LockDiscipline'
<1> USE LifecycleAssumption DEF IndInv, TypeOK, LocalsOK, LockDiscipline,
  Fallible, CreateLabels, StartLabels, StopLabels
<1>1. ASSUME NEW h \in Hp, Invoke(h) PROVE LockDiscipline'
  BY <1>1 DEF Invoke, At, Goto, files, procs
<1>2. ASSUME NEW h \in Hp, Lock(h) PROVE LockDiscipline'
  BY <1>2 DEF Lock, At, Goto, files, procs
<1>3. ASSUME NEW h \in Hp, Return(h) PROVE LockDiscipline'
  BY <1>3 DEF Return, At, Leave, files, procs
<1>4. ASSUME NEW h \in Hp, Status(h) PROVE LockDiscipline'
  BY <1>4 DEF Status, OnStatus, Missing, Stopped, Leave, Goto, At, files,
    procs, NextLabel, OpAt, Step, Running
<1>5. ASSUME NEW h \in Hp, Match(h) PROVE LockDiscipline'
  BY <1>5 DEF Match, OnStatus, OurQemu, Running, Stopped, files, procs,
    NextLabel, OpAt, Leave, Step, Booting, Missing, Goto
<1>6. ASSUME NEW h \in Hp, PsFails(h) PROVE LockDiscipline'
  BY <1>6 DEF PsFails, OnStatus, Stopped, files, procs, NextLabel, OpAt,
    Leave, Step, Missing, Running, Goto
<1>7. ASSUME NEW h \in Hp, Prepare(h) PROVE LockDiscipline'
  BY <1>7 DEF Prepare, At, Step, files, procs, Goto
<1>8. ASSUME NEW h \in Hp, EnsureDir(h) PROVE LockDiscipline'
  BY <1>8 DEF EnsureDir, At, Step, procs, Goto
<1>9. ASSUME NEW h \in Hp, CreateOverlayDisk(h) PROVE LockDiscipline'
  BY <1>9 DEF CreateOverlayDisk, At, Step, procs, Goto
<1>10. ASSUME NEW h \in Hp, CreateSeedImage(h) PROVE LockDiscipline'
  BY <1>10 DEF CreateSeedImage, At, Step, procs, Goto
<1>11. ASSUME NEW h \in Hp, WriteConfig(h) PROVE LockDiscipline'
  BY <1>11 DEF WriteConfig, At, Step, procs, Goto
<1>12. ASSUME NEW h \in Hp, EnsureExistingArtifacts(h) PROVE LockDiscipline'
  BY <1>12 DEF EnsureExistingArtifacts, At, Step, Leave, files, procs, Goto
<1>13. ASSUME NEW h \in Hp, ClearPid(h) PROVE LockDiscipline'
  BY <1>13 DEF ClearPid, At, Step, procs, Goto
<1>14. ASSUME NEW h \in Hp, ClearQmp(h) PROVE LockDiscipline'
  BY <1>14 DEF ClearQmp, At, Step, procs, Goto
<1>15. ASSUME NEW h \in Hp, LaunchVm(h) PROVE LockDiscipline'
  BY <1>15 DEF LaunchVm, At, Goto, files
<1>16. ASSUME NEW h \in Hp, LaunchFails(h) PROVE LockDiscipline'
  BY <1>16 DEF LaunchFails, At, Leave, files, procs
<1>17. ASSUME NEW h \in Hp, RunLaunchSpec(h) PROVE LockDiscipline'
  BY <1>17 DEF RunLaunchSpec, At, Step, Leave, files, procs, Goto
<1>18. ASSUME NEW h \in Hp, WaitForPid(h) PROVE LockDiscipline'
  BY <1>18 DEF WaitForPid, At, Step, Leave, files, procs, Goto
<1>19. ASSUME NEW h \in Hp, WaitForSsh(h) PROVE LockDiscipline'
  BY <1>19 DEF WaitForSsh, At, Step, Leave, files, procs, Goto
<1>20. ASSUME NEW h \in Hp, InfoStatus(h) PROVE LockDiscipline'
  BY <1>20 DEF InfoStatus, At, Leave, Step, files, procs, Goto
<1>21. ASSUME NEW h \in Hp, ReadPid(h) PROVE LockDiscipline'
  BY <1>21 DEF ReadPid, At, Goto, Leave, files, procs
<1>22. ASSUME NEW h \in Hp, RequestStop(h) PROVE LockDiscipline'
  BY <1>22 DEF RequestStop, At, IsFile, Signal, Step, KillFinds, Leave, files,
    Goto
<1>23. ASSUME NEW h \in Hp, WaitForExit(h) PROVE LockDiscipline'
  BY <1>23 DEF WaitForExit, Step, KillFinds, At, files, procs, Goto
<1>24. ASSUME NEW h \in Hp, Terminate(h) PROVE LockDiscipline'
  BY <1>24 DEF Terminate, At, KillFinds, Signal, Step, files, Goto
<1>25. ASSUME NEW h \in Hp, Kill(h) PROVE LockDiscipline'
  BY <1>25 DEF Kill, At, KillFinds, Signal, Step, Leave, files, Goto
<1>26. ASSUME NEW h \in Hp, WaitKilled(h) PROVE LockDiscipline'
  BY <1>26 DEF WaitKilled, At, OurQemu, Step, files, procs, Booting, Goto
<1>27. ASSUME NEW h \in Hp, GiveUpOnKilled(h) PROVE LockDiscipline'
  BY <1>27 DEF GiveUpOnKilled, At, OurQemu, Step, files, procs, Booting, Goto
<1>28. ASSUME NEW h \in Hp, DirExists(h) PROVE LockDiscipline'
  BY <1>28 DEF DirExists, At, Step, files, procs, Goto
<1>29. ASSUME NEW h \in Hp, RemoveEntry(h) PROVE LockDiscipline'
  BY <1>29 DEF RemoveEntry, At, RemoveConfig, RemoveDisk, RemoveSeed,
    RemovePid, RemoveQmp, locals
<1>30. ASSUME NEW h \in Hp, RemoveDir(h) PROVE LockDiscipline'
  BY <1>30 DEF RemoveDir, At, DirEmpty, Step, procs, Goto
<1>31. ASSUME NEW h \in Hp, IoError(h) PROVE LockDiscipline'
  BY <1>31 DEF IoError, PartialWrite, Leave, At, procs
<1>32. ASSUME NEW h \in Hp, Crash(h) PROVE LockDiscipline'
  BY <1>32 DEF Crash, PartialWrite, Leave, At, procs
<1>33. ASSUME NEW p \in Pids, QemuOpensPidFile(p) PROVE LockDiscipline'
  BY <1>33 DEF QemuOpensPidFile, PidFileLocked, locals, OurQemu, Booting
<1>34. ASSUME NEW p \in Pids, QemuWritesPid(p) PROVE LockDiscipline'
  BY <1>34 DEF QemuWritesPid, locals
<1>35. ASSUME NEW p \in Pids, QemuReady(p) PROVE LockDiscipline'
  BY <1>35 DEF QemuReady, Report, At
<1>36. ASSUME NEW p \in Pids, QemuInitFails(p) PROVE LockDiscipline'
  BY <1>36 DEF QemuInitFails, Booting, Report, At
<1>37. ASSUME NEW p \in Pids, QemuQuits(p) PROVE LockDiscipline'
  BY <1>37 DEF QemuQuits, locals
<1>38. ASSUME NEW p \in Pids, ProcessEnds(p) PROVE LockDiscipline'
  BY <1>38 DEF ProcessEnds, locals, files
<1>39. ASSUME NEW p \in Pids, PidReused(p) PROVE LockDiscipline'
  BY <1>39 DEF PidReused, locals, files
<1> QED BY <1>1, <1>2, <1>3, <1>4, <1>5, <1>6, <1>7, <1>8, <1>9, <1>10,
  <1>11, <1>12, <1>13, <1>14, <1>15, <1>16, <1>17, <1>18, <1>19, <1>20,
  <1>21, <1>22, <1>23, <1>24, <1>25, <1>26, <1>27, <1>28, <1>29, <1>30,
  <1>31, <1>32, <1>33, <1>34, <1>35, <1>36, <1>37, <1>38, <1>39 DEF Next,
  HpStep, HpFault, CreateStep, StartStep, StopStep, DeleteStep, QemuStep,
  QemuBoots

(* Every step keeps what the lock protects among the files. *)
LEMMA FilesPreserved ==
  ASSUME IndInv, Next
  PROVE  FilesUnderLock'
<1> USE LifecycleAssumption DEF IndInv, TypeOK, LocalsOK, FilesOK, ProcsOK,
  LockDiscipline, LabelsOfOps, FilesUnderLock, SeedMatchesConfig, DirEmpty,
  InCreate, InStart, PidLabels, CreateLabels, StartLabels, StopLabels
<1>1. ASSUME NEW h \in Hp, Invoke(h) PROVE FilesUnderLock'
  BY <1>1 DEF Invoke, At, Goto, files, procs
<1>2. ASSUME NEW h \in Hp, Lock(h) PROVE FilesUnderLock'
  BY <1>2 DEF Lock, At, Goto, files, procs
<1>3. ASSUME NEW h \in Hp, Return(h) PROVE FilesUnderLock'
  BY <1>3 DEF Return, At, Leave, files, procs
<1>4. ASSUME NEW h \in Hp, Status(h) PROVE FilesUnderLock'
  BY <1>4 DEF Status, OnStatus, Missing, Stopped, Leave, Goto, At, files,
    procs, NextLabel, OpAt, Step, Running
<1>5. ASSUME NEW h \in Hp, Match(h) PROVE FilesUnderLock'
  <2> DEFINE st == IF OurQemu(pid[h]) THEN Running ELSE Stopped
  <2>1. OpAt(h) \in Ops
    BY <1>5 DEF Match, OpAt, Ops
  <2>2. OnStatus(h, st) /\ st \in {Missing, Stopped, Running}
    BY <1>5 DEF Match
  <2>3. pc[h] \in {"match", "match2"} /\ UNCHANGED <<files, procs, faults>>
    BY <1>5 DEF Match
  <2>4. CASE Leave(h)
    BY <2>4, <2>3 DEF Leave, Step, Goto, OpAt, At, files, procs
  <2>5. CASE st = Missing /\ OpAt(h) = "create" /\ Step(h, "prepare")
    BY <2>5, <2>3 DEF Leave, Step, Goto, OpAt, At, files, procs, Missing,
      Stopped, Running
  <2>6. CASE st = Stopped /\ OpAt(h) = "start" /\ Step(h, "artifacts")
    BY <2>6, <2>3 DEF Leave, Step, Goto, OpAt, At, files, procs
  <2>7. CASE st = Running /\ OpAt(h) = "start" /\ Step(h, "ssh")
    BY <2>7, <2>3 DEF Leave, Step, Goto, OpAt, At, files, procs
  <2>8. CASE st = Stopped /\ OpAt(h) = "stop" /\ Step(h, "clearpid")
    BY <2>8, <2>3 DEF Leave, Step, Goto, OpAt, At, files, procs
  <2>9. CASE st = Running /\ OpAt(h) = "stop" /\ Step(h, "readpid")
    BY <2>9, <2>3 DEF Leave, Step, Goto, OpAt, At, files, procs
  <2>10. CASE st # Running /\ OpAt(h) = "delete" /\ Step(h, "exists")
    BY <2>10, <2>3 DEF Leave, Step, Goto, OpAt, At, files, procs
  <2>11. CASE st = Running /\ OpAt(h) = "delete" /\ Step(h, "status2")
    BY <2>11, <2>3 DEF Leave, Step, Goto, OpAt, At, files, procs
  <2> QED BY <2>1, <2>2, OnStatusCases, <2>4, <2>5, <2>6, <2>7, <2>8, <2>9,
    <2>10, <2>11
<1>6. ASSUME NEW h \in Hp, PsFails(h) PROVE FilesUnderLock'
  <2> DEFINE st == Stopped
  <2>1. OpAt(h) \in Ops
    BY <1>6 DEF PsFails, OpAt, Ops
  <2>2. OnStatus(h, st) /\ st \in {Missing, Stopped, Running}
    BY <1>6 DEF PsFails
  <2>3. pc[h] \in {"match", "match2"} /\ UNCHANGED <<files, procs>>
    BY <1>6 DEF PsFails
  <2>4. CASE Leave(h)
    BY <2>4, <2>3 DEF Leave, Step, Goto, OpAt, At, files, procs
  <2>5. CASE st = Missing /\ OpAt(h) = "create" /\ Step(h, "prepare")
    BY <2>5, <2>3 DEF Leave, Step, Goto, OpAt, At, files, procs, Missing,
      Stopped, Running
  <2>6. CASE st = Stopped /\ OpAt(h) = "start" /\ Step(h, "artifacts")
    BY <2>6, <2>3 DEF Leave, Step, Goto, OpAt, At, files, procs
  <2>7. CASE st = Running /\ OpAt(h) = "start" /\ Step(h, "ssh")
    BY <2>7, <2>3 DEF Leave, Step, Goto, OpAt, At, files, procs
  <2>8. CASE st = Stopped /\ OpAt(h) = "stop" /\ Step(h, "clearpid")
    BY <2>8, <2>3 DEF Leave, Step, Goto, OpAt, At, files, procs
  <2>9. CASE st = Running /\ OpAt(h) = "stop" /\ Step(h, "readpid")
    BY <2>9, <2>3 DEF Leave, Step, Goto, OpAt, At, files, procs
  <2>10. CASE st # Running /\ OpAt(h) = "delete" /\ Step(h, "exists")
    BY <2>10, <2>3 DEF Leave, Step, Goto, OpAt, At, files, procs
  <2>11. CASE st = Running /\ OpAt(h) = "delete" /\ Step(h, "status2")
    BY <2>11, <2>3 DEF Leave, Step, Goto, OpAt, At, files, procs
  <2> QED BY <2>1, <2>2, OnStatusCases, <2>4, <2>5, <2>6, <2>7, <2>8, <2>9,
    <2>10, <2>11
<1>7. ASSUME NEW h \in Hp, Prepare(h) PROVE FilesUnderLock'
  BY <1>7 DEF Prepare, At, Step, files, procs, Goto
<1>8. ASSUME NEW h \in Hp, EnsureDir(h) PROVE FilesUnderLock'
  BY <1>8 DEF EnsureDir, At, Step, procs, Goto
<1>9. ASSUME NEW h \in Hp, CreateOverlayDisk(h) PROVE FilesUnderLock'
  <2>1. disk' # None
    BY <1>9 DEF CreateOverlayDisk, At, Disks
  <2> QED
    BY <1>9, <2>1 DEF CreateOverlayDisk, At, Step, Goto, procs
<1>10. ASSUME NEW h \in Hp, CreateSeedImage(h) PROVE FilesUnderLock'
  BY <1>10 DEF CreateSeedImage, At, Step, procs, Goto
<1>11. ASSUME NEW h \in Hp, WriteConfig(h) PROVE FilesUnderLock'
  BY <1>11 DEF WriteConfig, At, Step, procs, Goto
<1>12. ASSUME NEW h \in Hp, EnsureExistingArtifacts(h) PROVE FilesUnderLock'
  BY <1>12 DEF EnsureExistingArtifacts, At, Step, Leave, files, procs, Goto
<1>13. ASSUME NEW h \in Hp, ClearPid(h) PROVE FilesUnderLock'
  BY <1>13 DEF ClearPid, At, Step, procs, Goto
<1>14. ASSUME NEW h \in Hp, ClearQmp(h) PROVE FilesUnderLock'
  BY <1>14 DEF ClearQmp, At, Step, procs, Goto
<1>15. ASSUME NEW h \in Hp, LaunchVm(h) PROVE FilesUnderLock'
  BY <1>15 DEF LaunchVm, At, Goto, files
<1>16. ASSUME NEW h \in Hp, LaunchFails(h) PROVE FilesUnderLock'
  BY <1>16 DEF LaunchFails, At, Leave, files, procs
<1>17. ASSUME NEW h \in Hp, RunLaunchSpec(h) PROVE FilesUnderLock'
  BY <1>17 DEF RunLaunchSpec, At, Step, Leave, files, procs, Goto
<1>18. ASSUME NEW h \in Hp, WaitForPid(h) PROVE FilesUnderLock'
  BY <1>18 DEF WaitForPid, At, Step, Leave, files, procs, Goto
<1>19. ASSUME NEW h \in Hp, WaitForSsh(h) PROVE FilesUnderLock'
  BY <1>19 DEF WaitForSsh, At, Step, Leave, files, procs, Goto
<1>20. ASSUME NEW h \in Hp, InfoStatus(h) PROVE FilesUnderLock'
  BY <1>20 DEF InfoStatus, At, Leave, Step, files, procs, Goto
<1>21. ASSUME NEW h \in Hp, ReadPid(h) PROVE FilesUnderLock'
  BY <1>21 DEF ReadPid, At, Goto, Leave, files, procs
<1>22. ASSUME NEW h \in Hp, RequestStop(h) PROVE FilesUnderLock'
  BY <1>22 DEF RequestStop, At, IsFile, Signal, Step, KillFinds, Leave, files,
    Goto
<1>23. ASSUME NEW h \in Hp, WaitForExit(h) PROVE FilesUnderLock'
  BY <1>23 DEF WaitForExit, Step, KillFinds, At, files, procs, Goto
<1>24. ASSUME NEW h \in Hp, Terminate(h) PROVE FilesUnderLock'
  BY <1>24 DEF Terminate, At, KillFinds, Signal, Step, files, Goto
<1>25. ASSUME NEW h \in Hp, Kill(h) PROVE FilesUnderLock'
  BY <1>25 DEF Kill, At, KillFinds, Signal, Step, Leave, files, Goto
<1>26. ASSUME NEW h \in Hp, WaitKilled(h) PROVE FilesUnderLock'
  BY <1>26 DEF WaitKilled, At, OurQemu, Step, files, procs, Booting, Goto
<1>27. ASSUME NEW h \in Hp, GiveUpOnKilled(h) PROVE FilesUnderLock'
  BY <1>27 DEF GiveUpOnKilled, At, OurQemu, Step, files, procs, Booting, Goto
<1>28. ASSUME NEW h \in Hp, DirExists(h) PROVE FilesUnderLock'
  BY <1>28 DEF DirExists, At, Step, files, procs, Goto
<1>29. ASSUME NEW h \in Hp, RemoveEntry(h) PROVE FilesUnderLock'
  BY <1>29 DEF RemoveEntry, At, RemoveConfig, RemoveDisk, RemoveSeed,
    RemovePid, RemoveQmp, locals
<1>30. ASSUME NEW h \in Hp, RemoveDir(h) PROVE FilesUnderLock'
  BY <1>30 DEF RemoveDir, At, Step, procs, Goto
<1>31. ASSUME NEW h \in Hp, IoError(h) PROVE FilesUnderLock'
  BY <1>31 DEF IoError, Fallible, PartialWrite, Leave, At, procs
<1>32. ASSUME NEW h \in Hp, Crash(h) PROVE FilesUnderLock'
  BY <1>32 DEF Crash, PartialWrite, Leave, At, procs
<1>33. ASSUME NEW p \in Pids, QemuOpensPidFile(p) PROVE FilesUnderLock'
  BY <1>33 DEF QemuOpensPidFile, PidFileLocked, locals, OurQemu, Booting
<1>34. ASSUME NEW p \in Pids, QemuWritesPid(p) PROVE FilesUnderLock'
  BY <1>34 DEF QemuWritesPid, locals
<1>35. ASSUME NEW p \in Pids, QemuReady(p) PROVE FilesUnderLock'
  <2>1. disk # None /\ disk' # None
    BY <1>35 DEF QemuReady, Disks
  <2> QED
    BY <1>35, <2>1 DEF QemuReady, At
<1>36. ASSUME NEW p \in Pids, QemuInitFails(p) PROVE FilesUnderLock'
  BY <1>36 DEF QemuInitFails, Booting, Report, At
<1>37. ASSUME NEW p \in Pids, QemuQuits(p) PROVE FilesUnderLock'
  BY <1>37 DEF QemuQuits, locals
<1>38. ASSUME NEW p \in Pids, ProcessEnds(p) PROVE FilesUnderLock'
  BY <1>38 DEF ProcessEnds, locals, files
<1>39. ASSUME NEW p \in Pids, PidReused(p) PROVE FilesUnderLock'
  BY <1>39 DEF PidReused, locals, files
<1> QED BY <1>1, <1>2, <1>3, <1>4, <1>5, <1>6, <1>7, <1>8, <1>9, <1>10,
  <1>11, <1>12, <1>13, <1>14, <1>15, <1>16, <1>17, <1>18, <1>19, <1>20,
  <1>21, <1>22, <1>23, <1>24, <1>25, <1>26, <1>27, <1>28, <1>29, <1>30,
  <1>31, <1>32, <1>33, <1>34, <1>35, <1>36, <1>37, <1>38, <1>39 DEF Next,
  HpStep, HpFault, CreateStep, StartStep, StopStep, DeleteStep, QemuStep,
  QemuBoots

(* Every step keeps what lock and pid file say of QEMU, faults aside. *)
LEMMA QemuPreserved ==
  ASSUME IndInv, Next
  PROVE  (Undisturbed => QemuUnderLock)'
<1> USE LifecycleAssumption DEF IndInv, TypeOK, LocalsOK, FilesOK, ProcsOK,
  LockDiscipline, LabelsOfOps, FilesUnderLock, QemuUnderLock, AccountedFor,
  Busy, Booting, QuietLabels, PidLabels, InCreate, InStart, OurQemu, KillFinds,
  Undisturbed, DirEmpty, CreateLabels, StartLabels, StopLabels, TrackedQemu,
  QuietSections
<1>1. ASSUME NEW h \in Hp, Invoke(h) PROVE (Undisturbed => QemuUnderLock)'
  BY <1>1 DEF Invoke, At, Goto, files, procs
<1>2. ASSUME NEW h \in Hp, Lock(h) PROVE (Undisturbed => QemuUnderLock)'
  BY <1>2 DEF Lock, At, Goto, files, procs
<1>3. ASSUME NEW h \in Hp, Return(h) PROVE (Undisturbed => QemuUnderLock)'
  BY <1>3 DEF Return, At, Leave, files, procs
<1>4. ASSUME NEW h \in Hp, Status(h) PROVE (Undisturbed => QemuUnderLock)'
  BY <1>4 DEF Status, OnStatus, Missing, Stopped, Leave, Goto, At, files,
    procs, NextLabel, OpAt, Step, Running
<1>5. ASSUME NEW h \in Hp, Match(h) PROVE (Undisturbed => QemuUnderLock)'
  <2> DEFINE st == IF OurQemu(pid[h]) THEN Running ELSE Stopped
  <2>1. OpAt(h) \in Ops
    BY <1>5 DEF Match, OpAt, Ops
  <2>2. OnStatus(h, st) /\ st \in {Missing, Stopped, Running}
    BY <1>5 DEF Match
  <2>3. pc[h] \in {"match", "match2"} /\ UNCHANGED <<files, procs, faults>>
    BY <1>5 DEF Match
  <2>4. st = Stopped => ~Busy(pid[h])
    BY DEF Stopped, Running
  <2>5. CASE Leave(h)
    BY <2>5, <2>3, <2>4 DEF Leave, Step, Goto, OpAt, At, files, procs
  <2>6. CASE st = Missing /\ OpAt(h) = "create" /\ Step(h, "prepare")
    BY <2>6, <2>3, <2>4 DEF Leave, Step, Goto, OpAt, At, files, procs,
      Missing, Stopped, Running
  <2>7. CASE st = Stopped /\ OpAt(h) = "start" /\ Step(h, "artifacts")
    BY <2>7, <2>3, <2>4 DEF Leave, Step, Goto, OpAt, At, files, procs
  <2>8. CASE st = Running /\ OpAt(h) = "start" /\ Step(h, "ssh")
    BY <2>8, <2>3, <2>4 DEF Leave, Step, Goto, OpAt, At, files, procs
  <2>9. CASE st = Stopped /\ OpAt(h) = "stop" /\ Step(h, "clearpid")
    BY <2>9, <2>3, <2>4 DEF Leave, Step, Goto, OpAt, At, files, procs
  <2>10. CASE st = Running /\ OpAt(h) = "stop" /\ Step(h, "readpid")
    BY <2>10, <2>3, <2>4 DEF Leave, Step, Goto, OpAt, At, files, procs
  <2>11. CASE st # Running /\ OpAt(h) = "delete" /\ Step(h, "exists")
    BY <2>11, <2>3, <2>4 DEF Leave, Step, Goto, OpAt, At, files, procs
  <2>12. CASE st = Running /\ OpAt(h) = "delete" /\ Step(h, "status2")
    BY <2>12, <2>3, <2>4 DEF Leave, Step, Goto, OpAt, At, files, procs
  <2> QED BY <2>1, <2>2, OnStatusCases, <2>5, <2>6, <2>7, <2>8, <2>9, <2>10,
    <2>11, <2>12
<1>6. ASSUME NEW h \in Hp, PsFails(h) PROVE (Undisturbed => QemuUnderLock)'
  BY <1>6 DEF PsFails, OnStatus, Stopped, files, procs, NextLabel, OpAt,
    Leave, Step, Missing, Running, Goto
<1>7. ASSUME NEW h \in Hp, Prepare(h) PROVE (Undisturbed => QemuUnderLock)'
  BY <1>7 DEF Prepare, At, Step, files, procs, Goto
<1>8. ASSUME NEW h \in Hp, EnsureDir(h) PROVE (Undisturbed => QemuUnderLock)'
  BY <1>8 DEF EnsureDir, At, Step, procs, Goto
<1>9. ASSUME NEW h \in Hp, CreateOverlayDisk(h)
      PROVE (Undisturbed => QemuUnderLock)'
  BY <1>9 DEF CreateOverlayDisk, At, Step, procs, Goto
<1>10. ASSUME NEW h \in Hp, CreateSeedImage(h)
      PROVE (Undisturbed => QemuUnderLock)'
  BY <1>10 DEF CreateSeedImage, At, Step, procs, Goto
<1>11. ASSUME NEW h \in Hp, WriteConfig(h)
      PROVE (Undisturbed => QemuUnderLock)'
  BY <1>11 DEF WriteConfig, At, Step, procs, Goto
<1>12. ASSUME NEW h \in Hp, EnsureExistingArtifacts(h)
      PROVE (Undisturbed => QemuUnderLock)'
  BY <1>12 DEF EnsureExistingArtifacts, At, Step, Leave, files, procs, Goto
<1>13. ASSUME NEW h \in Hp, ClearPid(h) PROVE (Undisturbed => QemuUnderLock)'
  BY <1>13 DEF ClearPid, At, Step, procs, Goto
<1>14. ASSUME NEW h \in Hp, ClearQmp(h) PROVE (Undisturbed => QemuUnderLock)'
  BY <1>14 DEF ClearQmp, At, Step, procs, Goto
<1>15. ASSUME NEW h \in Hp, LaunchVm(h) PROVE (Undisturbed => QemuUnderLock)'
  BY <1>15 DEF LaunchVm, At, Goto, files
<1>16. ASSUME NEW h \in Hp, LaunchFails(h)
      PROVE (Undisturbed => QemuUnderLock)'
  BY <1>16 DEF LaunchFails, At, Leave, files, procs
<1>17. ASSUME NEW h \in Hp, RunLaunchSpec(h)
      PROVE (Undisturbed => QemuUnderLock)'
  BY <1>17 DEF RunLaunchSpec, At, Step, Leave, files, procs, Goto
<1>18. ASSUME NEW h \in Hp, WaitForPid(h) PROVE (Undisturbed => QemuUnderLock)'
  BY <1>18 DEF WaitForPid, At, Step, Leave, files, procs, Goto
<1>19. ASSUME NEW h \in Hp, WaitForSsh(h) PROVE (Undisturbed => QemuUnderLock)'
  BY <1>19 DEF WaitForSsh, At, Step, Leave, files, procs, Goto
<1>20. ASSUME NEW h \in Hp, InfoStatus(h) PROVE (Undisturbed => QemuUnderLock)'
  BY <1>20 DEF InfoStatus, At, Leave, Step, files, procs, Goto
<1>21. ASSUME NEW h \in Hp, ReadPid(h) PROVE (Undisturbed => QemuUnderLock)'
  BY <1>21 DEF ReadPid, At, Goto, Leave, files, procs
<1>22. ASSUME NEW h \in Hp, RequestStop(h)
      PROVE (Undisturbed => QemuUnderLock)'
  BY <1>22 DEF RequestStop, At, IsFile, Signal, Step, Leave, files, Goto
<1>23. ASSUME NEW h \in Hp, WaitForExit(h)
      PROVE (Undisturbed => QemuUnderLock)'
  BY <1>23 DEF WaitForExit, Step, At, files, procs, Goto
<1>24. ASSUME NEW h \in Hp, Terminate(h) PROVE (Undisturbed => QemuUnderLock)'
  BY <1>24 DEF Terminate, At, Signal, Step, files, Goto
<1>25. ASSUME NEW h \in Hp, Kill(h) PROVE (Undisturbed => QemuUnderLock)'
  BY <1>25 DEF Kill, At, Signal, Step, Leave, files, Goto
<1>26. ASSUME NEW h \in Hp, WaitKilled(h) PROVE (Undisturbed => QemuUnderLock)'
  BY <1>26 DEF WaitKilled, At, Step, files, procs, Goto
<1>27. ASSUME NEW h \in Hp, GiveUpOnKilled(h)
      PROVE (Undisturbed => QemuUnderLock)'
  BY <1>27 DEF GiveUpOnKilled, At, Step, files, procs, Goto
<1>28. ASSUME NEW h \in Hp, DirExists(h) PROVE (Undisturbed => QemuUnderLock)'
  BY <1>28 DEF DirExists, At, Step, files, procs, Goto
<1>29. ASSUME NEW h \in Hp, RemoveEntry(h)
      PROVE (Undisturbed => QemuUnderLock)'
  BY <1>29 DEF RemoveEntry, At, RemoveConfig, RemoveDisk, RemoveSeed,
    RemovePid, RemoveQmp, locals
<1>30. ASSUME NEW h \in Hp, RemoveDir(h) PROVE (Undisturbed => QemuUnderLock)'
  BY <1>30 DEF RemoveDir, At, Step, procs, Goto
<1>31. ASSUME NEW h \in Hp, IoError(h) PROVE (Undisturbed => QemuUnderLock)'
  BY <1>31 DEF IoError, Fallible, PartialWrite, Leave, At, procs
<1>32. ASSUME NEW h \in Hp, Crash(h) PROVE (Undisturbed => QemuUnderLock)'
  BY <1>32 DEF Crash, PartialWrite, Leave, At, procs
<1>33. ASSUME NEW p \in Pids, QemuOpensPidFile(p)
      PROVE (Undisturbed => QemuUnderLock)'
  <2> SUFFICES ASSUME Undisturbed' PROVE QemuUnderLock'
    BY <1>33
  <2>1. stale' = {}
    BY <1>33 DEF QemuOpensPidFile, locals, PidFileLocked, At
  <2>2. TrackedQemu'
    BY <1>33 DEF QemuOpensPidFile, locals, PidFileLocked, At
  <2>3. QuietSections'
    BY <1>33 DEF QemuOpensPidFile, locals, PidFileLocked, At
  <2> QED BY <2>1, <2>2, <2>3
<1>34. ASSUME NEW p \in Pids, QemuWritesPid(p)
      PROVE (Undisturbed => QemuUnderLock)'
  <2> SUFFICES ASSUME Undisturbed' PROVE QemuUnderLock'
    BY <1>34
  <2>1. stale' = {}
    BY <1>34 DEF QemuWritesPid, locals, At
  <2>2. TrackedQemu'
    BY <1>34 DEF QemuWritesPid, locals, At
  <2>3. QuietSections'
    BY <1>34 DEF QemuWritesPid, locals, At
  <2> QED BY <2>1, <2>2, <2>3
<1>35. ASSUME NEW p \in Pids, QemuReady(p)
      PROVE (Undisturbed => QemuUnderLock)'
  BY <1>35 DEF QemuReady, Report, At
<1>36. ASSUME NEW p \in Pids, QemuInitFails(p)
      PROVE (Undisturbed => QemuUnderLock)'
  BY <1>36 DEF QemuInitFails, Report, At
<1>37. ASSUME NEW p \in Pids, QemuQuits(p)
      PROVE (Undisturbed => QemuUnderLock)'
  <2> SUFFICES ASSUME Undisturbed' PROVE QemuUnderLock'
    BY <1>37
  <2>1. stale' = {}
    BY <1>37 DEF QemuQuits, locals
  <2>2. ASSUME NEW q \in Pids, Busy(q)'
        PROVE  q # p /\ proc'[q] = proc[q]
    BY <1>37, <2>2 DEF QemuQuits, locals
  <2>3. TrackedQemu'
    <3>1. ASSUME NEW q \in Pids, Busy(q)' PROVE AccountedFor(q)'
      BY <1>37, <2>2, <3>1 DEF QemuQuits, locals, At
    <3> QED BY <1>37, <2>2, <3>1 DEF QemuQuits, locals
  <2>4. QuietSections'
    BY <1>37, <2>2 DEF QemuQuits, locals
  <2> QED BY <2>1, <2>3, <2>4
<1>38. ASSUME NEW p \in Pids, ProcessEnds(p)
      PROVE (Undisturbed => QemuUnderLock)'
  <2> SUFFICES ASSUME Undisturbed' PROVE QemuUnderLock'
    BY <1>38
  <2>1. stale' = {}
    BY <1>38 DEF ProcessEnds, locals, files
  <2>2. ASSUME NEW q \in Pids, Busy(q)'
        PROVE  q # p /\ proc'[q] = proc[q]
    BY <1>38, <2>2 DEF ProcessEnds, locals, files
  <2>3. TrackedQemu'
    <3>1. ASSUME NEW q \in Pids, Busy(q)' PROVE AccountedFor(q)'
      BY <1>38, <2>2, <3>1 DEF ProcessEnds, locals, files, At
    <3> QED BY <1>38, <2>2, <3>1 DEF ProcessEnds, locals, files
  <2>4. QuietSections'
    BY <1>38, <2>2 DEF ProcessEnds, locals, files
  <2> QED BY <2>1, <2>3, <2>4
<1>39. ASSUME NEW p \in Pids, PidReused(p)
      PROVE (Undisturbed => QemuUnderLock)'
  <2> SUFFICES ASSUME Undisturbed' PROVE QemuUnderLock'
    BY <1>39
  <2>1. stale' = {}
    BY <1>39 DEF PidReused, locals, files
  <2>2. ASSUME NEW q \in Pids, Busy(q)'
        PROVE  q # p /\ proc'[q] = proc[q]
    BY <1>39, <2>2 DEF PidReused, locals, files
  <2>3. TrackedQemu'
    <3>1. ASSUME NEW q \in Pids, Busy(q)' PROVE AccountedFor(q)'
      BY <1>39, <2>2, <3>1 DEF PidReused, locals, files, At
    <3> QED BY <1>39, <2>2, <3>1 DEF PidReused, locals, files
  <2>4. QuietSections'
    BY <1>39, <2>2 DEF PidReused, locals, files
  <2> QED BY <2>1, <2>3, <2>4
<1> QED BY <1>1, <1>2, <1>3, <1>4, <1>5, <1>6, <1>7, <1>8, <1>9, <1>10,
  <1>11, <1>12, <1>13, <1>14, <1>15, <1>16, <1>17, <1>18, <1>19, <1>20,
  <1>21, <1>22, <1>23, <1>24, <1>25, <1>26, <1>27, <1>28, <1>29, <1>30,
  <1>31, <1>32, <1>33, <1>34, <1>35, <1>36, <1>37, <1>38, <1>39 DEF Next,
  HpStep, HpFault, CreateStep, StartStep, StopStep, DeleteStep, QemuStep,
  QemuBoots

-----------------------------------------------------------------------------
(* The inductive invariant, and what follows from it. *)

(* IndInv holds before any VM exists. *)
LEMMA InitInd == Init => IndInv
<1> SUFFICES ASSUME Init PROVE IndInv
  OBVIOUS
<1>1. LocalsOK
  BY DEF Init, LocalsOK, Labels
<1>2. FilesOK
  BY DEF Init, FilesOK
<1>3. ProcsOK /\ faults \in 0..MaxFaults
  BY LifecycleAssumption DEF Init, ProcsOK
<1>4. LockDiscipline
  BY LifecycleAssumption DEF Init, LockDiscipline
<1>5. LabelsOfOps
  BY DEF Init, LabelsOfOps, InCreate, CreateLabels, StartLabels, StopLabels,
    PidLabels
<1>6. FilesUnderLock
  BY DEF Init, FilesUnderLock, DirEmpty, SeedMatchesConfig, InCreate, InStart,
    CreateLabels, StartLabels
<1>7. QemuUnderLock
  BY DEF Init, QemuUnderLock, TrackedQemu, QuietSections, Busy, Booting,
    QuietLabels, PidLabels, CreateLabels
<1> QED
  BY <1>1, <1>2, <1>3, <1>4, <1>5, <1>6, <1>7 DEF IndInv, TypeOK

(* A stuttering step keeps IndInv. *)
LEMMA StutterInd == IndInv /\ UNCHANGED vars => IndInv'
<1> SUFFICES ASSUME IndInv, UNCHANGED vars PROVE IndInv'
  OBVIOUS
<1> USE DEF vars, locals, files, procs
<1>1. TypeOK'
  BY DEF IndInv, TypeOK, LocalsOK, FilesOK, ProcsOK
<1>2. LockDiscipline' /\ LabelsOfOps'
  BY DEF IndInv, LockDiscipline, LabelsOfOps, InCreate
<1>3. FilesUnderLock'
  BY DEF IndInv, FilesUnderLock, DirEmpty, SeedMatchesConfig, InCreate, InStart
<1>4. (Undisturbed => QemuUnderLock)'
  BY DEF IndInv, Undisturbed, QemuUnderLock, TrackedQemu, QuietSections, Busy,
    AccountedFor, At
<1> QED
  BY <1>1, <1>2, <1>3, <1>4 DEF IndInv

(* Operations on one VM exclude each other, and lock, pid file, config and   *)
(* QEMU processes agree in the way IndInv says.                              *)
THEOREM IndInvariant == Spec => []IndInv
<1>1. IndInv /\ [Next]_vars => IndInv'
  <2> SUFFICES ASSUME IndInv, [Next]_vars PROVE IndInv'
    OBVIOUS
  <2>1. CASE Next
    BY <2>1, TypePreserved, LabelsPreserved, LockPreserved, FilesPreserved,
      QemuPreserved DEF IndInv
  <2>2. CASE UNCHANGED vars
    BY <2>2, StutterInd
  <2> QED BY <2>1, <2>2
<1> QED BY InitInd, <1>1, PTL DEF Spec

(* Every variable keeps its type. *)
THEOREM TypeCorrect == Spec => []TypeOK
<1>1. IndInv => TypeOK
  BY DEF IndInv
<1> QED BY <1>1, IndInvariant, PTL

(* At most one QEMU boots or runs for the VM, and the pid file or the        *)
(* operation that holds the lock knows it.                                   *)
THEOREM OneTrackedQemuHolds == Spec => []OneTrackedQemu
<1>1. IndInv => OneTrackedQemu
  BY DEF IndInv, OneTrackedQemu, QemuUnderLock
<1> QED BY <1>1, IndInvariant, PTL

(* `hp stop` returns Ok only when no QEMU of the VM boots or runs. *)
THEOREM StopStopsHolds == Spec => []StopStops
<1>1. IndInv => StopStops
  BY DEF IndInv, StopStops, QemuUnderLock, QuietSections, At
<1> QED BY <1>1, IndInvariant, PTL

(* `hp delete` returns Ok only when nothing is left of the VM. *)
THEOREM DeleteDeletesHolds == Spec => []DeleteDeletes
<1>1. IndInv => DeleteDeletes
  BY DEF IndInv, DeleteDeletes, FilesUnderLock, QemuUnderLock, QuietSections,
    At
<1> QED BY <1>1, IndInvariant, PTL

(* No QEMU runs on a disk that was removed under it. *)
THEOREM NoQemuOnRemovedDiskHolds == Spec => []NoQemuOnRemovedDisk
<1>1. IndInv => NoQemuOnRemovedDisk
  BY DEF IndInv, NoQemuOnRemovedDisk, QemuUnderLock
<1> QED BY <1>1, IndInvariant, PTL

(* After any failures and crashes the seed of a VM is the one made for it. *)
THEOREM SeedMatchesConfigHolds == Spec => []SeedMatchesConfig
<1>1. IndInv => SeedMatchesConfig
  BY DEF IndInv, FilesUnderLock
<1> QED BY <1>1, IndInvariant, PTL

-----------------------------------------------------------------------------
(* Action properties. *)

(* Only write_config and the removal of the directory touch the config, the  *)
(* first when there is none.                                                 *)
LEMMA ConfigStep ==
  ASSUME IndInv, Next
  PROVE  \/ config' = config
         \/ config = None /\ config' \in Specs /\ proc' = proc
         \/ /\ config' = None /\ proc' = proc
            /\ \E h \in Hp : pc[h] = "remove"
<1> USE DEF files, At
<1>1. ASSUME NEW h \in Hp, WriteConfig(h)
      PROVE  config = None /\ config' \in Specs /\ proc' = proc
  BY <1>1 DEF WriteConfig, procs, IndInv, FilesUnderLock, LabelsOfOps,
    InCreate,
    CreateLabels
<1>2. ASSUME NEW h \in Hp, RemoveEntry(h)
      PROVE  \/ config' = config
             \/ config' = None /\ proc' = proc /\ pc[h] = "remove"
  BY <1>2 DEF RemoveEntry, RemoveConfig, RemoveDisk, RemoveSeed, RemovePid,
    RemoveQmp
<1>3. ASSUME NEW h \in Hp, LaunchVm(h) PROVE config' = config
  BY <1>3 DEF LaunchVm
<1>4. ASSUME NEW h \in Hp,
             \/ Invoke(h) \/ Lock(h) \/ Return(h)
             \/ Status(h) \/ Match(h) \/ PsFails(h)
      PROVE  config' = config
  BY <1>4 DEF Invoke, Lock, Return, Status, Match, PsFails
<1>5. ASSUME NEW h \in Hp,
             \/ Prepare(h) \/ EnsureDir(h) \/ CreateOverlayDisk(h)
             \/ CreateSeedImage(h)
      PROVE  config' = config
  BY <1>5 DEF Prepare, EnsureDir, CreateOverlayDisk, CreateSeedImage
<1>6. ASSUME NEW h \in Hp,
             \/ EnsureExistingArtifacts(h) \/ ClearPid(h) \/ ClearQmp(h)
             \/ LaunchFails(h) \/ RunLaunchSpec(h) \/ WaitForPid(h)
             \/ WaitForSsh(h) \/ InfoStatus(h)
      PROVE  config' = config
  BY <1>6 DEF EnsureExistingArtifacts, ClearPid, ClearQmp, LaunchFails,
    RunLaunchSpec, WaitForPid, WaitForSsh, InfoStatus
<1>7. ASSUME NEW h \in Hp,
             \/ ReadPid(h) \/ RequestStop(h) \/ WaitForExit(h)
             \/ Terminate(h) \/ Kill(h) \/ WaitKilled(h)
             \/ GiveUpOnKilled(h)
      PROVE  config' = config
  BY <1>7 DEF ReadPid, RequestStop, WaitForExit, Terminate, Kill, WaitKilled,
    GiveUpOnKilled
<1>8. ASSUME NEW h \in Hp,
             \/ DirExists(h) \/ RemoveDir(h) \/ IoError(h)
             \/ Crash(h)
      PROVE  config' = config
  BY <1>8 DEF DirExists, RemoveDir, IoError, Crash, PartialWrite
<1>9. ASSUME NEW p \in Pids, QemuStep(p) PROVE config' = config
  BY <1>9 DEF QemuStep, QemuBoots, QemuOpensPidFile, QemuWritesPid,
    QemuReady, QemuInitFails, QemuQuits, ProcessEnds, PidReused
<1> QED BY <1>1, <1>2, <1>3, <1>4, <1>5, <1>6, <1>7, <1>8, <1>9 DEF Next,
  HpStep,
  HpFault, CreateStep, StartStep, StopStep, DeleteStep, QemuStep, QemuBoots

(* An existing VM's config is never overwritten. *)
THEOREM ConfigNeverReplacedHolds == Spec => ConfigNeverReplaced
<1>1. IndInv /\ [Next]_vars => [config # None => config' \in {config, None}]_vars
  BY ConfigStep
<1> QED BY <1>1, IndInvariant, PTL DEF Spec, ConfigNeverReplaced

(* A used disk changes only while `hp delete` removes the directory.         *)
LEMMA DiskStep ==
  ASSUME IndInv, Next, disk # None, disk.state = "used", disk' # disk
  PROVE  \E h \in Hp : op[h] = "delete" /\ At(h, "remove")
<1> USE DEF files, At
<1>1. ASSUME NEW h \in Hp, RemoveEntry(h)
      PROVE  op[h] = "delete" /\ At(h, "remove")
  BY <1>1 DEF RemoveEntry, IndInv, LabelsOfOps
<1>2. ASSUME NEW p \in Pids, QemuReady(p) PROVE FALSE
  <2>1. disk \in Disks
    BY DEF IndInv, TypeOK, FilesOK
  <2>2. disk = [spec |-> disk.spec, state |-> disk.state]
    BY <2>1 DEF Disks
  <2>3. [disk EXCEPT !.state = "used"] = disk
    BY <2>2
  <2> QED BY <1>2, <2>3 DEF QemuReady
<1>3. ASSUME NEW h \in Hp, CreateOverlayDisk(h) \/ IoError(h) \/ Crash(h)
      PROVE  FALSE
  BY <1>3 DEF CreateOverlayDisk, IoError, Crash, PartialWrite
<1>4. ASSUME NEW h \in Hp,
             \/ Invoke(h) \/ Lock(h) \/ Return(h)
             \/ Status(h) \/ Match(h) \/ PsFails(h)
             \/ Prepare(h) \/ EnsureDir(h) \/ CreateSeedImage(h)
             \/ WriteConfig(h)
      PROVE  FALSE
  BY <1>4 DEF Invoke, Lock, Return, Status, Match, PsFails, Prepare, EnsureDir,
    CreateSeedImage, WriteConfig
<1>5. ASSUME NEW h \in Hp,
             \/ EnsureExistingArtifacts(h) \/ ClearPid(h) \/ ClearQmp(h)
             \/ LaunchVm(h) \/ LaunchFails(h) \/ RunLaunchSpec(h)
             \/ WaitForPid(h) \/ WaitForSsh(h) \/ InfoStatus(h)
      PROVE  FALSE
  BY <1>5 DEF EnsureExistingArtifacts, ClearPid, ClearQmp, LaunchVm,
    LaunchFails, RunLaunchSpec, WaitForPid, WaitForSsh, InfoStatus
<1>6. ASSUME NEW h \in Hp,
             \/ ReadPid(h) \/ RequestStop(h) \/ WaitForExit(h)
             \/ Terminate(h) \/ Kill(h) \/ WaitKilled(h)
             \/ GiveUpOnKilled(h) \/ DirExists(h) \/ RemoveDir(h)
      PROVE  FALSE
  BY <1>6 DEF ReadPid, RequestStop, WaitForExit, Terminate, Kill, WaitKilled,
    GiveUpOnKilled, DirExists, RemoveDir
<1>7. ASSUME NEW p \in Pids,
             \/ QemuOpensPidFile(p) \/ QemuWritesPid(p) \/ QemuInitFails(p)
             \/ QemuQuits(p) \/ ProcessEnds(p) \/ PidReused(p)
      PROVE  FALSE
  BY <1>7 DEF QemuOpensPidFile, QemuWritesPid, QemuInitFails, QemuQuits,
    ProcessEnds, PidReused
<1> QED BY <1>1, <1>2, <1>3, <1>4, <1>5, <1>6, <1>7 DEF Next, HpStep, HpFault,
  CreateStep, StartStep, StopStep, DeleteStep, QemuStep, QemuBoots

(* The disk a VM has run on is lost only to `hp delete`. *)
THEOREM UsedDiskSurvivesHolds == Spec => UsedDiskSurvives
<1>1. IndInv /\ [Next]_vars =>
        [disk # None /\ disk.state = "used" /\ disk' # disk
           => \E h \in Hp : op[h] = "delete" /\ At(h, "remove")]_vars
  BY DiskStep
<1> QED BY <1>1, IndInvariant, PTL DEF Spec, UsedDiskSurvives

(* QEMU is launched only on a complete directory cleared of the last run's   *)
(* pid file and socket, and never beside another QEMU of the VM.             *)
THEOREM LaunchIsCleanHolds == Spec => LaunchIsClean
<1> DEFINE Clean == /\ config # None /\ disk # None /\ seed = config
                    /\ pidf = None /\ qmp = "none"
                    /\ \A p \in Pids : ~Busy(p)
<1>1. ASSUME IndInv, Undisturbed, NEW h \in Hp, At(h, "launch") PROVE Clean
  BY <1>1 DEF IndInv, FilesUnderLock, QemuUnderLock, QuietSections,
    QuietLabels,
    InStart, StartLabels, At
<1>2. IndInv /\ [Next]_vars =>
        [\A h \in Hp : At(h, "launch") /\ pc'[h] = "qemu" /\ Undisturbed =>
           Clean]_vars
  BY <1>1
<1> QED BY <1>2, IndInvariant, PTL DEF Spec, LaunchIsClean

-----------------------------------------------------------------------------
(* InstanceLifecycle implements VmSpec when nothing disturbs it. *)

On == \E p \in Pids : proc[p] = "up"

(* While undisturbed, a VM goes on only when it is off and exists. *)
LEMMA OnStep ==
  ASSUME IndInv, Undisturbed, Next
  PROVE  \/ On' = On
         \/ ~On /\ On' /\ config # None /\ config' = config
         \/ On /\ ~On' /\ config' = config
<1> USE DEF On, IndInv, TypeOK, ProcsOK
<1>1. ASSUME NEW h \in Hp,
             \/ Invoke(h) \/ Lock(h) \/ Return(h)
             \/ Status(h) \/ Match(h) \/ PsFails(h)
      PROVE  On' = On
  <2>1. proc' = proc
    BY <1>1 DEF procs, Invoke, Lock, Return, Status, Match, PsFails
  <2> QED BY <2>1
<1>2. ASSUME NEW h \in Hp,
             \/ Prepare(h) \/ EnsureDir(h) \/ CreateOverlayDisk(h)
             \/ CreateSeedImage(h)
      PROVE  On' = On
  <2>1. proc' = proc
    BY <1>2 DEF procs, Prepare, EnsureDir, CreateOverlayDisk, CreateSeedImage
  <2> QED BY <2>1
<1>3. ASSUME NEW h \in Hp,
             \/ EnsureExistingArtifacts(h) \/ ClearPid(h) \/ ClearQmp(h)
             \/ LaunchFails(h) \/ RunLaunchSpec(h) \/ WaitForPid(h)
             \/ WaitForSsh(h) \/ InfoStatus(h)
      PROVE  On' = On
  <2>1. proc' = proc
    BY <1>3 DEF procs, EnsureExistingArtifacts, ClearPid, ClearQmp,
      LaunchFails, RunLaunchSpec, WaitForPid, WaitForSsh, InfoStatus
  <2> QED BY <2>1
<1>4. ASSUME NEW h \in Hp,
             \/ ReadPid(h) \/ RequestStop(h) \/ WaitForExit(h)
             \/ Terminate(h) \/ Kill(h) \/ WaitKilled(h)
             \/ GiveUpOnKilled(h)
      PROVE  On' = On
  <2>1. proc' = proc
    BY <1>4 DEF procs, ReadPid, RequestStop, WaitForExit, Terminate, Kill,
      WaitKilled, GiveUpOnKilled
  <2> QED BY <2>1
<1>5. ASSUME NEW h \in Hp,
             \/ WriteConfig(h) \/ RemoveEntry(h) \/ DirExists(h)
             \/ RemoveDir(h) \/ IoError(h) \/ Crash(h)
      PROVE  On' = On
  <2>1. proc' = proc
    BY <1>5 DEF procs, WriteConfig, RemoveEntry, DirExists, RemoveDir,
      IoError, Crash, PartialWrite
  <2> QED BY <2>1
<1>6. ASSUME NEW h \in Hp, LaunchVm(h) PROVE On' = On
  BY <1>6 DEF LaunchVm
<1>7. ASSUME NEW p \in Pids, QemuReady(p)
      PROVE  ~On /\ On' /\ config # None /\ config' = config
  <2>1. Busy(p) /\ TrackedQemu
    BY <1>7 DEF QemuReady, Busy, Booting, QemuUnderLock
  <2>2. ~On
    BY <1>7, <2>1 DEF QemuReady, TrackedQemu, Busy
  <2> QED BY <1>7, <2>1, <2>2 DEF QemuReady, TrackedQemu
<1>8. ASSUME NEW p \in Pids, QemuQuits(p) \/ ProcessEnds(p)
      PROVE  On' = On \/ (On /\ ~On' /\ config' = config)
  <2>1. CASE proc[p] = "up"
    <3>1. \A q \in Pids : proc[q] = "up" => q = p
      BY <2>1 DEF QemuUnderLock, TrackedQemu, Busy
    <3> QED BY <1>8, <2>1, <3>1 DEF QemuQuits, ProcessEnds, files
  <2>2. CASE proc[p] # "up"
    <3>1. \A q \in Pids : proc'[q] = "up" <=> proc[q] = "up"
      BY <1>8, <2>2 DEF QemuQuits, ProcessEnds
    <3> QED BY <3>1
  <2> QED BY <2>1, <2>2
<1>9. ASSUME NEW p \in Pids,
             \/ QemuOpensPidFile(p) \/ QemuWritesPid(p)
             \/ QemuInitFails(p) \/ PidReused(p)
      PROVE  On' = On
  BY <1>9 DEF QemuOpensPidFile, QemuWritesPid, QemuInitFails, PidReused,
    Booting
<1> QED BY <1>1, <1>2, <1>3, <1>4, <1>5, <1>6, <1>7, <1>8, <1>9 DEF Next,
  HpStep,
  HpFault, CreateStep, StartStep, StopStep, DeleteStep, QemuStep, QemuBoots

(* Every undisturbed step is a step of VmSpec, or a stutter. *)
LEMMA VmStep ==
  ASSUME IndInv, Undisturbed, [Next]_vars
  PROVE  [Vm!Next]_<<config, On>>
<1>1. CASE UNCHANGED vars
  BY <1>1 DEF vars, files, procs, On
<1>2. CASE Next
  <2>1. CASE config' = config
    BY <1>2, <2>1, OnStep DEF Vm!Next, Vm!TurnOn, Vm!TurnOff, On
  <2>2. CASE config = None /\ config' \in Specs /\ proc' = proc
    BY <2>2 DEF Vm!Next, Vm!Create, On
  <2>3. CASE /\ config' = None /\ proc' = proc /\ config' # config
             /\ \E h \in Hp : pc[h] = "remove"
    <3>1. ~On
      BY <2>3 DEF IndInv, QemuUnderLock, QuietSections, QuietLabels, Busy, On
    <3> QED
      BY <2>3, <3>1 DEF Vm!Next, Vm!Remove, On
  <2> QED BY <1>2, <2>1, <2>2, <2>3, ConfigStep
<1> QED BY <1>1, <1>2

(* Users of hp see a VM that is absent, off or on, and moves between these   *)
(* as VmSpec says.                                                           *)
THEOREM ImplementsVm == ASSUME MaxFaults = 0 PROVE Spec => VmImplemented
<1>1. Init => Vm!Init
  BY DEF Init, Vm!Init
<1>2. IndInv => Undisturbed
  BY DEF IndInv, TypeOK, Undisturbed
<1>3. IndInv /\ [Next]_vars => [Vm!Next]_<<config, On>>
  BY <1>2, VmStep
<1> QED BY <1>1, <1>3, IndInvariant, PTL DEF Spec, VmImplemented, Vm!Spec, On
=============================================================================
