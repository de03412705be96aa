------------------------- MODULE InstanceLifecycle -------------------------
(***************************************************************************)
(* One named hardpass VM: the files of instances/<name>, the QEMU process  *)
(* that runs it, and several concurrent `hp` invocations (or library       *)
(* calls) that create, start, stop and delete it.                          *)
(*                                                                         *)
(* Every operation holds the flock on instances/<name>.lock from Lock to   *)
(* its return, so hp steps of two operations never interleave; QEMU, the   *)
(* kernel's reuse of pids and crashes of hp do.  One action is one step    *)
(* between two points where something outside hp can interfere.            *)
(***************************************************************************)
EXTENDS Naturals

CONSTANTS
  Hp,         \* concurrent hp invocations
  Pids,       \* operating system process ids
  Specs,      \* what `create` can be asked for (release, size, ports, key)
  None,       \* an absent file, an unset local
  Empty,      \* a pid file QEMU has created and not written yet
  Torn,       \* a seed image truncated and not completely rewritten
  MaxFaults   \* bound on crashes, failing `ps` and unkillable processes

(* A disk.qcow2: what it was created for, and whether a VM has run on it. *)
Disks == [spec : Specs, state : {"torn", "fresh", "used"}]

ASSUME LifecycleAssumption ==
  /\ MaxFaults \in Nat
  /\ None \notin Hp \cup Pids \cup Specs \cup Disks
  /\ Empty \notin Pids \cup {None}
  /\ Torn \notin Specs \cup {None}

VARIABLES
  lock,     \* the holder of the instance lock
  pc,       \* where each invocation is
  op,       \* what it executes
  want,     \* the arguments of its `create`
  pid,      \* the pid it read, or launched
  child,    \* the QEMU command it awaits in run_launch_spec
  dir,      \* does instances/<name> exist
  config,   \* config.json
  disk,     \* disk.qcow2
  seed,     \* seed.img
  pidf,     \* the pid file
  qmp,      \* qmp.sock, a file system entry of this type
  proc,     \* what runs under each process id
  sig,      \* the strongest request to stop each process received from hp
  stale,    \* QEMU processes whose disk.qcow2 has been removed
  faults    \* crashes, failing `ps` and unkillable processes so far

locals == <<lock, pc, op, want, pid, child>>
files  == <<dir, config, disk, seed, pidf, qmp>>
procs  == <<proc, sig, stale>>
vars   == <<locals, files, procs, faults>>

Ops == {"create", "start", "stop", "delete"}

CreateLabels == {"prepare", "mkdir", "disk", "seed", "config"}
StartLabels  == {"artifacts", "launch", "qemu", "waitpid", "ssh", "info"}
StopLabels   == {"status2", "match2", "readpid", "signal", "wait20", "term",
                 "wait5", "kill", "wait2"}
Labels == {"idle", "lock", "status", "match", "clearpid", "clearqmp",
           "exists", "remove", "ok"}
            \cup CreateLabels \cup StartLabels \cup StopLabels

(* The states of a QEMU process before it is up, while it has the disk open  *)
(* or will open it, and while `ps` finds it.                                 *)
Booting == {"boot", "opened", "named"}
Busy(p)  == proc[p] \in Booting \cup {"up"}
OurQemu(p) == proc[p] \in Booting \cup {"up", "exiting"}
(* Whether kill succeeds on p: not on another user's process. *)
KillFinds(p) == IF proc[p] = "foreign" THEN BOOLEAN ELSE {proc[p] # "free"}

LocalsOK == /\ lock \in Hp \cup {None}
            /\ pc \in [Hp -> Labels]
            /\ op \in [Hp -> Ops \cup {"none"}]
            /\ want \in [Hp -> Specs \cup {None}]
            /\ pid \in [Hp -> Pids \cup {None}]
            /\ child \in [Hp -> {"none", "running", "ready", "failed"}]

FilesOK == /\ dir \in BOOLEAN
           /\ config \in Specs \cup {None}
           /\ disk \in Disks \cup {None}
           /\ seed \in Specs \cup {None, Torn}
           /\ pidf \in Pids \cup {None, Empty}
           /\ qmp \in {"none", "socket"}

ProcsOK == /\ proc \in [Pids -> {"free", "boot", "opened", "named", "up",
                                 "exiting", "foreign"}]
           /\ sig \in [Pids -> {"none", "powerdown", "term", "kill"}]
           /\ stale \subseteq Pids

(* Every variable has its type; in particular no operation is left with a    *)
(* pid it never read or a VM file made from arguments nobody gave.           *)
TypeOK == LocalsOK /\ FilesOK /\ ProcsOK /\ faults \in 0..MaxFaults

Init ==
  /\ lock = None
  /\ pc = [h \in Hp |-> "idle"]
  /\ op = [h \in Hp |-> "none"]
  /\ want = [h \in Hp |-> None]
  /\ pid = [h \in Hp |-> None]
  /\ child = [h \in Hp |-> "none"]
  /\ dir = FALSE
  /\ config = None /\ disk = None /\ seed = None
  /\ pidf = None /\ qmp = "none"
  /\ proc = [p \in Pids |-> "free"]
  /\ sig = [p \in Pids |-> "none"]
  /\ stale = {}
  /\ faults = 0

-----------------------------------------------------------------------------
(* Control. *)

At(h, l)   == pc[h] = l
Goto(h, l) == pc' = [pc EXCEPT ![h] = l]

(* Moves on within the operation, touching no local but the label. *)
Step(h, l) == Goto(h, l) /\ UNCHANGED <<lock, op, want, pid, child>>

(* The invocation returns, with an error or not: FileLock is dropped. *)
Leave(h) ==
  /\ lock' = IF lock = h THEN None ELSE lock
  /\ pc' = [pc EXCEPT ![h] = "idle"]
  /\ op' = [op EXCEPT ![h] = "none"]
  /\ want' = [want EXCEPT ![h] = None]
  /\ pid' = [pid EXCEPT ![h] = None]
  /\ child' = [child EXCEPT ![h] = "none"]

Invoke(h) ==
  /\ At(h, "idle")
  /\ Goto(h, "lock")
  /\ \E o \in Ops :
       /\ op' = [op EXCEPT ![h] = o]
       /\ IF o = "create" THEN \E s \in Specs : want' = [want EXCEPT ![h] = s]
                          ELSE UNCHANGED want
  /\ UNCHANGED <<lock, pid, child, files, procs, faults>>

(* Mutant: lock_file does not wait. *)
LockTaken(h) ==
  /\ At(h, "lock")
  /\ lock' = h
  /\ Goto(h, "status")
  /\ UNCHANGED <<op, want, pid, child, files, procs, faults>>

Lock(h) ==
  /\ At(h, "lock")
  /\ lock = None
  /\ lock' = h
  /\ Goto(h, "status")
  /\ UNCHANGED <<op, want, pid, child, files, procs, faults>>

Return(h) ==
  /\ At(h, "ok")
  /\ Leave(h)
  /\ UNCHANGED <<files, procs, faults>>

-----------------------------------------------------------------------------
(* InstancePaths::status, then the match on its result.  `delete` calls it,  *)
(* and on Running enters stop_inner, which calls it again ("status2").       *)

Missing == "Missing"
Stopped == "Stopped"
Running == "Running"

OpAt(h) == IF pc[h] \in {"status2", "match2"} THEN "stop" ELSE op[h]

(* Mutant: create replaces a VM that is not running. *)
CreateAnyway(o, status) ==
  CASE o = "create" -> IF status = Running THEN "bail" ELSE "prepare"
    [] o = "start"  -> IF status = Missing THEN "bail"
                       ELSE IF status = Stopped THEN "artifacts" ELSE "ssh"
    [] o = "stop"   -> IF status = Missing THEN "bail"
                       ELSE IF status = Stopped THEN "clearpid" ELSE "readpid"
    [] o = "delete" -> IF status = Running THEN "status2" ELSE "exists"
    [] OTHER        -> "bail"

(* Mutant: delete does not stop a running VM. *)
DeleteAnyway(o, status) ==
  CASE o = "create" -> IF status = Missing THEN "prepare" ELSE "bail"
    [] o = "start"  -> IF status = Missing THEN "bail"
                       ELSE IF status = Stopped THEN "artifacts" ELSE "ssh"
    [] o = "stop"   -> IF status = Missing THEN "bail"
                       ELSE IF status = Stopped THEN "clearpid" ELSE "readpid"
    [] OTHER        -> "exists"

NextLabel(o, status) ==
  CASE o = "create" -> IF status = Missing THEN "prepare" ELSE "bail"
    [] o = "start"  -> IF status = Missing THEN "bail"
                       ELSE IF status = Stopped THEN "artifacts" ELSE "ssh"
    [] o = "stop"   -> IF status = Missing THEN "bail"
                       ELSE IF status = Stopped THEN "clearpid" ELSE "readpid"
    [] o = "delete" -> IF status = Running THEN "status2" ELSE "exists"
    [] OTHER        -> "bail"

OnStatus(h, status) ==
  LET l == NextLabel(OpAt(h), status)
  IN  IF l = "bail" THEN Leave(h) ELSE Step(h, l)

(* metadata(config), read_pid: a pid file that is still empty is an error. *)
Status(h) ==
  /\ pc[h] \in {"status", "status2"}
  /\ CASE config = None -> OnStatus(h, Missing)
       [] config # None /\ pidf = None  -> OnStatus(h, Stopped)
       [] config # None /\ pidf = Empty -> Leave(h)
       [] OTHER ->
            /\ pid' = [pid EXCEPT ![h] = pidf]
            /\ Goto(h, IF At(h, "status") THEN "match" ELSE "match2")
            /\ UNCHANGED <<lock, op, want, child>>
  /\ UNCHANGED <<files, procs, faults>>

(* process_is_alive and process_matches_instance: the command line of a QEMU *)
(* names this instance's paths from exec to exit.                            *)
Match(h) ==
  /\ pc[h] \in {"match", "match2"}
  /\ OnStatus(h, IF OurQemu(pid[h]) THEN Running ELSE Stopped)
  /\ UNCHANGED <<files, procs, faults>>

(* `ps` cannot be run, or fails: process_matches_instance returns false. *)
PsFails(h) ==
  /\ pc[h] \in {"match", "match2"}
  /\ faults < MaxFaults
  /\ faults' = faults + 1
  /\ OnStatus(h, Stopped)
  /\ UNCHANGED <<files, procs>>

-----------------------------------------------------------------------------
(* create_instance.  Key, cloud-init rendering, image and ports are other    *)
(* components: "prepare" stands for them and touches nothing here.           *)

Prepare(h) ==
  /\ At(h, "prepare")
  /\ Step(h, "mkdir")
  /\ UNCHANGED <<files, procs, faults>>

EnsureDir(h) ==
  /\ At(h, "mkdir")
  /\ dir' = TRUE
  /\ Step(h, "disk")
  /\ UNCHANGED <<config, disk, seed, pidf, qmp, procs, faults>>

(* Mutant: qemu-img create overwrites what is there. *)
RecreateDisk(h) ==
  /\ At(h, "disk")
  /\ disk' = [spec |-> want[h], state |-> "fresh"]
  /\ Step(h, "seed")
  /\ UNCHANGED <<dir, config, seed, pidf, qmp, procs, faults>>

(* create_overlay_disk: an existing disk is kept whatever it was made for. *)
CreateOverlayDisk(h) ==
  /\ At(h, "disk")
  /\ disk' = IF disk # None THEN disk
             ELSE [spec |-> want[h], state |-> "fresh"]
  /\ Step(h, "seed")
  /\ UNCHANGED <<dir, config, seed, pidf, qmp, procs, faults>>

(* Mutant: an existing seed is kept, as an existing disk is. *)
KeepSeed(h) ==
  /\ At(h, "seed")
  /\ seed' = IF seed # None THEN seed ELSE want[h]
  /\ Step(h, "config")
  /\ UNCHANGED <<dir, config, disk, pidf, qmp, procs, faults>>

(* create_seed_image: truncated and rewritten every time. *)
CreateSeedImage(h) ==
  /\ At(h, "seed")
  /\ seed' = want[h]
  /\ Step(h, "config")
  /\ UNCHANGED <<dir, config, disk, pidf, qmp, procs, faults>>

(* write_config: temporary file and rename, so all or nothing. *)
WriteConfig(h) ==
  /\ At(h, "config")
  /\ config' = want[h]
  /\ Step(h, "ok")
  /\ UNCHANGED <<dir, disk, seed, pidf, qmp, procs, faults>>

-----------------------------------------------------------------------------
(* start_locked, and clear_runtime_artifacts, which stop_inner shares. *)

(* Mutant: no ensure_existing_artifacts. *)
LaunchAnyway(h) ==
  /\ At(h, "artifacts")
  /\ Step(h, "clearpid")
  /\ UNCHANGED <<files, procs, faults>>

(* read_config, ensure_start_dependencies and ensure_existing_artifacts read *)
(* only what the lock protects.                                              *)
EnsureExistingArtifacts(h) ==
  /\ At(h, "artifacts")
  /\ IF disk # None /\ seed # None THEN Step(h, "clearpid") ELSE Leave(h)
  /\ UNCHANGED <<files, procs, faults>>

(* Mutant: the pid file is not cleared. *)
KeepPid(h) ==
  /\ At(h, "clearpid")
  /\ Step(h, "clearqmp")
  /\ UNCHANGED <<files, procs, faults>>

ClearPid(h) ==
  /\ At(h, "clearpid")
  /\ pidf' = None
  /\ Step(h, "clearqmp")
  /\ UNCHANGED <<dir, config, disk, seed, qmp, procs, faults>>

ClearQmp(h) ==
  /\ At(h, "clearqmp")
  /\ qmp' = "none"
  /\ Step(h, CASE op[h] = "start"  -> "launch"
               [] op[h] = "delete" -> "exists"
               [] OTHER            -> "ok")
  /\ UNCHANGED <<dir, config, disk, seed, pidf, procs, faults>>

(* launch_vm: the only accel attempt spawns QEMU under a fresh pid. *)
LaunchVm(h) ==
  /\ At(h, "launch")
  /\ \E p \in Pids :
       /\ proc[p] = "free"
       /\ proc' = [proc EXCEPT ![p] = "boot"]
       /\ pid' = [pid EXCEPT ![h] = p]
  /\ child' = [child EXCEPT ![h] = "running"]
  /\ Goto(h, "qemu")
  /\ UNCHANGED <<lock, op, want, sig, stale, files, faults>>

(* fork finds no free pid, or accel resolution or exec fails. *)
LaunchFails(h) ==
  /\ At(h, "launch")
  /\ Leave(h)
  /\ UNCHANGED <<files, procs, faults>>

(* run_launch_spec: the command exits once QEMU daemonized, or failed. *)
RunLaunchSpec(h) ==
  /\ At(h, "qemu")
  /\ child[h] # "running"
  /\ IF child[h] = "ready" THEN Step(h, "waitpid") ELSE Leave(h)
  /\ UNCHANGED <<files, procs, faults>>

(* wait_for_pid: an unreadable pid file is an error, an absent one is polled *)
(* and, after 50 polls, an error too.                                        *)
WaitForPid(h) ==
  /\ At(h, "waitpid")
  /\ IF pidf \in Pids THEN Step(h, "ssh") ELSE Leave(h)
  /\ UNCHANGED <<files, procs, faults>>

(* wait_for_ssh: answered by the guest, or the timeout passes. *)
WaitForSsh(h) ==
  /\ At(h, "ssh")
  /\ \/ (\E p \in Pids : proc[p] = "up") /\ Step(h, "info")
     \/ Leave(h)
  /\ UNCHANGED <<files, procs, faults>>

(* The status read for the VmInfo that is returned; any status will do. *)
InfoStatus(h) ==
  /\ At(h, "info")
  /\ IF config # None /\ pidf = Empty THEN Leave(h) ELSE Step(h, "ok")
  /\ UNCHANGED <<files, procs, faults>>

-----------------------------------------------------------------------------
(* stop_inner, when status was Running. *)

ReadPid(h) ==
  /\ At(h, "readpid")
  /\ IF pidf \in Pids
       THEN /\ pid' = [pid EXCEPT ![h] = pidf]
            /\ Goto(h, "signal")
            /\ UNCHANGED <<lock, op, want, child>>
       ELSE Leave(h)
  /\ UNCHANGED <<files, procs, faults>>

(* Path::is_file: a regular file, not merely an entry that exists. *)
IsFile(entry) == entry = "file"

(* send_signal, when kill succeeds. *)
Signal(h, s) == sig' = [sig EXCEPT ![pid[h]] = s]

RequestStop(h) ==
  /\ At(h, "signal")
  /\ IF IsFile(qmp) THEN Signal(h, "powerdown") /\ Step(h, "wait20")
     ELSE \E found \in KillFinds(pid[h]) :
            IF found THEN Signal(h, "term") /\ Step(h, "wait20")
                     ELSE UNCHANGED sig /\ Leave(h)
  /\ UNCHANGED <<files, proc, stale, faults>>

(* Mutant: no escalation when QEMU outlives the first wait. *)
WaitOnce(h) ==
  /\ pc[h] \in {"wait20", "wait5"}
  /\ Step(h, "clearpid")
  /\ UNCHANGED <<files, procs, faults>>

(* Mutant: the waits have no timeout. *)
WaitForever(h) ==
  /\ pc[h] \in {"wait20", "wait5"}
  /\ FALSE \in KillFinds(pid[h])
  /\ Step(h, "clearpid")
  /\ UNCHANGED <<files, procs, faults>>

(* wait_for_process_exit(20 s) and (5 s): only liveness of the pid counts. *)
WaitForExit(h) ==
  /\ pc[h] \in {"wait20", "wait5"}
  /\ \E found \in KillFinds(pid[h]) :
       Step(h, IF ~found THEN "clearpid"
               ELSE IF At(h, "wait20") THEN "term" ELSE "kill")
  /\ UNCHANGED <<files, procs, faults>>

(* After 20 s SIGTERM, whose failure is ignored. *)
Terminate(h) ==
  /\ At(h, "term")
  /\ \E found \in KillFinds(pid[h]) :
       IF found THEN Signal(h, "term") ELSE UNCHANGED sig
  /\ Step(h, "wait5")
  /\ UNCHANGED <<files, proc, stale, faults>>

(* After 5 s more SIGKILL, whose failure is returned. *)
Kill(h) ==
  /\ At(h, "kill")
  /\ \E found \in KillFinds(pid[h]) :
       IF found THEN Signal(h, "kill") /\ Step(h, "wait2")
                ELSE UNCHANGED sig /\ Leave(h)
  /\ UNCHANGED <<files, proc, stale, faults>>

(* The result of the last wait (2 s) is ignored: it may end because QEMU is  *)
(* gone, or its pid another program's, or while QEMU lives on (a fault).     *)
WaitKilled(h) ==
  /\ At(h, "wait2")
  /\ ~OurQemu(pid[h])
  /\ Step(h, "clearpid")
  /\ UNCHANGED <<files, procs, faults>>

GiveUpOnKilled(h) ==
  /\ At(h, "wait2")
  /\ OurQemu(pid[h])
  /\ faults < MaxFaults
  /\ faults' = faults + 1
  /\ Step(h, "clearpid")
  /\ UNCHANGED <<files, procs>>

-----------------------------------------------------------------------------
(* delete_inner, once the VM is not running. *)

DirExists(h) ==
  /\ At(h, "exists")
  /\ Step(h, IF dir THEN "remove" ELSE "ok")
  /\ UNCHANGED <<files, procs, faults>>

(* remove_dir_all unlinks the entries in the order readdir returns them, and *)
(* the directory last.  A QEMU that has the removed disk open keeps running. *)
RemoveConfig == config # None /\ config' = None
                /\ UNCHANGED <<disk, seed, pidf, qmp, stale>>
RemoveDisk   == disk # None /\ disk' = None
                /\ stale' = stale \cup {p \in Pids : proc[p] = "up"}
                /\ UNCHANGED <<config, seed, pidf, qmp>>
RemoveSeed   == seed # None /\ seed' = None
                /\ UNCHANGED <<config, disk, pidf, qmp, stale>>
RemovePid    == pidf # None /\ pidf' = None
                /\ UNCHANGED <<config, disk, seed, qmp, stale>>
RemoveQmp    == qmp # "none" /\ qmp' = "none"
                /\ UNCHANGED <<config, disk, seed, pidf, stale>>

RemoveEntry(h) ==
  /\ At(h, "remove")
  /\ RemoveConfig \/ RemoveDisk \/ RemoveSeed \/ RemovePid \/ RemoveQmp
  /\ UNCHANGED <<locals, dir, proc, sig, faults>>

DirEmpty == config = None /\ disk = None /\ seed = None
            /\ pidf = None /\ qmp = "none"

(* Mutant: done as soon as the config is gone. *)
RemoveConfigOnly(h) ==
  /\ At(h, "remove")
  /\ config = None
  /\ Step(h, "ok")
  /\ UNCHANGED <<files, procs, faults>>

RemoveDir(h) ==
  /\ At(h, "remove")
  /\ DirEmpty
  /\ dir' = FALSE
  /\ Step(h, "ok")
  /\ UNCHANGED <<config, disk, seed, pidf, qmp, procs, faults>>

-----------------------------------------------------------------------------
(* An operation cut short: an I/O error that `?` returns, or the end of its  *)
(* process.  What it was writing may be partial.                             *)

PartialWrite(h) ==
  /\ \/ UNCHANGED disk
     \/ /\ At(h, "disk") /\ disk = None
        /\ \E s \in {"torn", "fresh"} :
             disk' = [spec |-> want[h], state |-> s]
  /\ \/ UNCHANGED seed
     \/ At(h, "seed") /\ seed' \in {Torn, want[h]}
  /\ UNCHANGED <<dir, config, pidf, qmp, procs>>

Fallible == {"status", "status2", "prepare", "mkdir", "disk", "seed",
             "config", "artifacts", "clearpid", "clearqmp", "waitpid",
             "info", "readpid", "remove"}

IoError(h) ==
  /\ pc[h] \in Fallible
  /\ PartialWrite(h)
  /\ Leave(h)
  /\ UNCHANGED faults

Crash(h) ==
  /\ pc[h] # "idle"
  /\ faults < MaxFaults
  /\ faults' = faults + 1
  /\ PartialWrite(h)
  /\ Leave(h)

-----------------------------------------------------------------------------
(* QEMU and the operating system (external). *)

(* The awaited QEMU command of the invocation that launched p, if any. *)
Report(p, outcome) ==
  child' = [h \in Hp |-> IF At(h, "qemu") /\ pid[h] = p /\ child[h] = "running"
                         THEN outcome ELSE child[h]]

(* QEMU holds a lock on its pid file; another QEMU cannot take it over. *)
PidFileLocked ==
  \/ pidf = Empty /\ \E q \in Pids : proc[q] = "opened"
  \/ pidf \in Pids /\ OurQemu(pidf)

QemuOpensPidFile(p) ==
  /\ proc[p] = "boot"
  /\ dir /\ ~PidFileLocked
  /\ pidf' = Empty
  /\ proc' = [proc EXCEPT ![p] = "opened"]
  /\ UNCHANGED <<locals, dir, config, disk, seed, qmp, sig, stale, faults>>

(* The file may have been unlinked since it was opened. *)
QemuWritesPid(p) ==
  /\ proc[p] = "opened"
  /\ pidf' = IF pidf = Empty THEN p ELSE pidf
  /\ proc' = [proc EXCEPT ![p] = "named"]
  /\ UNCHANGED <<locals, dir, config, disk, seed, qmp, sig, stale, faults>>

(* Listens on the QMP socket, opens the images (the disk under an image lock *)
(* no other QEMU may hold) and lets the launching command exit with success. *)
QemuReady(p) ==
  /\ proc[p] = "named"
  /\ dir /\ disk # None /\ seed # None
  /\ \A q \in Pids \ stale : proc[q] # "up"
  /\ qmp' = "socket"
  /\ disk' = [disk EXCEPT !.state = "used"]
  /\ proc' = [proc EXCEPT ![p] = "up"]
  /\ Report(p, "ready")
  /\ UNCHANGED <<lock, pc, op, want, pid, dir, config, seed, pidf, sig, stale,
                 faults>>

(* Any failure before that, with or without unlinking its pid file. *)
QemuInitFails(p) ==
  /\ proc[p] \in Booting
  /\ pidf' \in {pidf} \cup
       IF pidf = p \/ (proc[p] = "opened" /\ pidf = Empty) THEN {None} ELSE {}
  /\ qmp' \in {qmp} \cup IF proc[p] = "named" /\ dir THEN {"socket"} ELSE {}
  /\ proc' = [proc EXCEPT ![p] = "free"]
  /\ sig' = [sig EXCEPT ![p] = "none"]
  /\ Report(p, "failed")
  /\ UNCHANGED <<lock, pc, op, want, pid, dir, config, disk, seed, stale,
                 faults>>

(* The guest powers off, or a request to stop is honoured: images closed,    *)
(* pid file and socket unlinked, process about to exit.                      *)
QemuQuits(p) ==
  /\ proc[p] = "up"
  /\ pidf' = IF pidf = p THEN None ELSE pidf
  /\ qmp' = "none"
  /\ proc' = [proc EXCEPT ![p] = "exiting"]
  /\ stale' = stale \ {p}
  /\ UNCHANGED <<locals, dir, config, disk, seed, sig, faults>>

(* The process ends; one that is killed leaves its files behind. *)
ProcessEnds(p) ==
  /\ proc[p] \in {"up", "exiting", "foreign"}
  /\ proc' = [proc EXCEPT ![p] = "free"]
  /\ sig' = [sig EXCEPT ![p] = "none"]
  /\ stale' = stale \ {p}
  /\ UNCHANGED <<locals, files, faults>>

(* The kernel gives a free pid to a program that is not a QEMU of this VM. *)
PidReused(p) ==
  /\ proc[p] = "free"
  /\ proc' = [proc EXCEPT ![p] = "foreign"]
  /\ UNCHANGED <<locals, files, sig, stale, faults>>

-----------------------------------------------------------------------------
CreateStep(h) == \/ Prepare(h) \/ EnsureDir(h) \/ CreateOverlayDisk(h)
                 \/ CreateSeedImage(h) \/ WriteConfig(h)
StartStep(h)  == \/ EnsureExistingArtifacts(h) \/ LaunchVm(h)
                 \/ LaunchFails(h) \/ RunLaunchSpec(h) \/ WaitForPid(h)
                 \/ WaitForSsh(h) \/ InfoStatus(h)
StopStep(h)   == \/ ReadPid(h) \/ RequestStop(h) \/ WaitForExit(h)
                 \/ Terminate(h) \/ Kill(h) \/ WaitKilled(h)
DeleteStep(h) == DirExists(h) \/ RemoveEntry(h) \/ RemoveDir(h)

HpStep(h) == \/ Status(h) \/ Match(h) \/ ClearPid(h) \/ ClearQmp(h)
             \/ CreateStep(h) \/ StartStep(h) \/ StopStep(h) \/ DeleteStep(h)
             \/ Return(h)

HpFault(h) == IoError(h) \/ Crash(h) \/ PsFails(h) \/ GiveUpOnKilled(h)

QemuBoots(p) == QemuOpensPidFile(p) \/ QemuWritesPid(p) \/ QemuReady(p)
                \/ QemuInitFails(p)
QemuStep(p)  == QemuBoots(p) \/ QemuQuits(p) \/ ProcessEnds(p) \/ PidReused(p)

Next == \/ \E h \in Hp : Invoke(h) \/ Lock(h) \/ HpStep(h) \/ HpFault(h)
        \/ \E p \in Pids : QemuStep(p)

Spec == Init /\ [][Next]_vars

(* hp steps run to completion (every wait of hp has a timeout, except the    *)
(* wait for the QEMU command, so QEMU's start-up must end), flock is granted *)
(* to a waiter again and again released to it, SIGKILL kills.                *)
Fairness ==
  /\ \A h \in Hp : WF_vars(HpStep(h)) /\ SF_vars(Lock(h))
  /\ \A p \in Pids : /\ WF_vars(QemuBoots(p))
                     /\ WF_vars(sig[p] = "kill" /\ ProcessEnds(p))

FairSpec == Spec /\ Fairness

-----------------------------------------------------------------------------
(* Safety. *)

(* No crash, failing `ps` or unkillable QEMU has happened. *)
Undisturbed == faults = 0

(* The QEMU process p is the one the instance lock and the pid file account  *)
(* for: while it boots, the invocation that holds the lock awaits it, and    *)
(* from then on the pid file names it.                                       *)
AccountedFor(p) ==
  /\ proc[p] = "boot" => pidf = None
  /\ proc[p] = "opened" => pidf = Empty
  /\ proc[p] \in {"named", "up"} => pidf = p
  /\ proc[p] \in Booting =>
       \E h \in Hp : /\ At(h, "qemu") /\ pid[h] = p /\ child[h] = "running"

(* start_locked and stop_inner (instance.rs:422-492): at most one QEMU runs  *)
(* or boots for the VM, the VM exists, and the QEMU is accounted for,        *)
(* whatever the interleaving of invocations and of QEMU's own exit.          *)
TrackedQemu ==
  \A p \in Pids : Busy(p) =>
    /\ config # None
    /\ AccountedFor(p)
    /\ \A q \in Pids : Busy(q) => q = p

OneTrackedQemu == Undisturbed => TrackedQemu

(* stop_inner: `hp stop` that returns Ok leaves no QEMU running or booting.  *)
StopStops ==
  Undisturbed =>
    \A h \in Hp : At(h, "ok") /\ op[h] = "stop" => \A p \in Pids : ~Busy(p)

(* delete_inner: `hp delete` that returns Ok leaves nothing of the directory *)
(* (even after faults) and, undisturbed, no QEMU either.                     *)
DeleteDeletes ==
  \A h \in Hp : At(h, "ok") /\ op[h] = "delete" =>
    /\ ~dir /\ DirEmpty
    /\ Undisturbed => \A p \in Pids : ~Busy(p)

(* remove_all (state.rs:352-359): no QEMU keeps running on an unlinked disk. *)
NoQemuOnRemovedDisk == Undisturbed => stale = {}

(* create_instance writes the seed before the config and rewrites it on      *)
(* every attempt: a VM that has a config never boots with another VM's, or a *)
(* half written, seed, after any failures and crashes.                       *)
SeedMatchesConfig == config # None /\ seed # None => seed = config

-----------------------------------------------------------------------------
(* The inductive invariant the safety properties follow from. *)

InCreate(h)  == pc[h] \in CreateLabels
InStart(h)   == \/ pc[h] \in StartLabels
                \/ pc[h] \in {"clearpid", "clearqmp"} /\ op[h] = "start"

(* The labels from which an operation works on files QEMU must not be using. *)
QuietLabels == CreateLabels \cup {"artifacts", "clearpid", "clearqmp",
                                  "launch", "exists", "remove"}
PidLabels   == {"match", "match2", "signal", "wait20", "term", "wait5", "kill",
                "wait2"}

(* The instance lock is held exactly from Lock to the return. *)
LockDiscipline ==
  \A h \in Hp : lock = h <=> pc[h] \notin {"idle", "lock"}

(* Each label belongs to its operation. *)
LabelsOfOps ==
  \A h \in Hp :
    /\ op[h] = "create" /\ pc[h] # "idle" => want[h] \in Specs
    /\ pc[h] # "idle" => op[h] # "none"
    /\ InCreate(h) => op[h] = "create"
    /\ pc[h] \in StartLabels => op[h] = "start"
    /\ pc[h] \in StopLabels => op[h] \in {"stop", "delete"}
    /\ pc[h] \in {"clearpid", "clearqmp"} => op[h] # "create"
    /\ pc[h] \in {"exists", "remove", "status2", "match2"} => op[h] = "delete"
    /\ pc[h] \in PidLabels \cup {"qemu"} => pid[h] \in Pids
    /\ pc[h] = "qemu" => child[h] # "none"

(* What the lock protects: the files only hp writes. *)
FilesUnderLock ==
  /\ ~dir => DirEmpty
  /\ SeedMatchesConfig
  /\ \A h \in Hp :
       /\ InCreate(h) => config = None
       /\ pc[h] \in {"disk", "seed", "config"} => dir
       /\ pc[h] \in {"seed", "config"} => disk # None
       /\ pc[h] = "config" => seed = want[h]
       /\ InStart(h) \/ pc[h] \in {"match", "match2"} => config # None
       /\ InStart(h) /\ pc[h] \in {"clearpid", "clearqmp", "launch"}
            => disk # None /\ seed = config
       /\ pc[h] = "ok" /\ op[h] = "delete" => ~dir

(* Where an operation has established, or will use, that no QEMU runs, or    *)
(* none but the one whose pid it knows.                                      *)
QuietSections ==
  \A h \in Hp :
    /\ \/ pc[h] \in QuietLabels
       \/ pc[h] = "ok" /\ op[h] # "start"
       => \A p \in Pids : ~Busy(p)
    /\ pc[h] \in PidLabels \cup {"qemu"} =>
         \A p \in Pids : Busy(p) => p = pid[h]
    /\ pc[h] = "qemu" /\ child[h] = "running" => proc[pid[h]] \in Booting
    /\ pc[h] \in {"clearqmp", "launch"} => pidf = None
    /\ pc[h] = "launch" => qmp = "none"

(* What the lock and the pid file protect together, while no fault happened. *)
QemuUnderLock == stale = {} /\ TrackedQemu /\ QuietSections

IndInv == /\ TypeOK
          /\ LockDiscipline
          /\ LabelsOfOps
          /\ FilesUnderLock
          /\ Undisturbed => QemuUnderLock

-----------------------------------------------------------------------------
(* Action properties. *)

(* create_inner bails on an existing VM (instance.rs:267): a config, once    *)
(* written, is never replaced; only removal ends it.                         *)
ConfigNeverReplaced == [][config # None => config' \in {config, None}]_vars

(* create_overlay_disk never recreates a disk, start and stop never touch    *)
(* it: a disk that a VM has used is lost only to `hp delete`.                *)
UsedDiskSurvives ==
  [][disk # None /\ disk.state = "used" /\ disk' # disk
       => \E h \in Hp : op[h] = "delete" /\ At(h, "remove")]_vars

(* start_locked (instance.rs:432-438): QEMU is launched only on a complete   *)
(* directory cleared of the last run's pid file and socket, and never beside *)
(* another QEMU of the VM.                                                   *)
LaunchIsClean ==
  [][\A h \in Hp : At(h, "launch") /\ pc'[h] = "qemu" /\ Undisturbed =>
       /\ config # None /\ disk # None /\ seed = config
       /\ pidf = None /\ qmp = "none"
       /\ \A p \in Pids : ~Busy(p)]_vars

-----------------------------------------------------------------------------
(* Liveness: every invocation returns, and releases the lock.                *)
Termination == \A h \in Hp : ~At(h, "idle") ~> At(h, "idle")

-----------------------------------------------------------------------------
(* What the repository's words promise and the code does not do. *)

(* README.md:18 and cli.rs:23: "gracefully stops a named VM".  A VM that is  *)
(* up with its QMP socket in place is asked to power down.                   *)
StopIsGraceful ==
  [][\A h \in Hp : /\ At(h, "signal") /\ pc'[h] = "wait20"
                   /\ proc[pid[h]] = "up" /\ qmp = "socket"
       => sig'[pid[h]] = "powerdown"]_vars

(* README.md:64: "You can override VM size [...] when needed".  The disk of  *)
(* a VM is the one its `create` asked for.                                   *)
DiskMatchesConfig == config # None /\ disk # None => disk.spec = config

-----------------------------------------------------------------------------
(* The abstract VM this implements while undisturbed. *)
Vm == INSTANCE VmSpec WITH
        vm <- config,
        on <- \E p \in Pids : proc[p] = "up"

VmImplemented == Vm!Spec
=============================================================================
