-------------------------- MODULE UnlockedReaders --------------------------
(***************************************************************************)
(* The operations that take no lock: list, info, exec and ssh, and the     *)
(* library's wait_for_ssh.  Each reads the directory, config.json and the  *)
(* status of a VM one after the other, and connects to the port it has     *)
(* read, while the VMs of PortReservation are created, started, stopped    *)
(* and deleted.                                                            *)
(***************************************************************************)
EXTENDS PortReservation

CONSTANT Readers   \* concurrent calls of these operations

VARIABLES
  step,    \* where each reader is
  task,    \* what it executes
  left,    \* the names a list still has to look at
  vm,      \* the VM it is looking at
  config,  \* the config it has read of it
  rows,    \* what it will print of each VM
  reached, \* the VM whose SSH server accepted it
  result,  \* how it ended
  touched  \* history: VMs that changed since it began

memory  == <<left, vm, config, rows, reached, result>>
reader  == <<step, task, memory>>
allVars == <<vars, reader, touched>>

NoRows == [n \in Names |-> None]

ReadersInit ==
  /\ Init
  /\ step = [r \in Readers |-> "idle"]
  /\ task = [r \in Readers |-> "none"]
  /\ left = [r \in Readers |-> {}]
  /\ vm = [r \in Readers |-> None]
  /\ config = [r \in Readers |-> None]
  /\ rows = [r \in Readers |-> NoRows]
  /\ reached = [r \in Readers |-> None]
  /\ result = [r \in Readers |-> "none"]
  /\ touched = [r \in Readers |-> {}]

-----------------------------------------------------------------------------
(* InstancePaths::status: an error if the pid file is empty, and running as  *)
(* long as it names a live QEMU, whatever that has of its ports.             *)
Status(n) == CASE cfg[n] = None -> "missing"
               [] pc[n] = "opened" -> "unreadable"
               [] pc[n] \in {"boot", "running", "closing"} -> "running"
               [] OTHER -> "stopped"

Rows == [ssh : Ports, status : {"missing", "stopped", "running"}]

StepTo(r, l) == step' = [step EXCEPT ![r] = l]

Finish(r, how) ==
  /\ StepTo(r, "done")
  /\ result' = [result EXCEPT ![r] = how]

AskList(r) ==
  /\ step[r] = "idle"
  /\ task' = [task EXCEPT ![r] = "list"]
  /\ StepTo(r, "names")
  /\ UNCHANGED <<memory, touched, vars>>

Ask(r) ==
  /\ step[r] = "idle"
  /\ \E t \in {"info", "exec", "wait"} : task' = [task EXCEPT ![r] = t]
  /\ \E n \in Names : vm' = [vm EXCEPT ![r] = n]
  /\ StepTo(r, "look")
  /\ UNCHANGED <<left, config, rows, reached, result, touched, vars>>

(* instance_names lists the directories. *)
ListNames(r) ==
  /\ step[r] = "names"
  /\ left' = [left EXCEPT ![r] = dirs]
  /\ StepTo(r, "next")
  /\ UNCHANGED <<task, vm, config, rows, reached, result, touched, vars>>

(* Mutant: a directory without a config ends the loop. *)
BreakRow(r) ==
  /\ step[r] = "next"
  /\ \E n \in left[r] :
       /\ cfg[n] = None
       /\ left' = [left EXCEPT ![r] = {}]
  /\ UNCHANGED <<step, task, vm, config, rows, reached, result, touched, vars>>

(* list, config.is_file(): a directory without a config is passed over. *)
SkipRow(r) ==
  /\ step[r] = "next"
  /\ \E n \in left[r] :
       /\ cfg[n] = None
       /\ left' = [left EXCEPT ![r] = @ \ {n}]
  /\ UNCHANGED <<step, task, vm, config, rows, reached, result, touched, vars>>

SeeRow(r) ==
  /\ step[r] = "next"
  /\ \E n \in left[r] :
       /\ cfg[n] # None
       /\ left' = [left EXCEPT ![r] = @ \ {n}]
       /\ vm' = [vm EXCEPT ![r] = n]
  /\ StepTo(r, "read")
  /\ UNCHANGED <<task, config, rows, reached, result, touched, vars>>

ListDone(r) ==
  /\ step[r] = "next"
  /\ left[r] = {}
  /\ Finish(r, "ok")
  /\ UNCHANGED <<task, left, vm, config, rows, reached, touched, vars>>

(* instance, config.is_file(): "instance does not exist". *)
SeeConfig(r) ==
  /\ step[r] = "look"
  /\ IF cfg[vm[r]] = None THEN Finish(r, "absent")
                          ELSE StepTo(r, "read") /\ UNCHANGED result
  /\ UNCHANGED <<task, left, vm, config, rows, reached, touched, vars>>

(* read_config: an error, if it was deleted since is_file, and then nothing  *)
(* is printed of any VM.                                                     *)
ReadConfig(r) ==
  /\ step[r] = "read"
  /\ IF cfg[vm[r]] = None
     THEN Finish(r, "vanished") /\ UNCHANGED config
     ELSE /\ config' = [config EXCEPT ![r] = cfg[vm[r]]]
          /\ StepTo(r, "status")
          /\ UNCHANGED result
  /\ UNCHANGED <<task, left, vm, rows, reached, touched, vars>>

(* Mutant: the VM is reported as it is expected to be. *)
PutRunning(r) == rows' = [rows EXCEPT ![r][vm[r]] =
                            [ssh |-> config[r].ssh, status |-> "running"]]

PutRow(r) == rows' = [rows EXCEPT ![r][vm[r]] =
                        [ssh |-> config[r].ssh, status |-> Status(vm[r])]]

(* read_pid finds nothing in the pid file: the call fails, and a whole list  *)
(* with it.                                                                  *)
StatusFails(r) ==
  /\ step[r] \in {"status", "report"}
  /\ Status(vm[r]) = "unreadable"
  /\ Finish(r, "unreadable")
  /\ UNCHANGED <<task, left, vm, config, rows, reached, touched, vars>>

(* status is read after the config, and answers "missing" if there is none   *)
(* any more: one row of a list, or VmInfo.                                   *)
ReadStatus(r) ==
  /\ \/ step[r] = "status" /\ task[r] \in {"list", "info"}
     \/ step[r] = "report"
  /\ Status(vm[r]) # "unreadable"
  /\ PutRow(r)
  /\ IF task[r] = "list" THEN StepTo(r, "next") /\ UNCHANGED result
                         ELSE Finish(r, "ok")
  /\ UNCHANGED <<task, left, vm, config, reached, touched, vars>>

(* Mutant: ssh and exec do not ask whether the VM runs. *)
AlwaysRunning(r) ==
  /\ step[r] = "status"
  /\ task[r] \in {"exec", "wait"}
  /\ StepTo(r, "connect")
  /\ UNCHANGED <<task, left, vm, config, rows, reached, result, touched, vars>>

(* running_instance. *)
CheckRunning(r) ==
  /\ step[r] = "status"
  /\ task[r] \in {"exec", "wait"}
  /\ Status(vm[r]) # "unreadable"
  /\ IF Status(vm[r]) = "running"
     THEN StepTo(r, "connect") /\ UNCHANGED result
     ELSE Finish(r, "not running")
  /\ UNCHANGED <<task, left, vm, config, rows, reached, touched, vars>>

(* ssh -p with the port in the config, host keys unchecked, and a key that   *)
(* all VMs accept by default: whoever has the port forwarded is reached.     *)
Connect(r) ==
  /\ step[r] = "connect"
  /\ \E n \in Names :
       /\ pc[n] = "running"
       /\ config[r].ssh \in listening[n]
       /\ reached' = [reached EXCEPT ![r] = n]
  /\ IF task[r] = "exec" THEN Finish(r, "ok")
                         ELSE StepTo(r, "report") /\ UNCHANGED result
  /\ UNCHANGED <<task, left, vm, config, rows, touched, vars>>

(* Mutant: wait_for_ssh has no deadline. *)
ExecNoAnswer(r) ==
  /\ step[r] = "connect"
  /\ task[r] = "exec"
  /\ Finish(r, "no ssh")
  /\ UNCHANGED <<task, left, vm, config, rows, reached, touched, vars>>

(* ssh is not installed or fails, whatever the reason; wait_for_ssh probes   *)
(* again (a step that changes nothing) until its deadline has passed.  The   *)
(* ssh of ssh and exec has no time limit, and may never get here.            *)
NoAnswer(r) ==
  /\ step[r] = "connect"
  /\ Finish(r, "no ssh")
  /\ UNCHANGED <<task, left, vm, config, rows, reached, touched, vars>>

(* hp exits, or the call returns. *)
Forget(r) ==
  /\ step[r] = "done"
  /\ StepTo(r, "idle")
  /\ task' = [task EXCEPT ![r] = "none"]
  /\ left' = [left EXCEPT ![r] = {}]
  /\ vm' = [vm EXCEPT ![r] = None]
  /\ config' = [config EXCEPT ![r] = None]
  /\ rows' = [rows EXCEPT ![r] = NoRows]
  /\ reached' = [reached EXCEPT ![r] = None]
  /\ result' = [result EXCEPT ![r] = "none"]
  /\ touched' = [touched EXCEPT ![r] = {}]
  /\ UNCHANGED vars

(* A step of an operation that holds its VM's lock. *)
Changed == {n \in Names : cfg'[n] # cfg[n] \/ Status(n)' # Status(n)}

VmStep ==
  /\ Next
  /\ touched' = [r \in Readers |-> IF step[r] = "idle" THEN {}
                                   ELSE touched[r] \cup Changed]
  /\ UNCHANGED reader

ReaderStep(r) ==
  \/ ListNames(r) \/ SkipRow(r) \/ SeeRow(r) \/ ListDone(r) \/ SeeConfig(r)
  \/ ReadConfig(r) \/ StatusFails(r) \/ ReadStatus(r) \/ CheckRunning(r)
  \/ Connect(r) \/ NoAnswer(r)

ReadersNext ==
  \/ VmStep
  \/ \E r \in Readers : AskList(r) \/ Ask(r) \/ ReaderStep(r) \/ Forget(r)

ReadersSpec == ReadersInit /\ [][ReadersNext]_allVars

(* A call that was made is executed, and a probe of wait_for_ssh, which has  *)
(* a ConnectTimeout, ends; nothing ends the ssh of ssh and exec.             *)
FairStep(r) == ReaderStep(r) /\ (step[r] = "connect" => task[r] = "wait")

FairReaders == ReadersSpec /\ \A r \in Readers : WF_allVars(FairStep(r))

-----------------------------------------------------------------------------
(* Type invariant. *)
ReadersTypeOK ==
  /\ step \in [Readers -> {"idle", "names", "next", "look", "read", "status",
                           "connect", "report", "done"}]
  /\ task \in [Readers -> {"none", "list", "info", "exec", "wait"}]
  /\ left \in [Readers -> SUBSET Names]
  /\ vm \in [Readers -> Names \cup {None}]
  /\ config \in [Readers -> Configs \cup {None}]
  /\ rows \in [Readers -> [Names -> Rows \cup {None}]]
  /\ reached \in [Readers -> Names \cup {None}]
  /\ result \in [Readers -> {"none", "ok", "absent", "vanished",
                             "unreadable", "not running", "no ssh"}]
  /\ touched \in [Readers -> SUBSET Names]

RowOf(n) == IF cfg[n] = None THEN None
            ELSE [ssh |-> cfg[n].ssh, status |-> Status(n)]

(* list and info (README.md:25, "list shows known VMs") read without a lock: *)
(* of every VM that nobody changed in the meantime the answer is exact,      *)
(* whatever happened to the others.                                          *)
ListRight(r) ==
  step[r] = "done" /\ task[r] = "list" /\ result[r] = "ok" =>
    \A n \in Names \ touched[r] : rows[r][n] = RowOf(n)

ListExact == \A r \in Readers : ListRight(r)

(* info, exec and wait_for_ssh of a VM that nobody changed in the meantime   *)
(* say "does not exist" or "is not running" only if that is so, find its     *)
(* config, and report what it is; and neither they nor a list fail over such *)
(* a VM unless its pid file is empty.                                        *)
AnswerRight(r) ==
  step[r] = "done" /\ vm[r] \in Names \ touched[r] =>
    /\ result[r] # "vanished"
    /\ result[r] = "absent" => cfg[vm[r]] = None
    /\ result[r] = "unreadable" => Status(vm[r]) = "unreadable"
    /\ result[r] = "not running" => Status(vm[r]) = "stopped"
    /\ task[r] \in {"info", "wait"} /\ result[r] = "ok" =>
         rows[r][vm[r]] = RowOf(vm[r])

AnswerExact == \A r \in Readers : AnswerRight(r)

(* ssh, exec and wait_for_ssh connect to a port that was read before, on     *)
(* which any VM may answer by then: a session gets into another VM only if   *)
(* its own was changed since the call began, or if the two record one port   *)
(* and its own QEMU, though it shows as running, has not bound it or has     *)
(* closed it.                                                                *)
Unbound(n) == pc[n] \in {"boot", "closing"}

AtHome(r) ==
  \/ reached'[r] = vm[r]
  \/ vm[r] \in touched[r]
  \/ Unbound(vm[r]) /\ cfg[vm[r]].ssh \in PortsOf(cfg[reached'[r]])

SessionAtHome == [][\A r \in Readers : Connect(r) => AtHome(r)]_allVars

(* Every call returns: wait_for_ssh has its deadline, and a list looks at    *)
(* each directory once.  Only ssh and exec may be left at an ssh without     *)
(* end, and only once they have found their VM running.                      *)
Answered ==
  \A r \in Readers : step[r] # "idle" ~>
    step[r] = "done" \/ (step[r] = "connect" /\ task[r] = "exec")

-----------------------------------------------------------------------------
(* The inductive invariant behind them.  It needs of PortReservation that a  *)
(* QEMU that is up listens on the VM's SSH port (one that merely shows as    *)
(* running need not), and that no port has two listeners.                    *)
RunningListens ==
  \A n \in Names : pc[n] = "running" => cfg[n].ssh \in listening[n]

HasVm == {"look", "read", "status", "connect", "report"}

StepOfTask(r) ==
  /\ step[r] \in HasVm => vm[r] \in Names
  /\ step[r] \in {"look", "report", "connect"} => task[r] # "list"
  /\ step[r] \in {"names", "next"} => task[r] = "list"
  /\ step[r] = "idle" => task[r] = "none" /\ vm[r] = None
  /\ step[r] # "done" => result[r] = "none"
  /\ step[r] \in {"idle", "names"} => rows[r] = NoRows
  /\ vm[r] = None => reached[r] = None
  /\ step[r] \notin {"report", "done"} => reached[r] = None
  /\ step[r] \in {"status", "connect", "report"} => config[r] # None
  /\ task[r] \notin {"list", "none"} => vm[r] \in Names

(* What a reader holds of a VM that nobody changed is right so far. *)
HeldOf(r, n) ==
  /\ vm[r] = n /\ step[r] \in {"read", "status", "connect", "report"} =>
       cfg[n] # None
  /\ vm[r] = n /\ step[r] \in {"status", "connect", "report"} =>
       config[r] = cfg[n]
  /\ vm[r] = n /\ step[r] \in {"connect", "report"} => Status(n) = "running"
  /\ task[r] = "list" /\ step[r] \in {"next", "read", "status"} =>
       \/ rows[r][n] = RowOf(n)
       \/ n \in left[r] /\ rows[r][n] = None
       \/ step[r] # "next" /\ n = vm[r] /\ rows[r][n] = None

Held(r) == \A n \in Names \ touched[r] : HeldOf(r, n)

Reading(r) == StepOfTask(r) /\ Held(r) /\ ListRight(r) /\ AnswerRight(r)

ReadersInv ==
  /\ IndInv
  /\ RunningListens
  /\ ReadersTypeOK
  /\ \A r \in Readers : Reading(r)
=============================================================================
