-------------------------- MODULE PortReservation --------------------------
(***************************************************************************)
(* The host ports of all VMs: concurrent creates of different VMs reserve  *)
(* their forwards and an SSH port under ports.lock, and write them into    *)
(* their configs after they dropped it, while other VMs start, stop and    *)
(* are deleted.  A name has one operation at a time (its instance lock).   *)
(***************************************************************************)
EXTENDS Naturals, Sequences, SequencesExt, FiniteSets

CONSTANTS
  Names,      \* VM names
  Ports,      \* host ports, without 0
  Ephemeral,  \* those the kernel hands out for a bind to port 0
  Requests,   \* the --forward lists a create may be asked for
  None        \* no config, no lock holder, no SSH port yet

Configs == [ssh : Ports, fwd : Requests]

ASSUME PortAssumption ==
  /\ Ports \subseteq Nat \ {0}
  /\ Ephemeral \subseteq Ports
  /\ Requests \subseteq Seq(Ports \cup {0})
  /\ None \notin Names \cup Ports \cup Configs

VARIABLES
  plock,     \* the holder of ports.lock
  pc,        \* what happens to each name
  want,      \* the host side of the forwards it was asked for
  todo,      \* the names whose config its scan still has to read
  occupied,  \* the ports its scan found
  bound,     \* how many forwards it has bound
  ssh,       \* the SSH port it chose
  listening, \* the sockets it, or its QEMU, holds
  dirs,      \* the names that have a directory
  cfg,       \* the ports in each config.json, None without one
  before     \* history: configs that were there when its scan began, and still

vars == <<plock, pc, want, todo, occupied, bound, ssh, listening, dirs, cfg,
          before>>

(* A VM's QEMU: its pid file is there, and empty; it is named in it, and     *)
(* binds its ports; it is up; it has closed its ports, and is still there.   *)
Qemu == {"opened", "boot", "running", "closing"}

PortsOf(c) == {c.ssh} \cup ToSet(c.fwd)
Used == UNION {listening[n] : n \in Names}

(* Type invariant: in particular the ports of a config are ports, and only a *)
(* forward is ever 0.                                                        *)
TypeOK ==
  /\ plock \in Names \cup {None}
  /\ pc \in [Names -> {"absent", "lock", "scan", "bind", "validate", "mkdir",
                       "write", "drop", "stopped"} \cup Qemu]
  /\ want \in [Names -> Requests \cup {<<>>}]
  /\ todo \in [Names -> SUBSET Names]
  /\ occupied \in [Names -> SUBSET (Ports \cup {0})]
  /\ bound \in [Names -> Nat]
  /\ ssh \in [Names -> Ports \cup {None}]
  /\ listening \in [Names -> SUBSET Ports]
  /\ dirs \subseteq Names
  /\ cfg \in [Names -> Configs \cup {None}]
  /\ before \in [Names -> SUBSET Names]

Init ==
  /\ plock = None
  /\ pc = [n \in Names |-> "absent"]
  /\ want = [n \in Names |-> <<>>]
  /\ todo = [n \in Names |-> {}]
  /\ occupied = [n \in Names |-> {}]
  /\ bound = [n \in Names |-> 0]
  /\ ssh = [n \in Names |-> None]
  /\ listening = [n \in Names |-> {}]
  /\ dirs = {}
  /\ cfg = [n \in Names |-> None]
  /\ before = [n \in Names |-> {}]

-----------------------------------------------------------------------------
At(n, l)   == pc[n] = l
Goto(n, l) == pc' = [pc EXCEPT ![n] = l]

Create(n) ==
  /\ At(n, "absent")
  /\ \E r \in Requests : want' = [want EXCEPT ![n] = r]
  /\ Goto(n, "lock")
  /\ UNCHANGED <<plock, todo, occupied, bound, ssh, listening, dirs, cfg,
                 before>>

(* reserve_host_ports takes ports.lock; instance_names lists directories. *)
LockPorts(n) ==
  /\ At(n, "lock")
  /\ plock = None
  /\ plock' = n
  /\ todo' = [todo EXCEPT ![n] = dirs]
  /\ before' = [before EXCEPT ![n] = {m \in Names : cfg[m] # None}]
  /\ Goto(n, "scan")
  /\ UNCHANGED <<want, occupied, bound, ssh, listening, dirs, cfg>>

(* Mutant: only the SSH ports of the other VMs are collected. *)
ScanSshPorts(n) ==
  /\ At(n, "scan")
  /\ \E m \in todo[n] :
       /\ todo' = [todo EXCEPT ![n] = @ \ {m}]
       /\ occupied' = [occupied EXCEPT ![n] =
                         @ \cup IF cfg[m] = None THEN {} ELSE {cfg[m].ssh}]
  /\ UNCHANGED <<plock, pc, want, bound, ssh, listening, dirs, cfg, before>>

(* collect_reserved_host_ports reads one config after the other, and passes  *)
(* over a directory that has none (any more).                                *)
ScanOne(n) ==
  /\ At(n, "scan")
  /\ \E m \in todo[n] :
       /\ todo' = [todo EXCEPT ![n] = @ \ {m}]
       /\ occupied' = [occupied EXCEPT ![n] =
                         @ \cup IF cfg[m] = None THEN {} ELSE PortsOf(cfg[m])]
  /\ UNCHANGED <<plock, pc, want, bound, ssh, listening, dirs, cfg, before>>

ScanDone(n) ==
  /\ At(n, "scan")
  /\ todo[n] = {}
  /\ Goto(n, "bind")
  /\ UNCHANGED <<plock, want, todo, occupied, bound, ssh, listening, dirs, cfg,
                 before>>

(* Mutant: a create that fails keeps ports.lock. *)
AbandonLocked(n) ==
  /\ Goto(n, "absent")
  /\ want' = [want EXCEPT ![n] = <<>>]
  /\ todo' = [todo EXCEPT ![n] = {}]
  /\ occupied' = [occupied EXCEPT ![n] = {}]
  /\ bound' = [bound EXCEPT ![n] = 0]
  /\ ssh' = [ssh EXCEPT ![n] = None]
  /\ listening' = [listening EXCEPT ![n] = {}]
  /\ before' = [before EXCEPT ![n] = {}]
  /\ UNCHANGED <<plock, dirs, cfg>>

(* The create fails: listeners and ports.lock are dropped. *)
Abandon(n) ==
  /\ plock' = IF plock = n THEN None ELSE plock
  /\ Goto(n, "absent")
  /\ want' = [want EXCEPT ![n] = <<>>]
  /\ todo' = [todo EXCEPT ![n] = {}]
  /\ occupied' = [occupied EXCEPT ![n] = {}]
  /\ bound' = [bound EXCEPT ![n] = 0]
  /\ ssh' = [ssh EXCEPT ![n] = None]
  /\ listening' = [listening EXCEPT ![n] = {}]
  /\ before' = [before EXCEPT ![n] = {}]
  /\ UNCHANGED <<dirs, cfg>>

Forward(n) == want[n][bound[n] + 1]

(* reserve_ports, one forward: port 0 binds whatever the kernel gives. *)
BindForward(n) ==
  /\ At(n, "bind")
  /\ bound[n] < Len(want[n])
  /\ Forward(n) \notin occupied[n]
  /\ \E p \in (IF Forward(n) = 0 THEN Ephemeral ELSE {Forward(n)}) \ Used :
       listening' = [listening EXCEPT ![n] = @ \cup {p}]
  /\ bound' = [bound EXCEPT ![n] = @ + 1]
  /\ UNCHANGED <<plock, pc, want, todo, occupied, ssh, dirs, cfg, before>>

(* Reserved by another VM, or in use. *)
ForwardUnavailable(n) ==
  /\ At(n, "bind")
  /\ bound[n] < Len(want[n])
  /\ \/ Forward(n) \in occupied[n]
     \/ (IF Forward(n) = 0 THEN Ephemeral ELSE {Forward(n)}) \subseteq Used
  /\ Abandon(n)

(* Mutant: the listeners are dropped when reserve_ports returns. *)
BindSshBriefly(n) ==
  /\ At(n, "bind")
  /\ bound[n] = Len(want[n])
  /\ \E p \in Ephemeral \ Used :
       /\ p \notin ToSet(want[n]) \cup occupied[n]
       /\ ssh' = [ssh EXCEPT ![n] = p]
  /\ listening' = [listening EXCEPT ![n] = {}]
  /\ plock' = None
  /\ occupied' = [occupied EXCEPT ![n] = {}]
  /\ bound' = [bound EXCEPT ![n] = 0]
  /\ Goto(n, "validate")
  /\ UNCHANGED <<want, todo, dirs, cfg, before>>

(* The loop that asks for ephemeral ports until one suits; ports.lock is     *)
(* dropped when reserve_host_ports returns.                                  *)
BindSsh(n) ==
  /\ At(n, "bind")
  /\ bound[n] = Len(want[n])
  /\ \E p \in Ephemeral \ Used :
       /\ p \notin ToSet(want[n]) \cup occupied[n]
       /\ ssh' = [ssh EXCEPT ![n] = p]
       /\ listening' = [listening EXCEPT ![n] = @ \cup {p}]
  /\ plock' = None
  /\ occupied' = [occupied EXCEPT ![n] = {}]
  /\ bound' = [bound EXCEPT ![n] = 0]
  /\ Goto(n, "validate")
  /\ UNCHANGED <<want, todo, dirs, cfg, before>>

(* The kernel has no port left to hand out. *)
NoPortLeft(n) ==
  /\ At(n, "bind")
  /\ bound[n] = Len(want[n])
  /\ Ephemeral \subseteq Used
  /\ Abandon(n)

(* One SSH port and a list of forwards without a port twice in them. *)
Distinct(p, fwd) == Cardinality({p} \cup ToSet(fwd)) = Len(fwd) + 1

(* Mutant: no validate_forwards. *)
AcceptForwards(n) ==
  /\ At(n, "validate")
  /\ Goto(n, "mkdir")
  /\ UNCHANGED <<plock, want, todo, occupied, bound, ssh, listening, dirs, cfg,
                 before>>

(* validate_forwards: every host port once, the SSH port included. *)
ValidateForwards(n) ==
  /\ At(n, "validate")
  /\ IF Distinct(ssh[n], want[n])
       THEN /\ Goto(n, "mkdir")
            /\ UNCHANGED <<plock, want, todo, occupied, bound, ssh, listening,
                           dirs, cfg, before>>
       ELSE Abandon(n)

EnsureDir(n) ==
  /\ At(n, "mkdir")
  /\ dirs' = dirs \cup {n}
  /\ Goto(n, "write")
  /\ UNCHANGED <<plock, want, todo, occupied, bound, ssh, listening, cfg,
                 before>>

WriteConfig(n) ==
  /\ At(n, "write")
  /\ cfg' = [cfg EXCEPT ![n] = [ssh |-> ssh[n], fwd |-> want[n]]]
  /\ Goto(n, "drop")
  /\ UNCHANGED <<plock, want, todo, occupied, bound, ssh, listening, dirs,
                 before>>

(* create_instance returns, dropping the PortReservation. *)
DropReservation(n) ==
  /\ At(n, "drop")
  /\ listening' = [listening EXCEPT ![n] = {}]
  /\ ssh' = [ssh EXCEPT ![n] = None]
  /\ want' = [want EXCEPT ![n] = <<>>]
  /\ Goto(n, "stopped")
  /\ UNCHANGED <<plock, todo, occupied, bound, dirs, cfg, before>>

(* An error or a crash anywhere in the create; a directory it made stays. *)
CreateFails(n) ==
  /\ pc[n] \in {"lock", "scan", "bind", "validate", "mkdir", "write"}
  /\ Abandon(n)

-----------------------------------------------------------------------------
(* QEMU (external) creates its pid file.  A QEMU that has not, or not yet,   *)
(* got that far does not show.                                               *)
Start(n) ==
  /\ At(n, "stopped")
  /\ Goto(n, "opened")
  /\ UNCHANGED <<plock, want, todo, occupied, bound, ssh, listening, dirs, cfg,
                 before>>

(* It writes its pid into it, before it looks at its network. *)
WritePid(n) ==
  /\ At(n, "opened")
  /\ Goto(n, "boot")
  /\ UNCHANGED <<plock, want, todo, occupied, bound, ssh, listening, dirs, cfg,
                 before>>

(* One hostfwd of qemu_user_network_arg, in any order (port 0 is the         *)
(* kernel's choice and left out here).  None if the port is in use.          *)
BindHostfwd(n) ==
  /\ At(n, "boot")
  /\ \E p \in PortsOf(cfg[n]) \ ({0} \cup Used) :
       listening' = [listening EXCEPT ![n] = @ \cup {p}]
  /\ UNCHANGED <<plock, pc, want, todo, occupied, bound, ssh, dirs, cfg,
                 before>>

(* With all of them, and only then, the guest boots. *)
Boot(n) ==
  /\ At(n, "boot")
  /\ PortsOf(cfg[n]) \subseteq {0} \cup listening[n]
  /\ Goto(n, "running")
  /\ UNCHANGED <<plock, want, todo, occupied, bound, ssh, listening, dirs, cfg,
                 before>>

(* The guest has powered off, or QEMU got SIGTERM. *)
Close(n) ==
  /\ At(n, "running")
  /\ listening' = [listening EXCEPT ![n] = {}]
  /\ Goto(n, "closing")
  /\ UNCHANGED <<plock, want, todo, occupied, bound, ssh, dirs, cfg, before>>

(* The pid file is gone, or the process: QEMU has closed, was killed, or did *)
(* not get a port, or anything else that it needs.  A socket that lingers on *)
(* is felt as a failure to bind, which there may be anyway.  Killed at       *)
(* "opened" it leaves the file, and the VM, as they are.                     *)
Stop(n) ==
  /\ pc[n] \in Qemu
  /\ listening' = [listening EXCEPT ![n] = {}]
  /\ Goto(n, "stopped")
  /\ UNCHANGED <<plock, want, todo, occupied, bound, ssh, dirs, cfg, before>>

Delete(n) ==
  /\ At(n, "stopped")
  /\ cfg' = [cfg EXCEPT ![n] = None]
  /\ dirs' = dirs \ {n}
  /\ before' = [m \in Names |-> IF m = n THEN {} ELSE before[m] \ {n}]
  /\ Goto(n, "absent")
  /\ UNCHANGED <<plock, want, todo, occupied, bound, ssh, listening>>

-----------------------------------------------------------------------------
CreateStep(n) ==
  \/ ScanOne(n) \/ ScanDone(n) \/ BindForward(n) \/ ForwardUnavailable(n)
  \/ BindSsh(n) \/ NoPortLeft(n) \/ ValidateForwards(n) \/ EnsureDir(n)
  \/ WriteConfig(n) \/ DropReservation(n)

Next == \E n \in Names :
          \/ Create(n) \/ LockPorts(n) \/ CreateStep(n) \/ CreateFails(n)
          \/ Start(n) \/ WritePid(n) \/ BindHostfwd(n) \/ Boot(n) \/ Close(n)
          \/ Stop(n) \/ Delete(n)

Spec == Init /\ [][Next]_vars

(* A create goes on to its end, and the flock is granted.                    *)
FairSpec ==
  Spec /\ \A n \in Names : WF_vars(CreateStep(n)) /\ SF_vars(LockPorts(n))

-----------------------------------------------------------------------------
(* reserve_ports and collect_reserved_host_ports: a VM never gets a port of  *)
(* a VM that existed when its reservation began, running or stopped, however *)
(* other creates, starts and deletes interleave with the scan.               *)
Reserved(n) ==
  IF cfg[n] # None THEN PortsOf(cfg[n])
  ELSE IF pc[n] \in {"validate", "mkdir", "write"}
  THEN {ssh[n]} \cup ToSet(want[n])
  ELSE {}

NeverTaken ==
  \A n \in Names : \A m \in before[n] : Reserved(n) \cap PortsOf(cfg[m]) = {}

(* validate_forwards: within one VM every host port is forwarded once.       *)
ForwardsDistinct ==
  \A n \in Names : cfg[n] # None => Distinct(cfg[n].ssh, cfg[n].fwd)

(* Between the return of reserve_host_ports and the end of create_instance   *)
(* the listeners stand in for the config nobody can read yet: two creates    *)
(* that hold reservations at the same time hold different ports.             *)
ConcurrentlyDistinct ==
  \A n, m \in Names :
    /\ n # m
    /\ pc[n] \in {"validate", "mkdir", "write", "drop"}
    /\ pc[m] \in {"validate", "mkdir", "write", "drop"}
    => (Reserved(n) \cap Reserved(m)) \subseteq {0}

(* The inductive invariant behind the three: what each step of a reservation *)
(* has already found or bound, and that no port has two listeners.           *)
Reserving == {"scan", "bind"}
Chosen    == {"validate", "mkdir", "write", "drop"}
Created   == {"drop", "stopped"} \cup Qemu

ConfigsOfPlaces ==
  \A n \in Names :
    /\ cfg[n] # None <=> pc[n] \in Created
    /\ cfg[n] # None => n \in dirs
    /\ pc[n] = "write" => n \in dirs
    /\ pc[n] \notin {"absent", "stopped"} \cup Qemu => want[n] \in Requests
    /\ pc[n] \in Chosen => ssh[n] # None
    /\ pc[n] = "drop" => cfg[n] = [ssh |-> ssh[n], fwd |-> want[n]]

ScanFound ==
  \A n \in Names :
    /\ plock = n <=> pc[n] \in Reserving
    /\ pc[n] # "bind" => bound[n] = 0
    /\ bound[n] <= Len(want[n])
    /\ \A m \in before[n] : m # n /\ cfg[m] # None
    /\ \A m \in before[n] :
         /\ pc[n] = "scan" =>
              m \in todo[n] \/ PortsOf(cfg[m]) \subseteq occupied[n]
         /\ pc[n] = "bind" => PortsOf(cfg[m]) \subseteq occupied[n]
    /\ \A i \in 1..bound[n] : want[n][i] \notin occupied[n]

Listening ==
  /\ \A n, m \in Names : n # m => listening[n] \cap listening[m] = {}
  /\ \A n \in Names :
       /\ \A i \in 1..bound[n] : want[n][i] # 0 => want[n][i] \in listening[n]
       /\ pc[n] \in Chosen => Reserved(n) \ {0} \subseteq listening[n]

OwnPorts ==
  \A n \in Names :
    pc[n] \in {"stopped"} \cup Qemu => listening[n] \subseteq PortsOf(cfg[n])

Validated ==
  \A n \in Names : pc[n] \in {"mkdir", "write"} => Distinct(ssh[n], want[n])

IndInv ==
  /\ TypeOK
  /\ ConfigsOfPlaces
  /\ ScanFound
  /\ Listening
  /\ OwnPorts
  /\ Validated
  /\ NeverTaken
  /\ ForwardsDistinct

(* Every create ends, and ports.lock with it: with enough ephemeral ports    *)
(* the loop in reserve_ports finds one.                                      *)
CreateEnds == \A n \in Names : At(n, "lock") ~> pc[n] \in {"absent", "stopped"}

(* ports.rs:22: "host port {} is already reserved by another Hardpass VM":   *)
(* no two VMs have a host port in common.                                    *)
PortsDisjoint ==
  \A n, m \in Names : n # m /\ cfg[n] # None /\ cfg[m] # None =>
    PortsOf(cfg[n]) \cap PortsOf(cfg[m]) = {}
=============================================================================
