----------------------------- MODULE CreatePath -----------------------------
(***************************************************************************)
(* What create and start ask of the host and of the key store: the status  *)
(* check, the dependency check with its offer to run brew, ssh-keygen on   *)
(* the shared key files, the user-data that carries the public key, and    *)
(* the launch.  Processes share the host, the keys and the VMs; each holds *)
(* the lock of its VM, and within it, one after the other, the locks of    *)
(* its key, of its image and of the ports.  What happens under the last    *)
(* two is in ImageCache and PortReservation, disk and QEMU are in          *)
(* InstanceLifecycle.                                                      *)
(***************************************************************************)
EXTENDS HostTools, CloudInit, Naturals, FiniteSets

CONSTANTS
  Procs,    \* hp processes and library tasks
  Names,    \* VM names
  Keys,     \* paths of identity files
  PubFiles, \* paths of public key files
  PubPath,  \* where hardpass looks for the public key of an identity file
  GenPub,   \* where ssh-keygen writes it
  Machines, \* the states of the host as its owner installs and removes tools
  Args,     \* what create is asked for
  MaxKeys,  \* bound: key pairs ever made
  None

PortsLock == "ports"

(* The lock files: one per VM, key and image directory, and one for ports.   *)
Locks == Names \cup Keys \cup Archs \cup {PortsLock}

ASSUME CreateAssumption ==
  /\ Machines \subseteq Hosts
  /\ PubPath \in [Keys -> PubFiles]
  /\ GenPub \in [Keys -> PubFiles]
  /\ MaxKeys \in Nat
  /\ None \notin Nat
  /\ None \notin Procs
  /\ Names \cap Keys = {}
  /\ (Names \cup Keys) \cap (Archs \cup {PortsLock}) = {}
  /\ \A a \in Args : a.key \in Keys /\ a.arch \in Archs /\ None # a

VARIABLES
  pc,      \* where each process is
  req,     \* what it was asked: [op, name, prompt, args]
  key,     \* the key its ssh-keygen makes, then the public key it has read
  lock,    \* holder of each lock
  host,    \* the host now
  made,    \* key pairs made so far
  priv,    \* the key in each identity file
  pub,     \* the key in each public key file
  config,  \* config.json of each VM: the args it was created with
  seed,    \* the user-data in each seed image
  running  \* whether its QEMU runs

files == <<priv, pub, made>>
vms   == <<config, seed, running>>
vars  == <<pc, req, key, lock, host, files, vms>>

NoReq == [op |-> "none"]

Init ==
  /\ pc = [p \in Procs |-> "idle"]
  /\ req = [p \in Procs |-> NoReq]
  /\ key = [p \in Procs |-> None]
  /\ lock = [l \in Locks |-> None]
  /\ host \in Machines
  /\ made = 0
  /\ priv = [k \in Keys |-> None]
  /\ pub = [f \in PubFiles |-> None]
  /\ config = [n \in Names |-> None]
  /\ seed = [n \in Names |-> None]
  /\ running = [n \in Names |-> FALSE]

-----------------------------------------------------------------------------
Goto(p, l) == pc' = [pc EXCEPT ![p] = l]

Take(l, p) == lock[l] = None /\ lock' = [lock EXCEPT ![l] = p]

Drop(l) == lock' = [lock EXCEPT ![l] = None]

Unlocked(p) == [l \in Locks |-> IF lock[l] = p THEN None ELSE lock[l]]

(* Mutant: a process that ends keeps the lock of its key. *)
EndKeepingKey(p) ==
  /\ Goto(p, "idle")
  /\ lock' = [l \in Locks |->
                IF lock[l] = p /\ l \notin Keys THEN None ELSE lock[l]]
  /\ req' = [req EXCEPT ![p] = NoReq]
  /\ key' = [key EXCEPT ![p] = None]
  /\ UNCHANGED <<host, files, vms>>

(* A return, an error or the death of the process: the FileLocks go.         *)
End(p) ==
  /\ Goto(p, "idle")
  /\ lock' = Unlocked(p)
  /\ req' = [req EXCEPT ![p] = NoReq]
  /\ key' = [key EXCEPT ![p] = None]
  /\ UNCHANGED <<host, files, vms>>

Op(p)   == req[p].op
Name(p) == req[p].name
Id(p)   == req[p].args.key
Image(p) == req[p].args.arch   \* of one release, the image directory

(* A create makes at most one pair: MaxKeys bounds them here, where nothing  *)
(* waits.                                                                    *)
InvokeCreate(p) ==
  /\ pc[p] = "idle"
  /\ made + Cardinality({q \in Procs : pc[q] # "idle"}) < MaxKeys
  /\ \E n \in Names, prompt \in BOOLEAN, a \in Args :
       req' = [req EXCEPT ![p] =
                 [op |-> "create", name |-> n, prompt |-> prompt, args |-> a]]
  /\ Goto(p, "lock")
  /\ UNCHANGED <<key, lock, host, files, vms>>

InvokeStart(p) ==
  /\ pc[p] = "idle"
  /\ \E n \in Names, prompt \in BOOLEAN :
       req' = [req EXCEPT ![p] =
                 [op |-> "start", name |-> n, prompt |-> prompt]]
  /\ Goto(p, "lock")
  /\ UNCHANGED <<key, lock, host, files, vms>>

LockInstance(p) ==
  /\ pc[p] = "lock"
  /\ Take(Name(p), p)
  /\ Goto(p, "status")
  /\ UNCHANGED <<req, key, host, files, vms>>

(* create wants no VM of that name and a supported combination, start a VM.  *)
Accepted(p) ==
  IF Op(p) = "create"
  THEN /\ ComboOk(host, req[p].args.arch, req[p].args.accel)
       /\ config[Name(p)] = None
  ELSE config[Name(p)] # None

CheckStatus(p) ==
  /\ pc[p] = "status"
  /\ Accepted(p)
  /\ Goto(p, "deps")
  /\ UNCHANGED <<req, key, lock, host, files, vms>>

Refused(p) == pc[p] = "status" /\ ~Accepted(p) /\ End(p)

-----------------------------------------------------------------------------
(* The dependency check, under the lock of the VM.                           *)
MissingFor(p) ==
  IF Op(p) = "create"
  THEN CreateMissing(host, req[p].args.arch)
  ELSE StartMissing(host, config[Name(p)].arch, ~running[Name(p)])

Offered(p) ==
  pc[p] = "deps" /\ req[p].prompt /\ OffersBrew(host, MissingFor(p))

OfferBrew(p) ==
  /\ Offered(p)
  /\ Goto(p, "ask")
  /\ UNCHANGED <<req, key, lock, host, files, vms>>

AnswerYes(p) ==
  /\ pc[p] = "ask"
  /\ Goto(p, "brew")
  /\ UNCHANGED <<req, key, lock, host, files, vms>>

(* What was found missing still is, as far as this process knows.            *)
AnswerNo(p) == pc[p] = "ask" /\ End(p)

BrewInstalls(p) ==
  /\ pc[p] = "brew"
  /\ host' = WithQemu(host)
  /\ Goto(p, "recheck")
  /\ UNCHANGED <<req, key, lock, files, vms>>

Checking(p) == pc[p] = "recheck" \/ (pc[p] = "deps" /\ ~Offered(p))

DepsFound(p) ==
  /\ Checking(p)
  /\ MissingFor(p) = {}
  /\ Goto(p, IF Op(p) = "create" THEN "keylock"
             ELSE IF running[Name(p)] THEN "ssh" ELSE "launch")
  /\ UNCHANGED <<req, key, lock, host, files, vms>>

DepsMissing(p) == Checking(p) /\ MissingFor(p) # {} /\ End(p)

-----------------------------------------------------------------------------
(* ensure_ssh_key.                                                           *)

(* Mutant: the key is ensured without its lock. *)
NoKeyLock(p) ==
  /\ pc[p] = "keylock"
  /\ Goto(p, "key")
  /\ UNCHANGED <<req, key, lock, host, files, vms>>

LockKey(p) ==
  /\ pc[p] = "keylock"
  /\ Take(Id(p), p)
  /\ Goto(p, "key")
  /\ UNCHANGED <<req, key, host, files, vms>>

BothFiles(k) == priv[k] # None /\ pub[PubPath[k]] # None

HasKeyPair(p) ==
  /\ pc[p] = "key"
  /\ BothFiles(Id(p))
  /\ Goto(p, "readpub")
  /\ UNCHANGED <<req, key, lock, host, files, vms>>

(* ssh-keygen, given an identity file that exists, asks to overwrite it: the *)
(* question goes to a pipe, the answer is read from the inherited stdin.     *)
RunKeygen(p) ==
  /\ pc[p] = "key"
  /\ ~BothFiles(Id(p))
  /\ "ssh-keygen" \in host.tools
  /\ Goto(p, IF priv[Id(p)] = None THEN "private" ELSE "overwrite")
  /\ UNCHANGED <<req, key, lock, host, files, vms>>

NoKeygen(p) ==
  /\ pc[p] = "key"
  /\ ~BothFiles(Id(p))
  /\ "ssh-keygen" \notin host.tools
  /\ End(p)

AnswerOverwrite(p) ==
  /\ pc[p] = "overwrite"
  /\ Goto(p, "private")
  /\ UNCHANGED <<req, key, lock, host, files, vms>>

AnswerKeep(p) == pc[p] = "overwrite" /\ End(p)

KeygenPrivate(p) ==
  /\ pc[p] = "private"
  /\ made' = made + 1
  /\ priv' = [priv EXCEPT ![Id(p)] = made']
  /\ key' = [key EXCEPT ![p] = made']
  /\ Goto(p, "public")
  /\ UNCHANGED <<req, lock, host, pub, vms>>

KeygenPublic(p) ==
  /\ pc[p] = "public"
  /\ pub' = [pub EXCEPT ![GenPub[Id(p)]] = key[p]]
  /\ Goto(p, "readpub")
  /\ UNCHANGED <<req, key, lock, host, priv, made, vms>>

(* read_to_string: an error, if ssh-keygen wrote the public key elsewhere.   *)
ReadPub(p) ==
  /\ pc[p] = "readpub"
  /\ IF pub[PubPath[Id(p)]] = None
     THEN End(p)
     ELSE /\ key' = [key EXCEPT ![p] = pub[PubPath[Id(p)]]]
          /\ Drop(Id(p))
          /\ Goto(p, "imagelock")
          /\ UNCHANGED <<req, host, files, vms>>

-----------------------------------------------------------------------------
(* ensure_image and reserve_host_ports, each under a lock of its own.        *)
LockImage(p) ==
  /\ pc[p] = "imagelock"
  /\ Take(Image(p), p)
  /\ Goto(p, "image")
  /\ UNCHANGED <<req, key, host, files, vms>>

EnsureImage(p) ==
  /\ pc[p] = "image"
  /\ Drop(Image(p))
  /\ Goto(p, "portslock")
  /\ UNCHANGED <<req, key, host, files, vms>>

LockPorts(p) ==
  /\ pc[p] = "portslock"
  /\ Take(PortsLock, p)
  /\ Goto(p, "ports")
  /\ UNCHANGED <<req, key, host, files, vms>>

ReservePorts(p) ==
  /\ pc[p] = "ports"
  /\ Drop(PortsLock)
  /\ Goto(p, "seed")
  /\ UNCHANGED <<req, key, host, files, vms>>

(* The rest of create_instance: the seed, then the config.                   *)
UserData(p) == MergeYaml(DefaultUserData(key[p]), req[p].args.override)

CreateSeed(p) ==
  /\ pc[p] = "seed"
  /\ seed' = [seed EXCEPT ![Name(p)] = UserData(p)]
  /\ Goto(p, "config")
  /\ UNCHANGED <<req, key, lock, host, files, config, running>>

WriteConfig(p) ==
  /\ pc[p] = "config"
  /\ config' = [config EXCEPT ![Name(p)] = req[p].args]
  /\ Goto(p, "created")
  /\ UNCHANGED <<req, key, lock, host, files, seed, running>>

CreateDone(p) == pc[p] = "created" /\ End(p)

(* start: launch_vm, then wait_for_ssh until its deadline. *)
CanLaunch(n) ==
  /\ QemuSystem(config[n].arch) \in host.tools
  /\ FirmwareMissing(host, config[n].arch) = {}
  /\ AccelResolves(host, config[n].accel)

Launch(p) ==
  /\ pc[p] = "launch"
  /\ CanLaunch(Name(p))
  /\ running' = [running EXCEPT ![Name(p)] = TRUE]
  /\ Goto(p, "ssh")
  /\ UNCHANGED <<req, key, lock, host, files, config, seed>>

LaunchRefused(p) == pc[p] = "launch" /\ ~CanLaunch(Name(p)) /\ End(p)

WaitForSsh(p) == pc[p] = "ssh" /\ End(p)

-----------------------------------------------------------------------------
(* Any call may fail, brew too, and Ctrl-C ends hp with the child it runs.   *)
Stops(p) == pc[p] # "idle" /\ End(p)

(* stop and delete, under the lock of the VM. *)
StopVm(n) ==
  /\ lock[n] = None
  /\ running[n]
  /\ running' = [running EXCEPT ![n] = FALSE]
  /\ UNCHANGED <<pc, req, key, lock, host, files, config, seed>>

DeleteVm(n) ==
  /\ lock[n] = None
  /\ config[n] # None
  /\ config' = [config EXCEPT ![n] = None]
  /\ seed' = [seed EXCEPT ![n] = None]
  /\ running' = [running EXCEPT ![n] = FALSE]
  /\ UNCHANGED <<pc, req, key, lock, host, files>>

(* The owner of the host installs and removes tools. *)
HostChanges ==
  /\ host' \in {m \in Machines : m.os = host.os /\ m.arch = host.arch}
  /\ UNCHANGED <<pc, req, key, lock, files, vms>>

(* The steps of a process that no person decides. *)
Advance(p) ==
  \/ CheckStatus(p) \/ Refused(p)
  \/ OfferBrew(p) \/ BrewInstalls(p) \/ DepsFound(p) \/ DepsMissing(p)
  \/ HasKeyPair(p) \/ RunKeygen(p) \/ NoKeygen(p)
  \/ KeygenPrivate(p) \/ KeygenPublic(p) \/ ReadPub(p)
  \/ EnsureImage(p) \/ ReservePorts(p)
  \/ CreateSeed(p) \/ WriteConfig(p) \/ CreateDone(p)
  \/ Launch(p) \/ LaunchRefused(p) \/ WaitForSsh(p)

Answer(p) ==
  AnswerYes(p) \/ AnswerNo(p) \/ AnswerOverwrite(p) \/ AnswerKeep(p)

TakeLock(p) ==
  LockInstance(p) \/ LockKey(p) \/ LockImage(p) \/ LockPorts(p)

Step(p) ==
  \/ InvokeCreate(p) \/ InvokeStart(p)
  \/ TakeLock(p) \/ Advance(p) \/ Answer(p) \/ Stops(p)

Next ==
  \/ \E p \in Procs : Step(p)
  \/ \E n \in Names : StopVm(n) \/ DeleteVm(n)
  \/ HostChanges

Spec == Init /\ [][Next]_vars

(* A process that can run does, and flock lets every waiter in that finds    *)
(* the lock free again and again.  Nobody has to answer a prompt.            *)
Fairness == \A p \in Procs : WF_vars(Advance(p)) /\ SF_vars(TakeLock(p))

FairSpec == Spec /\ Fairness

-----------------------------------------------------------------------------
KeyIds == 1..made

Asking == {"ask", "overwrite"}

(* The steps of create after its check: under the VM's lock, and of these    *)
(* the ones under the key's lock, and those that know the public key.        *)
KeySteps == {"key", "private", "overwrite", "public", "readpub"}
HasKey   == {"imagelock", "image", "portslock", "ports", "seed", "config"}
Creating == {"keylock", "created"} \cup KeySteps \cup HasKey
Locked == {"status", "deps", "ask", "brew", "recheck", "launch", "ssh"}
            \cup Creating

KeyOrNone == KeyIds \cup {None}

(* The types of the state (InstanceConfig, SshConfig, the files of ssh.rs).  *)
TypeOK ==
  /\ pc \in [Procs -> {"idle", "lock"} \cup Locked]
  /\ DOMAIN req = Procs
  /\ \A p \in Procs :
       pc[p] # "idle" =>
         /\ Name(p) \in Names
         /\ Op(p) = "create" => req[p].args \in Args
  /\ key \in [Procs -> KeyOrNone]
  /\ lock \in [Locks -> Procs \cup {None}]
  /\ host \in Hosts
  /\ made \in Nat
  /\ priv \in [Keys -> KeyOrNone]
  /\ pub \in [PubFiles -> KeyOrNone]
  /\ config \in [Names -> Args \cup {None}]
  /\ DOMAIN seed = Names

(* The locks that a process is at work under: its VM's past "lock", in       *)
(* ensure_ssh_key its key's, in ensure_image its image's, and the ports'.    *)
WorksUnder(p, l) ==
  \/ pc[p] \in Locked /\ l = Name(p)
  \/ pc[p] \in KeySteps /\ l = Id(p)
  \/ pc[p] = "image" /\ l = Image(p)
  \/ pc[p] = "ports" /\ l = PortsLock

(* It holds these and no other. *)
Holds(p) == \A l \in Locks : lock[l] = p <=> WorksUnder(p, l)

LocksHeld == \A p \in Procs : Holds(p)

(* Only create goes where create goes. *)
Creators == \A p \in Procs : pc[p] \in Creating => Op(p) = "create"

(* The inductive invariant of the locks, wherever the keys are. *)
LockInv == TypeOK /\ LocksHeld /\ Creators

(* A public key file holds the public half of its identity file.             *)
PairsMatch ==
  \A k \in Keys : pub[PubPath[k]] # None => pub[PubPath[k]] = priv[k]

(* What a create knows at each of its steps. *)
Knows(p) ==
  /\ pc[p] \in Locked \ {"status", "created"} =>
       (Op(p) = "create" <=> config[Name(p)] = None)
  /\ pc[p] \in {"private", "overwrite", "public"} =>
       pub[PubPath[Id(p)]] = None
  /\ pc[p] = "public" => key[p] # None /\ priv[Id(p)] = key[p]
  /\ pc[p] \in HasKey =>
       key[p] # None /\ pub[PubPath[Id(p)]] = key[p]
  /\ pc[p] = "config" => seed[Name(p)] = UserData(p)

CreateKnows == \A p \in Procs : Knows(p)

(* A VM's identity file has its public half, and that is the key its seed    *)
(* lets in.                                                                  *)
Keyed(n) ==
  config[n] # None =>
    /\ pub[PubPath[config[n].key]] # None
    /\ seed[n] = MergeYaml(DefaultUserData(pub[PubPath[config[n].key]]),
                           config[n].override)

VmsKeyed == \A n \in Names : Keyed(n)

(* The inductive invariant of the keys, where hardpass finds the public file *)
(* that ssh-keygen writes.                                                   *)
IndInv == LockInv /\ PairsMatch /\ CreateKnows /\ VmsKeyed

(* ssh-keygen writes k.pub, hardpass reads k.with_extension("pub"): the same *)
(* file, and no other key's, for a path without a dot in its file name.      *)
Undotted ==
  /\ GenPub = PubPath
  /\ \A j, k \in Keys : PubPath[j] = PubPath[k] => j = k

-----------------------------------------------------------------------------
(* The identity file in a VM's config opens the VM, unless its owner's       *)
(* user-data brings users of its own (create_instance, ensure_ssh_key: one   *)
(* key pair in two files, made once and shared by concurrent creates, some   *)
(* of which die between the files).                                          *)
SshKeyFits ==
  \A n \in Names :
    config[n] # None /\ "users" \notin DOMAIN config[n].override.at =>
      Authorized(seed[n]) = {priv[config[n].key]}

(* No create, retried or concurrent, replaces an identity file that a VM     *)
(* uses (ensure_ssh_key runs ssh-keygen when either of two files is absent). *)
KeyStays ==
  [][\A n \in Names :
       config[n] # None => priv'[config[n].key] = priv[config[n].key]]_vars

(* A seed has every setting of the user's file, at every depth, and every    *)
(* default the file does not touch (render_cloud_init, merge_yaml).          *)
SeedLayered ==
  \A n \in Names :
    config[n] # None =>
      Layered(seed[n],
              DefaultUserData(pub[PubPath[config[n].key]]),
              config[n].override)

(* Where doctor finds nothing to say, no create or start of a guest of the   *)
(* host's architecture is turned away for the host's sake (README: run       *)
(* `hp doctor` to confirm the local environment before creating a VM): three *)
(* lists of tools in three functions agree.                                  *)
Vouched(accel) == DoctorOk(host) /\ ~DoctorWarns(host) /\ accel \in {"auto", "tcg"}

DoctorVouches ==
  [][\A p \in Procs :
       /\ DepsMissing(p) /\ Op(p) = "create" /\ req[p].args.arch = host.arch =>
            ~Vouched("auto")
       /\ (DepsMissing(p) /\ Op(p) = "start") \/ LaunchRefused(p) =>
            config[Name(p)].arch # host.arch \/ ~Vouched(config[Name(p)].accel)
    ]_vars

(* create holds a VM's lock while it takes three others, and a start while   *)
(* it waits for tools: a process that waits for a lock waits for one that    *)
(* is at work, or for one that waits for one that is (create_inner,          *)
(* ensure_ssh_key, ensure_image, reserve_host_ports).  So nobody waits for   *)
(* itself in the end, nor for a lock that its last holder took along.        *)
Wants(p) == CASE pc[p] = "lock" -> Name(p)
              [] pc[p] = "keylock" -> Id(p)
              [] pc[p] = "imagelock" -> Image(p)
              [] pc[p] = "portslock" -> PortsLock

Waits(p) ==
  /\ pc[p] \in {"lock", "keylock", "imagelock", "portslock"}
  /\ lock[Wants(p)] # None

Blocker(p) == lock[Wants(p)]

AtWork(p) == pc[p] # "idle" /\ ~Waits(p)

WaitsEnd ==
  \A p \in Procs :
    Waits(p) =>
      \/ AtWork(Blocker(p))
      \/ Waits(Blocker(p)) /\ AtWork(Blocker(Blocker(p)))

(* Every create and start ends, or someone is at a prompt: brew's, shown     *)
(* under the VM's lock, or ssh-keygen's, which nobody sees, under the VM's   *)
(* and the key's.                                                            *)
Ends ==
  \A p \in Procs :
    pc[p] # "idle" ~> (pc[p] = "idle" \/ \E q \in Procs : pc[q] \in Asking)
=============================================================================
