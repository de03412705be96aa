# A TLA+ model of hardpass

`hp` creates, starts, stops and deletes named Ubuntu cloud VMs under QEMU. It
has no daemon. Every `hp` invocation (and every call of the library API) works
directly on the files below `~/.hardpass`, beside other invocations that do the
same, beside the QEMU processes it has left running, and beside whatever an
earlier invocation left when it failed or was killed. What makes that correct
is a handful of `flock`s, the order in which files are written and removed, and
pid files. This project models those.

All source references are to `src/src/` of the repository unless a path is given.

## Inventory

### Components, their state and operations

| Component | Source | State | Operations |
| --- | --- | --- | --- |
| File locks | `lock.rs` | a holder per lock file: `instances/<name>.lock`, `images/<release>/<arch>/.lock`, the ports lock, the SSH config lock, `<key>.lock` | `lock_file`, drop |
| Instance life cycle | `instance.rs` | none in memory; `instances/<name>/` | create, start, stop, delete |
| Instance files, status | `state.rs` | `config.json`, `disk.qcow2`, `seed.img`, `pid`, `qmp.sock`, `serial.log` | `status`, `read_pid`, `write_config`, `clear_runtime_artifacts`, `remove_all` |
| QEMU launch and QMP | `qemu.rs` | the QEMU processes; pid file and socket they write | `create_overlay_disk`, `launch_vm`, `system_powerdown` |
| Image cache | `images.rs` | image file, `.download` file, `image.json` | `ensure_image` (create, `image prefetch`) |
| Port reservation | `ports.rs`, `instance.rs` | listeners of running creates, ports in all configs | `reserve_host_ports`, `validate_forwards` |
| Cloud-init and seed | `cloud_init.rs` | `seed.img` | `render_cloud_init`, `create_seed_image` |
| SSH keys | `ssh.rs` | key pair | `ensure_ssh_key` |
| SSH client | `ssh.rs` | none | `wait_for_ssh`, `open_session`, `exec` |
| SSH config | `ssh_config.rs`, `instance.rs` | `~/.ssh/config`, the managed alias file | `install`, `sync` after create and delete |
| Unlocked readers | `instance.rs`, `api.rs` | none | `list`, `info`, `ssh`, `exec`, `status` |
| Acceleration, dependencies | `qemu.rs`, `instance.rs` | none | `resolve_accel_for_env`, `ensure_*_dependencies` |
| Command line, library | `cli.rs`, `lib.rs`, `api.rs` | none | parsing, dispatch |

### How they interact

* `create` holds the instance lock throughout and takes, one inside it and each
  only for a while, the key's lock, the image's lock and the ports lock. Image
  and ports are then used after their locks are dropped. The SSH alias sync
  runs after the instance lock is dropped.
* `start` holds the instance lock until the guest answers on SSH or the timeout
  passes. `stop` holds it for up to 27 s. `delete` contains a `stop`.
* `hp` and QEMU share the pid file, the QMP socket and the disk. QEMU creates
  the first two itself and unlinks them when it exits in an orderly way.
* VMs share the host's ports, the cached images and the default key.

### What is hard

Interleavings of invocations with each other, with QEMU's own exit and with the
kernel's reuse of pids; failures and kills between two file operations;
checks whose result is used after a lock was dropped (images, ports); waits and
retries (stop's escalation, the pid file, SSH); leftover files taken for good
ones. `PROJECT.json` lists each hazard at its line with the properties aimed at it.

## Modules

| Module | What it is |
| --- | --- |
| `VmSpec` | What a VM is to its user: absent, off or on; never reconfigured, never removed while on. |
| `InstanceLifecycle` | One VM: its directory, its QEMU processes and concurrent create, start, stop and delete. Implements `VmSpec`. |
| `InstanceLifecycleProofs` | The inductive invariant and the theorems about it. |
| `ImageCache`, `ImageCacheProofs` | One image directory, concurrent `ensure_image` calls, a mirror that republishes. |
| `PortReservation`, `PortReservationProofs` | The ports of all VMs, concurrent creates. |
| `SshConfigFile`, `SshConfigFileProofs` | The rewrite of `~/.ssh/config` as a function on sequences of lines. |
| `SshConfigSync`, `SshConfigProofs` | Creates and deletes of several VMs and the alias sync each ends with. |
| `UnlockedReaders`, `UnlockedReadersProofs` | `list`, `info`, `exec`, `ssh` and `wait_for_ssh`, without any lock, beside the VMs of `PortReservation`, which it extends. |
| `HostTools` | What doctor, create, start and the launch ask of the host, as operators. |
| `CloudInit`, `CloudInitProofs` | The user-data of a seed and `merge_yaml`, as operators. |
| `CreatePath`, `CreatePathProofs` | create and start of several VMs on one host with one key store, using `HostTools` and `CloudInit`. |
| `MC...` | Symmetry sets and constant values for TLC. |

The modules meet where the code's components do, and each abstracts the others
there. `Prepare` in `InstanceLifecycle` stands for key, cloud-init, image and
ports, which touch nothing in the instance directory. `CreatePath` has the key,
the host and the user-data in detail, of image and ports the locks alone, and
nothing of disk and QEMU processes. `UseImage` in `ImageCache` and `EnsureDir`/`WriteConfig` in
`PortReservation` and `SshConfigSync` stand for the rest of create.
`SshConfigSync` uses `SshConfigFile` for one of its steps, and `UnlockedReaders`
runs all of `PortReservation` beside its own steps.

Operators whose comment starts with *Mutant* are not part of a specification.
Each is a definition as a plausible mistake would have it. `PROJECT.json` says
which property fails when it replaces the real one, and so that the property
depends on that piece of code.

### InstanceLifecycle

State: `lock` (the flock's holder), per invocation `pc`, `op`, `want` (create's
arguments), `pid` and `child` (the awaited QEMU command), the files
`dir config disk seed pidf qmp`, and the processes `proc`, with `sig` (the
strongest request to stop each received) and `stale` (QEMUs on a removed disk).

Labels follow the code from one interaction with the outside to the next:

* all: `Lock` → `Status` (`state.rs:332`) → `Match` (`process_matches_instance`), and
  `NextLabel` is the `match` on the status in each operation;
* create: `Prepare`, `EnsureDir`, `CreateOverlayDisk`, `CreateSeedImage`, `WriteConfig`;
* start: `EnsureExistingArtifacts`, `ClearPid`, `ClearQmp`, `LaunchVm`,
  `RunLaunchSpec`, `WaitForPid`, `WaitForSsh`, `InfoStatus`;
* stop: `ReadPid`, `RequestStop`, `WaitForExit` (20 s), `Terminate`, `WaitForExit`
  (5 s), `Kill`, `WaitKilled`, `ClearPid`, `ClearQmp`;
* delete: on Running all of stop, its second status included; then `DirExists`,
  `RemoveEntry` in any order, `RemoveDir`.

QEMU (external) is `boot` (spawned), `opened` (created its pid file), `named`
(wrote its pid), `up` (images open, socket there, its parent exited with
success), `exiting` (files unlinked, process still there). It may fail while it
boots, quit when up, or be killed; `foreign` is another program that got the pid.
`process_matches_instance` sees the QEMU from exec to exit because its command
line holds the paths. A disk held by one QEMU cannot be opened by another
(QEMU's image locks), and two QEMUs cannot hold one pid file.

A wait with a timeout may end either way. `kill` on a reused pid may be refused,
because the process may be another user's.

### ImageCache

A file's content is the version it is of; a digest is that version. The mirror
replaces the image and then the sums, in two steps, at any time. `Return` drops the
lock; `UseImage`, later and without the lock, makes a VM's disk an overlay of
the file. URLs never change for one release and architecture, so the comparison
of URLs in the cache hit is left out.

### PortReservation

A name is absent, being created, stopped, or has a QEMU. `LockPorts`, `ScanOne`
(one config at a time), `ScanDone`, `BindForward`, `BindSsh` run under ports.lock;
`ValidateForwards`, `EnsureDir`, `WriteConfig`, `DropReservation` after it, holding
the listeners. QEMU (external) goes from `opened` (its pid file is there and empty, `Start`)
to `boot` (`WritePid`), binds the ports of the config one by one (`BindHostfwd`), each only if
nobody has it, and is `running` when it has them all (`Boot`). It closes them before its
pid goes (`closing`), and may fail or be killed anywhere (`Stop`). So a pid file that
names a live QEMU says nothing of the ports. A port asked for as 0 binds any and is
recorded as 0, as the code does; what QEMU binds for a recorded 0 is the kernel's choice and left out.
What else may use ports on the host is left out, and so is a QEMU that hp has lost track of,
which `InstanceLifecycle` has.

### SshConfigFile and SshConfigSync

`lib.rs` syncs once before every command except `doctor` and `image`, and
`hp create` and `hp delete` sync again when they have succeeded, after the
instance lock is dropped. `Hardpass::load` of the library syncs once, and its creates
and deletes not at all. An invocation goes `auto` → `collect` ⇄ `read` → `install` → `sync`
under ssh-config.lock (`slock`), then `lock` → `create` → `write`, or `lock` →
`delete` → `rmdir`, under the instance lock (`ilock`), then the sync again
(`EndSync`, `Succeed` and `Return` say what follows what).
`todo` is what the listing of `instances/` returned and
the loop of `collect_ssh_alias_entries` has not reached, `cur` a config seen by
`is_file` and not yet read, `entries` what was read (`None`: no alias), `seen` the
text `install` read. Two pairs of steps are one action each: taking
ssh-config.lock with the listing, and the last step of an operation with the drop of its
instance lock. In the first pair nobody else can have the lock in between, so it may as well be
taken at the listing; in the second nothing is left to do under the lock.

A config, and an alias, is one value (`Endpoints`): port, user and key. The user
may replace `~/.ssh/config` at any time (`UserEdits`). A failed sync is a warning and
counts as a fault, except the one the code runs into by itself
(`ConfigVanished`: another delete between `is_file` and the read).

`~/.ssh/config` is a sequence of lines, each one of nine kinds (`Lines`): the kinds that
the rewrite distinguishes, and `Host=x`, which OpenSSH takes for a Host line and the
rewrite does not. `Installed` is `install_managed_include`: drop what earlier
versions left, find the first Host or Match line, trim, insert.

`unsynced` is a history variable: who changed a VM last, until it has synced.

### UnlockedReaders

A reader keeps what it has read: the names still to look at (`left`), the VM
(`vm`), its `config`, and `rows`, what it will print. Each read is a step: the listing, `is_file`,
`read_config`, `status`. `exec` stands for `hp ssh`, `hp exec` and the library's `exec`,
`exec_capture` and `exec_checked`; `wait` for `wait_for_ssh`, which reads the status
again after it connected. `Status` is what `InstancePaths::status` says: running from the
moment the pid file names QEMU until the process or the file is gone, whatever QEMU has of its
ports, and an error while the file is empty (`StatusFails`, which fails a whole list).
`Connect` reaches whichever VM that is up listens on
the port that was read, since `common_ssh_args` switches host key checks off and
VMs share the default key. `touched` is a history variable: the VMs whose config or
status changed since the reader began. A wrong answer is allowed only about those;
that much cannot be excluded without a lock. `SessionAtHome` says when a session may get into
another VM than the one it was asked for: its own VM changed since; or
the two record the same port (`ports_disjoint`), and its own QEMU, though it shows as
running, is still to bind that port (and may be about to fail at it), or has closed it.

### CreatePath, HostTools, CloudInit

`CreatePath` follows create and start through what `InstanceLifecycle` calls `Prepare`:

* both: `LockInstance` → `CheckStatus` → the dependency check (`deps`), with the offer
  to run `brew install qemu` (`ask` → `brew` → `recheck`) if the process may prompt;
* create: `LockKey` → `ensure_ssh_key` (`key` → `private` → `public` → `readpub`, or
  `overwrite` when ssh-keygen finds an identity file whose public half is missing) →
  `LockImage` → `EnsureImage` → `LockPorts` → `ReservePorts` → `CreateSeed` → `WriteConfig`;
* start: `Launch`, which resolves acceleration and firmware once more, → `WaitForSsh`.

State: `lock` (one holder per VM, key and image directory, and one of ports.lock), `host` (a record: system,
architecture, tools, firmware, KVM), the files `priv` and `pub` (which key pair each
holds, by number), and per VM `config` (the arguments), `seed` (the user-data) and
`running`. `End` is a return, an error, or the death of the process: all locks of the
process go. `Stops` is an error or Ctrl-C anywhere, also between the two files that
ssh-keygen writes. `PubPath` and `GenPub` are where hardpass looks for a public key,
`with_extension("pub")`, and where ssh-keygen writes it, `<path>.pub`: the same file unless
the file name has a dot. `HostChanges` is the owner who installs and removes
tools at any time. A fresh `key` pair gets a new number, bounded by `MaxKeys` where a
create begins, so that the bound never stops one half way. What is done under the image's lock and under
ports.lock is in `ImageCache` and `PortReservation`; here it is a step that may take long,
fail or be cut short, because others wait for these locks with a VM's lock in hand. One
release is assumed, so that the architecture names the image directory.

`HostTools` has doctor's list of tools, create's and start's, each from its own
function, and `resolve_accel_for_env`. `CloudInit` has a YAML document as a tree of
mappings, two deep as the defaults are, `MergeYaml`, and the reference it is checked
against: a document is the set of its leaves with their paths (`Layered`).

## Runs

| Run | Bounds | Result |
| --- | --- | --- |
| `lifecycle_safety` | 2 invocations, 2 pids, 2 sets of arguments, no fault (I/O errors and QEMU failures are unlimited) | all hold, `VmSpec` is implemented |
| `lifecycle_faults` | 2 invocations, 1 pid, 1 set of arguments, 1 fault: a kill of an hp process, a failing `ps`, or a QEMU that outlives SIGKILL's 2 s | the file properties hold and every invocation returns |
| `image_cache` | 3 callers, 2 versions, 1 corrupted download, 1 kill | all hold |
| `ports` | 2 VMs, 6 ports of which 5 are ephemeral, lists with 0, repeated and equal ports | all hold, every create ends |
| `ssh_config` | 2 invocations, 2 VMs, 2 endpoints, 1 fault; `Inputs` has every file of up to 4 blocks | all hold |
| `readers` | 1 reader, 2 VMs, 2 ports (both ephemeral), no forwards | answers about untouched VMs are right, a session strays only to a VM with the same port while its own QEMU has not got it, every call returns or waits for an `ssh` of `hp ssh` or `hp exec` |
| `create` | 2 processes, 2 VMs, 1 key path, 2 key pairs, 3 kinds of host, 2 user files | the key fits every VM and is never replaced, the user-data is layered, doctor's list covers the others, waits for locks lead to somebody at work, every command ends |

and, each violating one promise of the repository's text:

| Run | The code against the text |
| --- | --- |
| `stop_graceful` | `stop` "gracefully stops" a VM, but `qmp.is_file()` (`instance.rs:473`) is false for a socket: always SIGTERM. |
| `disk_matches` | A create that failed after `qemu-img` leaves a disk that the next create of that name keeps (`qemu.rs:98`), whatever it asks for. |
| `image_poisoned` | A failed checksum leaves the bad image in place (`images.rs:77`); no retry downloads again. |
| `ports_disjoint` | A port can end in two VMs' configs: ports.lock is dropped before the config is written (`instance.rs:662`), and the other create scanned before and bound after. |
| `dotted_key` | "Each VM name becomes an SSH alias with the stored loopback port and identity file", but with identity files `id` and `id.work` hardpass takes `id.pub` for the public half of both (`ssh.rs:45`), and a VM made with `id.work` refuses it. |

### Why these bounds are enough

Two invocations: operations on one VM exclude each other by the lock, so a
third could only wait. The second is there to wait, and to find what the first left.
Two pids allow a QEMU and a stranger, or a forgotten QEMU and a new one. Two
sets of arguments tell a file made by one create from another's. One fault is what a
user meets; a second kill is again an operation cut short. `lifecycle_faults` has one
pid and one set of arguments less than `lifecycle_safety`, for its liveness property; the second
pid and set are in `lifecycle_safety` and in the theorems, which cover
faults. For images one
caller can download, one verify and one use the result; two versions and a corrupted one
are all that comparing digests can tell apart. For ports,
two names give a VM that exists against a create, and two creates against each other;
port 1 can only be asked for, the others are also what the kernel hands out, and six are enough
for every create to end. For the SSH config two invocations are the slow sync and the
operation that overtakes it, two VMs the one that is operated on and the one whose
alias could suffer, two endpoints tell a VM from its successor of the same name. A
block is a line of each kind, a group as hardpass wrote it, or a begin marker without its end, so that four of
them put every two kinds of integration between the user's lines and before or behind a
Host. A reader never meets another one, so one is enough; two VMs and two ports
are a VM, its successor, and another one that inherits its port or shares it, and with only two
ports this happens soon; forwards do not occur in what a reader reads. In `create` two processes
race for the key or queue for it, two key pairs show a replaced one, and of the hosts one
has everything, one lacks a tool and the firmware, and one has only a warning from doctor.
The safety properties of all six state machines are also proved for every
value of their constants (those of `CreatePath` that are about keys for key paths without a dot), and the rewrite for
files of every length; the bounds matter for liveness, the violations and nothing else.

### Fairness

* `InstanceLifecycle`: each hp step is weakly fair, since a process that is not killed
  goes on and all waits but one have timeouts. The wait for the
  launching QEMU command has none (`qemu.rs:259`), so QEMU's start-up is assumed to end,
  well or badly. SIGKILL is assumed to end the process, unless a fault says otherwise. The
  lock is strongly fair: flock does not starve a waiter that is released to
  again and again. Nothing is assumed of QEMU once up, of guests, or of SIGTERM.
* `ImageCache`, `PortReservation`: the same for the steps of a call and its lock;
  requests to the mirror answer or fail.
* `SshConfigSync` states none and claims no liveness: what it says of a quiet
  system holds whenever it is quiet.
* `UnlockedReaders`: the next step of a call that was made is weakly fair (`FairStep`), except
  the `ssh` of `hp ssh` and `hp exec`: `open_session` and `exec_capture` (`ssh.rs:63-115`)
  give it no time limit, and a port that is open with nobody answering behind it can hold
  it for ever. A list looks at each name once. `wait_for_ssh` compares its deadline between
  probes, so it is assumed that a probe ends; it has `ConnectTimeout=2` (`ssh.rs:130`), which
  covers the connection and the handshake, and runs `true`. `Answered` therefore says
  that every call returns or has come to the `ssh` of an `exec`. Nothing is
  assumed of the VMs beside it.
* `CreatePath`: each step that no person decides is weakly fair, and the locks are strongly
  fair: whichever of the four kinds it waits for, a process whose lock is free again and again
  gets it. The answers at brew's and ssh-keygen's prompts are not: `Ends` says
  that a command ends unless some process is at a prompt, which then may hold everybody
  who waits for the same VM or key.
* No fairness for new invocations, crashes, starts and stops, or for the mirror.

## Proofs

`InstanceLifecycleProofs` proves for any number of invocations, pids and arguments that
`IndInv` is inductive. Its parts:

* `LockDiscipline`, `LabelsOfOps`: the lock is held exactly between `Lock` and the
  return, and each label belongs to its operation;
* `FilesUnderLock`: what the operation has already done to the files only hp
  writes, e.g. at `config` the seed is the one just made. It holds with faults
  too, because an operation cut short leaves its label;
* `QemuUnderLock`, only while no fault has occurred: at most one QEMU, the pid file in the state
  its boot says (`AccountedFor`), and no busy QEMU at the labels that need quiet.

None of the safety properties is inductive alone. That `stop` leaves no QEMU needs that
the pid it waited for is the only candidate, which needs that every start
launched in quiet and left the lock only after the pid file named its QEMU. One
lemma per part goes through all actions (`TypePreserved`, `LabelsPreserved`, `LockPreserved`,
`FilesPreserved`, `QemuPreserved`). From it follow the safety properties, the action properties
(`ConfigNeverReplaced`, `UsedDiskSurvives`, `LaunchIsClean`), and, for
`MaxFaults = 0`, the refinement: `ImplementsVm` maps `config` to the VM and "some QEMU
is up" to `on`. The only assumption is `LifecycleAssumption`: the special values differ from
each other.

`ImageCacheProofs` does the same for the cache: the label of the lock holder
tells whether there is metadata, an image and an expected digest.

`PortReservationProofs`: `IndInv` says what each step of a create has found and
holds. `ScanFound`: every config that was there when the scan began is still to be read, already
in `occupied`, or gone. `Listening`: the sockets a create holds are those of its
forwards so far and of its SSH port, and nobody else's.
`OwnPorts`: those of a VM's QEMU are in its config. `Validated`: past `validate_forwards` the ports differ from each other. Two lemmas carry the
weight: `ReservedShrinks`, no step but the write of a config adds to the ports that a
scan has to respect, and `ReservedOnWrite`, that write adds only to what scans
begun later must see. The assumption is `PortAssumption`: ports are positive, ephemeral
ones among them, and `None` is none of the values.

`SshConfigProofs`: under ssh-config.lock, what a sync has read of a VM is right, or
somebody else changed that VM since and has not synced (`ReadIsRight`). With that
`SyncedStaysRight` is inductive. For `UpToDateWhenQuiet` that does not do, as a
sync may be given up when a config vanishes under it. `WillSync` adds why that is harmless:
the delete that took the config is on its way to its own sync, so without faults there is
always somebody who will sync, or a sync under way that is right in all it has read
and will not fail, or nothing left to do. The assumption is `SyncAssumption`.

`UnlockedReadersProofs` builds on the invariant of `PortReservation`, whose step lemma
it reuses for every step of a VM. It adds that a QEMU that is up listens on the VM's SSH
port (`RunningListens`) and, per reader and untouched VM, that what has been read so far is
right (`HeldOf`). The last is where the weight is: a row of a list is either
exact, or still to be made and the name still in `left` or at hand. `ConnectAtHome` then says
who answers: no port has two listeners (`Listening`), so it is the VM itself if its QEMU is up;
and whoever else answers has the port in its config (`OwnPorts`). `DisjointPortsAtHome` draws the
consequence: if no two VMs recorded a common port, only a change of its own VM
could lead a session astray. Its hypothesis is what `ports_disjoint` refutes of this
code; the theorem says that this is the one thing to repair.

`SshConfigFileProofs` proves what the rewrite does to a file of any length. The library's
induction theorems take an operator and cannot be used here, but a *set* serves as well:
`NatSetInduction` and `SeqSetInduction` say that a set with 0, or with the empty
sequence, that is closed under successor, or under `Append`, has all numbers, or all
sequences. They follow from the least element of a set of naturals (`WFMin`). With the first,
the recursion in `Selected` defines a function (`SelectsExists`) and obeys its equation
(`SelectedAppend`), which gives `RemoveAppend`, one round of the loop of
`remove_hardpass_integration`. The second then shows what the loop keeps. Every file that comes out of the loop
is `b \o z \o a`: `z` the empty lines before the first scope, `a` from that scope on
(`ScopeSplit`, `TrimSplit`), and `Installed` is made of `b` and `a` alone
(`InstalledValue`). So the file it writes comes out of the next loop as `b`, other
empty lines, and `a`, and is written again (`InstalledAgain`). `RewriteIsStable` says
so, and `RewriteKeepsTheUsers` adds what the loop keeps of the user's lines
(`RemoveKeepsUnclaimed`): exactly those outside of legacy blocks. Neither has a hypothesis on the
file; `RewriteKeepsAll` is the case of a file with no line of the user's in such a block.
`RewriteSettlesHolds` carries this to every history of syncs, faults and the user's edits, from
the invariant that `main` and everything `seen` are sequences of `Lines` (`MainPreserved`).

`CloudInitProofs` proves `MergeLayers`: of two documents (`IsDocument`) whatever
their keys, `MergeYaml` has exactly the leaves that the reference `Layered` asks for. It goes
from a leaf of the result to the document it is from, by the cases of the merge at its top key
(`LayeredAt`).

`CreatePathProofs` has two invariants. `LockInv` (`LockInvariant`) has no hypothesis at all: a
process holds exactly the locks its label says (`Holds`, a statement per process, with
`WorksUnder` for the four kinds of locks), and none when idle. `WaitsEnd` follows: whoever waits for the key's, the
image's or the ports' lock finds a holder that is at work, because those who
hold one of these wait for nothing; and a VM's lock is held by somebody at work, or waiting for one of
the three. This is the safety part of `Ends`, for any number of processes, VMs, keys and
images. `DoctorVouchesHolds` needs only that the host is one of `Hosts`.

`IndInv`, about keys, has the hypothesis `Undotted`, under which `PubPath` and
`GenPub` agree and no two keys share a public file; `dotted_key` shows that it is needed. To `LockInv` it adds that
a public file that exists holds the
public half of its identity file (`PairsMatch`), that a process about to make a pair has seen
no public half (`CreateKnows`), and that a VM's key has both and its seed was made
from the public half (`VmsKeyed`). The last two
together are why ssh-keygen never replaces an identity file that a VM uses, although
`ensure_ssh_key` runs it whenever *either* file is missing: the public half is written
last. `SeedLayeredHolds` combines it with `MergeLayers`, for user files that are documents.

Only model-checked: the liveness properties (`Termination`, `CreateEnds`, `Answered`,
`Ends`), as the prover does not handle ENABLED and fairness; and that the violations
exist.

## Not modelled

* Behaviour of the code that a model shows and no property excludes, because nothing in the
  repository promises otherwise: after a `start` was killed between the spawn of
  QEMU and its pid file, `delete` returns Ok with that QEMU about to run
  (`DeleteDeletes` claims the end of QEMU only while undisturbed); `Host=x` in
  `~/.ssh/config` is not seen as a Host line (`ssh_config.rs:149`), so that the
  Include lands in that host's scope (`Lines` has it, `Installed` treats it as the
  code does); a legacy begin marker without its end marker claims the rest of the file
  (`InLegacyBlock`, and `UnclaimedLines` says that the rest goes); a delete that fails or is killed after the config is gone leaves its alias until the
  next sync.
* Also shown and not excluded: where two VMs record one port (`ports_disjoint`), an `hp ssh` to
  the one that is starting and will fail, or that is going down, gets a session in the other,
  which runs (without its exception `SessionAtHome` fails in this way); and `hp ssh` and `hp exec`
  wait without limit where a port is open and nobody answers.
* In `PortReservation` and `UnlockedReaders`: a failing `ps`, and a QEMU that a killed start
  left without a pid file. Both are in `InstanceLifecycle`. A socket that lingers after its
  QEMU counts as one more reason for the next bind to fail.
* The text side of cloud-init: meta-data, network-config, the FAT image, empty mappings in
  the user's file, and mappings nested deeper than the defaults nest.
* Key files that are removed or replaced by hand, and a passphrase on a key.
* In the SSH config: that an edit between
  `ReadMain` and `RenameMain` is lost; a `~/.ssh/config` that is a
  symlink, which the rename replaces; a directory with an invalid name in
  `instances/`, which makes every sync and `list` fail; file modes.
* An image file removed by hand under its `image.json`: nothing in hardpass does that.
* Dropped futures of the library API: a create dropped while its seed is
  written on a blocking thread or its ssh-keygen runs on. The end of a
  process with its children is modelled instead.
* Durability: no power failure, so the missing fsyncs do not show.
* `serial.log` (the tail in an error message) and the firmware variables file: no
  decision reads them.
* The QMP exchange of `system_powerdown`: no run of the code reaches it (`stop_graceful`).
* Argument parsing, printing, progress output, the QEMU command line.

## Plan

1. (done) `VmSpec`, `InstanceLifecycle`, `ImageCache`, `PortReservation` and
   `SshConfigSync` with `SshConfigFile`, each state machine with its proofs.
2. (done) `UnlockedReaders` on top of `PortReservation`'s starts, stops and deletes.
3. (done) `CreatePath`: the key store under its lock with half-made pairs, the host and its
   prompts, cloud-init merging against a reference, with its proofs.
4. (done) The lock order of create with its four kinds of locks in `CreatePath`, `WaitsEnd`; the
   proofs about whole files of lines and about merged documents.
5. Left: dropped futures of the library API, whose blocking threads and children outlive the locks.
6. Left: the QMP exchange, once the code reaches it.
