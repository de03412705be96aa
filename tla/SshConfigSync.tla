--------------------------- MODULE SshConfigSync ---------------------------
(***************************************************************************)
(* Every hp command on VMs begins with a sync of the user's SSH config, and *)
(* create and delete end with another one: under its own lock, and without *)
(* the instance lock, all configs are read, the Include line is installed  *)
(* in ~/.ssh/config, and ~/.hardpass/ssh/config is rewritten.  Any number  *)
(* of invocations of hp, with the default root.                            *)
(***************************************************************************)
EXTENDS SshConfigFile

CONSTANTS
  Procs,       \* hp invocations
  Names,       \* VM names
  Endpoints,   \* port, user and key of a config, and of an alias
  UserConfigs, \* what the user may put into ~/.ssh/config
  Inputs,      \* what a rewrite may find there
  MaxFaults,   \* bound on I/O errors and kills that leave a sync undone
  None

ASSUME SyncAssumption ==
  None \notin {"create", "delete", "sync"} \cup Procs \cup Names \cup Endpoints

ASSUME LinesAssumption == UserConfigs \cup Inputs \subseteq Seq(Lines)

VARIABLES
  pc, op, name, \* per invocation: where it is, what it has to do besides a
                \* sync, and to which VM
  ilock,        \* the holder of each VM's instance lock
  slock,        \* the holder of ssh-config.lock
  dirs,         \* the directories in instances/
  cfg,          \* the endpoint in each config.json
  todo,         \* the directories a sync still has to look at
  cur,          \* the one whose config it has seen and not yet read
  entries,      \* what it has read
  seen,         \* the ~/.ssh/config it has read
  main,         \* ~/.ssh/config
  aliases,      \* ~/.hardpass/ssh/config
  unsynced,     \* history: who changed each VM last, None once it has synced
  faults        \* faults so far

vars == <<pc, op, name, ilock, slock, dirs, cfg, todo, cur, entries, seen,
          main, aliases, unsynced, faults>>

NoEntries == [n \in Names |-> None]

Syncing == {"collect", "read", "install", "sync"}

Init ==
  /\ pc = [p \in Procs |-> "idle"]
  /\ op = [p \in Procs |-> None]
  /\ name = [p \in Procs |-> None]
  /\ ilock = [n \in Names |-> None]
  /\ slock = None
  /\ dirs = {}
  /\ cfg = NoEntries
  /\ todo = [p \in Procs |-> {}]
  /\ cur = [p \in Procs |-> None]
  /\ entries = [p \in Procs |-> NoEntries]
  /\ seen = [p \in Procs |-> <<>>]
  /\ main \in UserConfigs
  /\ aliases = NoEntries
  /\ unsynced = [n \in Names |-> None]
  /\ faults = 0

-----------------------------------------------------------------------------
At(p, l)   == pc[p] = l
Goto(p, l) == pc' = [pc EXCEPT ![p] = l]

ForgetRead(p) ==
  /\ todo' = [todo EXCEPT ![p] = {}]
  /\ cur' = [cur EXCEPT ![p] = None]
  /\ entries' = [entries EXCEPT ![p] = NoEntries]
  /\ seen' = [seen EXCEPT ![p] = <<>>]

(* The invocation is over: every lock it holds is dropped, its memory gone.  *)
Return(p) ==
  /\ ilock' = [n \in Names |-> IF ilock[n] = p THEN None ELSE ilock[n]]
  /\ slock' = IF slock = p THEN None ELSE slock
  /\ Goto(p, "idle")
  /\ op' = [op EXCEPT ![p] = None]
  /\ name' = [name EXCEPT ![p] = None]
  /\ ForgetRead(p)

(* Mutant: a sync that ends keeps ssh-config.lock. *)
KeepLock(p) == UNCHANGED slock

DropLock(p) == slock' = IF slock = p THEN None ELSE slock

(* A sync is over, well or with a warning: the command proper comes next, or *)
(* hp exits.                                                                 *)
EndSync(p) ==
  /\ DropLock(p)
  /\ ForgetRead(p)
  /\ \/ op[p] = "sync" /\ Goto(p, "idle") /\ op' = [op EXCEPT ![p] = None]
     \/ op[p] # "sync" /\ Goto(p, "lock") /\ op' = op
  /\ UNCHANGED <<ilock, name>>

(* A create or delete has succeeded; it drops the instance lock and syncs.   *)
Succeed(p) ==
  /\ ilock' = [ilock EXCEPT ![name[p]] = None]
  /\ Goto(p, "auto")
  /\ op' = [op EXCEPT ![p] = "sync"]
  /\ name' = [name EXCEPT ![p] = None]

Unread == <<todo, cur, entries, seen>>
Files  == <<main, aliases>>

(* should_auto_configure_ssh: all but doctor and image prefetch.  Of start,  *)
(* stop, list, info, ssh and exec only the sync matters here.                *)
Invoke(p) ==
  /\ At(p, "idle")
  /\ \/ \E o \in {"create", "delete"}, n \in Names :
          /\ op' = [op EXCEPT ![p] = o]
          /\ name' = [name EXCEPT ![p] = n]
     \/ op' = [op EXCEPT ![p] = "sync"] /\ name' = name
  /\ Goto(p, "auto")
  /\ UNCHANGED <<ilock, slock, dirs, cfg, Unread, Files, unsynced, faults>>

LockInstance(p) ==
  /\ At(p, "lock")
  /\ ilock[name[p]] = None
  /\ ilock' = [ilock EXCEPT ![name[p]] = p]
  /\ Goto(p, op[p])
  /\ UNCHANGED <<op, name, slock, dirs, cfg, Unread, Files, unsynced, faults>>

(* create: the name must be free; then ensure_dir. *)
EnsureDir(p) ==
  /\ At(p, "create")
  /\ cfg[name[p]] = None
  /\ dirs' = dirs \cup {name[p]}
  /\ Goto(p, "write")
  /\ UNCHANGED <<op, name, ilock, slock, cfg, Unread, Files, unsynced, faults>>

(* An error of create, "already exists" among them, is returned at once. *)
CreateFails(p) ==
  /\ pc[p] \in {"create", "write"}
  /\ Return(p)
  /\ UNCHANGED <<dirs, cfg, Files, unsynced, faults>>

(* The rename in write_config is the last step of a create before it returns *)
(* and drops the instance lock.                                              *)
WriteConfig(p) ==
  /\ At(p, "write")
  /\ \E e \in Endpoints : cfg' = [cfg EXCEPT ![name[p]] = e]
  /\ unsynced' = [unsynced EXCEPT ![name[p]] = p]
  /\ Succeed(p)
  /\ UNCHANGED <<slock, dirs, Unread, Files, faults>>

(* delete_inner returns Ok for a VM without a directory. *)
NothingToDelete(p) ==
  /\ At(p, "delete")
  /\ name[p] \notin dirs
  /\ Succeed(p)
  /\ UNCHANGED <<slock, dirs, cfg, Unread, Files, unsynced, faults>>

(* remove_all gets to config.json. *)
RemoveConfig(p) ==
  /\ At(p, "delete")
  /\ name[p] \in dirs
  /\ cfg' = [cfg EXCEPT ![name[p]] = None]
  /\ unsynced' = IF cfg[name[p]] = None THEN unsynced
                 ELSE [unsynced EXCEPT ![name[p]] = p]
  /\ Goto(p, "rmdir")
  /\ UNCHANGED <<op, name, ilock, slock, dirs, Unread, Files, faults>>

(* Mutant: hp delete does not sync afterwards. *)
RemoveDirOnly(p) ==
  /\ At(p, "rmdir")
  /\ dirs' = dirs \ {name[p]}
  /\ Return(p)
  /\ UNCHANGED <<cfg, Files, unsynced, faults>>

RemoveDir(p) ==
  /\ At(p, "rmdir")
  /\ dirs' = dirs \ {name[p]}
  /\ Succeed(p)
  /\ UNCHANGED <<slock, cfg, Unread, Files, unsynced, faults>>

(* A delete that fails before it removed anything that matters here, or, at  *)
(* "rmdir", after: then it returns without a sync.                           *)
DeleteFails(p) ==
  /\ \/ At(p, "delete") /\ UNCHANGED faults
     \/ At(p, "rmdir") /\ faults < MaxFaults /\ faults' = faults + 1
  /\ Return(p)
  /\ UNCHANGED <<dirs, cfg, Files, unsynced>>

-----------------------------------------------------------------------------
(* Mutant: configs are collected without ssh-config.lock. *)
SyncUnlocked(p) ==
  /\ At(p, "auto")
  /\ slock' = p
  /\ todo' = [todo EXCEPT ![p] = dirs]
  /\ Goto(p, "collect")
  /\ UNCHANGED <<op, name, ilock, dirs, cfg, cur, entries, seen, Files,
                 unsynced, faults>>

(* configure_ssh_if_enabled takes ssh-config.lock; instance_names. *)
LockSshConfig(p) ==
  /\ At(p, "auto")
  /\ slock = None
  /\ slock' = p
  /\ todo' = [todo EXCEPT ![p] = dirs]
  /\ Goto(p, "collect")
  /\ UNCHANGED <<op, name, ilock, dirs, cfg, cur, entries, seen, Files,
                 unsynced, faults>>

(* collect_ssh_alias_entries, config.is_file(): no config, no alias. *)
SkipName(p) ==
  /\ At(p, "collect")
  /\ \E n \in todo[p] :
       /\ cfg[n] = None
       /\ todo' = [todo EXCEPT ![p] = @ \ {n}]
  /\ UNCHANGED <<pc, op, name, ilock, slock, dirs, cfg, cur, entries, seen,
                 Files, unsynced, faults>>

SeeConfig(p) ==
  /\ At(p, "collect")
  /\ \E n \in todo[p] :
       /\ cfg[n] # None
       /\ todo' = [todo EXCEPT ![p] = @ \ {n}]
       /\ cur' = [cur EXCEPT ![p] = n]
  /\ Goto(p, "read")
  /\ UNCHANGED <<op, name, ilock, slock, dirs, cfg, entries, seen, Files,
                 unsynced, faults>>

ReadConfig(p) ==
  /\ At(p, "read")
  /\ cfg[cur[p]] # None
  /\ entries' = [entries EXCEPT ![p][cur[p]] = cfg[cur[p]]]
  /\ cur' = [cur EXCEPT ![p] = None]
  /\ Goto(p, "collect")
  /\ UNCHANGED <<op, name, ilock, slock, dirs, cfg, todo, seen, Files,
                 unsynced, faults>>

(* The config was deleted since is_file: the whole sync is given up, with a  *)
(* warning.                                                                  *)
ConfigVanished(p) ==
  /\ At(p, "read")
  /\ cfg[cur[p]] = None
  /\ EndSync(p)
  /\ UNCHANGED <<dirs, cfg, Files, unsynced, faults>>

(* install reads ~/.ssh/config ... *)
ReadMain(p) ==
  /\ At(p, "collect")
  /\ todo[p] = {}
  /\ seen' = [seen EXCEPT ![p] = main]
  /\ Goto(p, "install")
  /\ UNCHANGED <<op, name, ilock, slock, dirs, cfg, todo, cur, entries, Files,
                 unsynced, faults>>

(* ... and write_file_atomic replaces it. *)
RenameMain(p) ==
  /\ At(p, "install")
  /\ main' = Installed(seen[p])
  /\ seen' = [seen EXCEPT ![p] = <<>>]
  /\ Goto(p, "sync")
  /\ UNCHANGED <<op, name, ilock, slock, dirs, cfg, todo, cur, entries,
                 aliases, unsynced, faults>>

(* sync renders the entries and replaces ~/.hardpass/ssh/config. *)
RenameAliases(p) ==
  /\ At(p, "sync")
  /\ aliases' = entries[p]
  /\ unsynced' = [n \in Names |-> IF unsynced[n] = p THEN None
                                  ELSE unsynced[n]]
  /\ EndSync(p)
  /\ UNCHANGED <<dirs, cfg, main, faults>>

(* Any I/O error of a sync is a warning, and hp goes on. *)
SyncFails(p) ==
  /\ pc[p] \in Syncing \cup {"auto"}
  /\ faults < MaxFaults
  /\ faults' = faults + 1
  /\ EndSync(p)
  /\ UNCHANGED <<dirs, cfg, Files, unsynced>>

(* hp is killed. *)
Crash(p) ==
  /\ pc[p] # "idle"
  /\ faults < MaxFaults
  /\ faults' = faults + 1
  /\ Return(p)
  /\ UNCHANGED <<dirs, cfg, Files, unsynced>>

(* The user's editor, or another program, writes ~/.ssh/config. *)
UserEdits ==
  /\ main' \in UserConfigs
  /\ UNCHANGED <<pc, op, name, ilock, slock, dirs, cfg, todo, cur, entries,
                 seen, aliases, unsynced, faults>>

-----------------------------------------------------------------------------
Next ==
  \/ \E p \in Procs :
       \/ Invoke(p) \/ LockInstance(p) \/ EnsureDir(p) \/ WriteConfig(p)
       \/ CreateFails(p) \/ NothingToDelete(p) \/ RemoveConfig(p)
       \/ RemoveDir(p) \/ DeleteFails(p) \/ LockSshConfig(p) \/ SkipName(p)
       \/ SeeConfig(p) \/ ReadConfig(p) \/ ConfigVanished(p) \/ ReadMain(p)
       \/ RenameMain(p) \/ RenameAliases(p) \/ SyncFails(p) \/ Crash(p)
  \/ UserEdits

Spec == Init /\ [][Next]_vars

-----------------------------------------------------------------------------
(* Type invariant. *)
TypeOK ==
  /\ pc \in [Procs -> {"idle", "lock", "create", "write", "delete", "rmdir",
                       "auto"} \cup Syncing]
  /\ op \in [Procs -> {"create", "delete", "sync", None}]
  /\ name \in [Procs -> Names \cup {None}]
  /\ ilock \in [Names -> Procs \cup {None}]
  /\ slock \in Procs \cup {None}
  /\ dirs \subseteq Names
  /\ cfg \in [Names -> Endpoints \cup {None}]
  /\ todo \in [Procs -> SUBSET Names]
  /\ cur \in [Procs -> Names \cup {None}]
  /\ entries \in [Procs -> [Names -> Endpoints \cup {None}]]
  /\ aliases \in [Names -> Endpoints \cup {None}]
  /\ unsynced \in [Names -> Procs \cup {None}]
  /\ faults \in Nat

(* README.md:109, "hp create and hp delete keep the alias file up to date":  *)
(* whenever nothing is running, the alias file lists the VMs there are, each *)
(* at its own port.  A sync may be given up when another delete takes a      *)
(* config away under it, but then that delete has its own sync to come.      *)
UpToDateWhenQuiet ==
  faults = 0 /\ (\A p \in Procs : At(p, "idle")) => aliases = cfg

(* Faults or not: once the create or delete that last changed a VM has       *)
(* synced, its alias is right, and no slower sync of another invocation      *)
(* brings back what that one had read before.                                *)
SyncedStaysRight ==
  \A n \in Names : unsynced[n] = None => aliases[n] = cfg[n]

-----------------------------------------------------------------------------
(* The inductive invariant behind both. *)
Locked == {"create", "write", "delete", "rmdir"}

LocksHeld ==
  /\ \A p \in Procs : slock = p <=> pc[p] \in Syncing
  /\ \A p \in Procs : pc[p] \in {"lock"} \cup Locked => op[p] # "sync"
  /\ \A p \in Procs : pc[p] # "idle" => op[p] # None
  /\ \A p \in Procs : op[p] \in {"create", "delete"} => name[p] \in Names
  /\ \A p \in Procs : pc[p] \in Locked => ilock[name[p]] = p
  /\ \A n \in Names : ilock[n] # None =>
       pc[ilock[n]] \in Locked /\ name[ilock[n]] = n
  /\ \A p \in Procs : pc[p] = "write" => name[p] \in dirs
  /\ \A p \in Procs : pc[p] = "rmdir" => cfg[name[p]] = None
  /\ \A n \in Names : cfg[n] # None => n \in dirs

(* A sync has read something only of the names it is through with. *)
ReadInTurn ==
  /\ \A p \in Procs : pc[p] = "read" <=> cur[p] # None
  /\ \A p \in Procs : cur[p] \notin todo[p]
  /\ \A p \in Procs : pc[p] \in {"install", "sync"} => todo[p] = {}
  /\ \A p \in Procs, n \in Names : entries[p][n] # None =>
       pc[p] \in Syncing /\ n \notin todo[p] /\ n # cur[p]

(* What a sync has read of a VM is what there is, or whoever changed it      *)
(* since has not synced.                                                     *)
ReadIsRight ==
  \A p \in Procs, n \in Names :
    pc[p] \in Syncing /\ n \notin todo[p] /\ n # cur[p] =>
      \/ entries[p][n] = cfg[n]
      \/ unsynced[n] \notin {None, p}

(* Without faults, somebody is on its way to a sync; or a sync is under way  *)
(* and will succeed, right in what it has read; or all is done.              *)
ToSync == {"rmdir", "auto"}

RightSoFar(q) ==
  /\ pc[q] \in Syncing
  /\ cur[q] # None => cfg[cur[q]] # None
  /\ \A n \in Names :
       n \notin todo[q] /\ n # cur[q] => entries[q][n] = cfg[n]

WillSync ==
  faults = 0 =>
    \/ \E q \in Procs : pc[q] \in ToSync
    \/ \E q \in Procs : RightSoFar(q)
    \/ slock = None /\ aliases = cfg

IndInv ==
  /\ TypeOK
  /\ LocksHeld
  /\ ReadInTurn
  /\ ReadIsRight
  /\ SyncedStaysRight
  /\ WillSync

-----------------------------------------------------------------------------
AllSettle == \A s \in Inputs : Settles(s, Installed(s))

(* Whatever a sync finds in the file when it rewrites it, here or in any of  *)
(* Inputs: the result is one that later syncs leave alone.                   *)
RewriteSettles ==
  [][\A p \in Procs : RenameMain(p) => Settles(seen[p], main') /\ AllSettle]_vars
=============================================================================
