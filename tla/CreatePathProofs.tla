-------------------------- MODULE CreatePathProofs --------------------------
(***************************************************************************)
(* For every number of processes, VMs, keys and user-data files, and any   *)
(* host.  The locks: a process holds what it works under and no more       *)
(* (LockInv), so who waits for a lock waits for a process at work, or for  *)
(* one that waits for one.  The keys, where the public half of a key is    *)
(* read from the file ssh-keygen writes it to (Undotted): the identity     *)
(* file in a VM's config opens it, and no create replaces it.  The         *)
(* argument is IndInv: a pair is made under its key's lock, only while its *)
(* public file is absent, and a VM is created only from a public file that *)
(* is there.                                                               *)
(***************************************************************************)
EXTENDS CreatePath, CloudInitProofs, TLAPS

(* The locks of VMs, keys, images and ports are apart.                       *)
LEMMA LocksApart ==
  /\ \A n \in Names : n \in Locks /\ n \notin Keys \cup Archs \cup {PortsLock}
  /\ \A k \in Keys : k \in Locks /\ k \notin Names \cup Archs \cup {PortsLock}
  /\ \A a \in Archs : a \in Locks /\ a \notin Names \cup Keys \cup {PortsLock}
  /\ PortsLock \in Locks
  BY CreateAssumption DEF Locks, Archs, PortsLock

(* create's arguments name an identity file, which names its public file.    *)
LEMMA ArgsKeyed ==
  ASSUME NEW a \in Args
  PROVE  /\ a.key \in Keys /\ a.arch \in Archs /\ None # a
         /\ PubPath[a.key] \in PubFiles /\ GenPub[a.key] \in PubFiles
  BY CreateAssumption

(* What a process in create has for a VM, a key and an image. *)
LEMMA ReqTyped ==
  ASSUME LockInv, NEW p \in Procs, pc[p] # "idle"
  PROVE  /\ Name(p) \in Names
         /\ pc[p] \in Creating =>
              /\ Op(p) = "create" /\ req[p].args \in Args /\ Image(p) \in Archs
              /\ Id(p) \in Keys /\ PubPath[Id(p)] \in PubFiles
              /\ GenPub[Id(p)] \in PubFiles
  BY ArgsKeyed DEF LockInv, TypeOK, Creators, Id, Image

(* What the steps' labels are.                                               *)
LEMMA Labels ==
  /\ "idle" \notin Locked /\ "lock" \notin Locked
  /\ KeySteps \subseteq Creating /\ HasKey \subseteq Creating
  /\ Creating \subseteq Locked
  /\ "image" \in HasKey /\ "ports" \in HasKey
  BY DEF Locked, Creating, KeySteps, HasKey

(* A process works under locks that there are. *)
LEMMA WorksUnderLocks ==
  ASSUME LockInv, NEW p \in Procs, NEW l, WorksUnder(p, l)
  PROVE  l \in Locks
  BY ReqTyped, Labels, LocksApart DEF WorksUnder

-----------------------------------------------------------------------------
(* The locks.  What the files and the VMs hold does not matter to them.      *)
DataTyped ==
  /\ key \in [Procs -> KeyOrNone]
  /\ host \in Hosts
  /\ made \in Nat
  /\ priv \in [Keys -> KeyOrNone]
  /\ pub \in [PubFiles -> KeyOrNone]
  /\ config \in [Names -> Args \cup {None}]
  /\ DOMAIN seed = Names

LEMMA DataSame ==
  ASSUME DataTyped, key' = key, host' = host, made' = made, priv' = priv,
         pub' = pub, config' = config, seed' = seed
  PROVE  DataTyped'
  BY DEF DataTyped, KeyOrNone, KeyIds

(* A step of p, to l, after which p holds what it works under. *)
LEMMA StepLocks ==
  ASSUME LockInv, NEW p \in Procs, NEW l \in Locked, Goto(p, l),
         pc[p] # "idle", req' = req, DataTyped',
         l \in Creating => Op(p) = "create",
         lock' \in [Locks -> Procs \cup {None}],
         \A j \in Locks : lock'[j] = p <=> WorksUnder(p, j)',
         \A q \in Procs \ {p}, j \in Locks : lock'[j] = q <=> lock[j] = q
  PROVE  LockInv'
  <1>1. pc' = [pc EXCEPT ![p] = l] /\ pc'[p] = l
    BY DEF LockInv, TypeOK, Goto
  <1>2. \A q \in Procs : Name(q)' = Name(q) /\ Op(q)' = Op(q) /\ Id(q)' = Id(q)
                          /\ Image(q)' = Image(q)
    BY DEF Name, Op, Id, Image
  <1>3. TypeOK'
    <2>1. pc' \in [Procs -> {"idle", "lock"} \cup Locked]
      BY <1>1 DEF LockInv, TypeOK
    <2>2. \A q \in Procs : pc'[q] # "idle" => pc[q] # "idle"
      BY <1>1 DEF LockInv, TypeOK
    <2> QED
      BY <1>2, <2>1, <2>2 DEF LockInv, TypeOK, DataTyped
  <1>4. ASSUME NEW q \in Procs \ {p} PROVE pc'[q] = pc[q] /\ Holds(q)'
    <2>1. pc'[q] = pc[q]
      BY <1>1 DEF LockInv, TypeOK
    <2>2. \A j \in Locks : WorksUnder(q, j)' <=> WorksUnder(q, j)
      BY <1>2, <2>1 DEF WorksUnder
    <2> QED
      BY <2>1, <2>2 DEF LockInv, LocksHeld, Holds
  <1>5. LocksHeld'
    BY <1>4 DEF LocksHeld, Holds
  <1>6. Creators'
    BY <1>1, <1>2, <1>4 DEF LockInv, Creators
  <1> QED
    BY <1>3, <1>5, <1>6 DEF LockInv

(* p goes on under the same locks. *)
LEMMA MoveLocks ==
  ASSUME LockInv, NEW p \in Procs, NEW l \in Locked, Goto(p, l),
         pc[p] \in Locked, l \in KeySteps <=> pc[p] \in KeySteps,
         {l, pc[p]} \cap {"image", "ports"} = {},
         l \in Creating => Op(p) = "create",
         req' = req, lock' = lock, DataTyped'
  PROVE  LockInv'
  <1>1. pc'[p] = l
    BY DEF LockInv, TypeOK, Goto
  <1>2. \A j \in Locks : WorksUnder(p, j)' <=> WorksUnder(p, j)
    BY <1>1 DEF WorksUnder, Name, Id, Image
  <1>3. \A j \in Locks : lock'[j] = p <=> WorksUnder(p, j)'
    BY <1>2 DEF LockInv, LocksHeld, Holds
  <1>4. lock' \in [Locks -> Procs \cup {None}] /\ pc[p] # "idle"
    BY Labels DEF LockInv, TypeOK
  <1> QED
    BY <1>3, <1>4, StepLocks

(* p takes the lock k, for a step under k. *)
LEMMA TakeLocks ==
  ASSUME LockInv, NEW p \in Procs, NEW l \in Locked, NEW k \in Locks,
         Goto(p, l), Take(k, p), pc[p] # "idle",
         l \in Creating => Op(p) = "create",
         \A j \in Locks : WorksUnder(p, j)' <=> WorksUnder(p, j) \/ j = k,
         req' = req, DataTyped'
  PROVE  LockInv'
  <1>1. /\ lock[k] = None /\ lock' = [lock EXCEPT ![k] = p]
        /\ lock \in [Locks -> Procs \cup {None}]
    BY DEF Take, LockInv, TypeOK
  <1>2. lock' \in [Locks -> Procs \cup {None}]
    BY <1>1
  <1>3. \A j \in Locks : lock'[j] = p <=> lock[j] = p \/ j = k
    BY <1>1
  <1>4. \A j \in Locks : lock'[j] = p <=> WorksUnder(p, j)'
    BY <1>3 DEF LockInv, LocksHeld, Holds
  <1>5. \A q \in Procs \ {p}, j \in Locks : lock'[j] = q <=> lock[j] = q
    BY <1>1, CreateAssumption
  <1> QED
    BY <1>2, <1>4, <1>5, StepLocks

(* p drops the lock k, which it no longer works under. *)
LEMMA DropLocks ==
  ASSUME LockInv, NEW p \in Procs, NEW l \in Locked, NEW k \in Locks,
         Goto(p, l), Drop(k), pc[p] # "idle", WorksUnder(p, k),
         l \in Creating => Op(p) = "create",
         \A j \in Locks : WorksUnder(p, j)' <=> WorksUnder(p, j) /\ j # k,
         req' = req, DataTyped'
  PROVE  LockInv'
  <1>1. /\ lock[k] = p /\ lock' = [lock EXCEPT ![k] = None]
        /\ lock \in [Locks -> Procs \cup {None}]
    BY DEF Drop, LockInv, TypeOK, LocksHeld, Holds
  <1>2. lock' \in [Locks -> Procs \cup {None}]
    BY <1>1
  <1>3. \A j \in Locks : lock'[j] = p <=> lock[j] = p /\ j # k
    BY <1>1, CreateAssumption
  <1>4. \A j \in Locks : lock'[j] = p <=> WorksUnder(p, j)'
    BY <1>3 DEF LockInv, LocksHeld, Holds
  <1>5. \A q \in Procs \ {p}, j \in Locks : lock'[j] = q <=> lock[j] = q
    BY <1>1, CreateAssumption
  <1> QED
    BY <1>2, <1>4, <1>5, StepLocks

(* A process that ends, however it does, or begins: it holds nothing.        *)
LEMMA RestLocks ==
  ASSUME LockInv, NEW p \in Procs, NEW r, NEW l \in {"idle", "lock"},
         Goto(p, l), req' = [req EXCEPT ![p] = r], DataTyped',
         l # "idle" =>
           r.name \in Names /\ (r.op = "create" => r.args \in Args),
         lock' = Unlocked(p)
  PROVE  LockInv'
  <1>1. /\ pc' = [pc EXCEPT ![p] = l] /\ pc'[p] = l
        /\ lock \in [Locks -> Procs \cup {None}]
        /\ DOMAIN req = Procs /\ req'[p] = r
    BY DEF LockInv, TypeOK, Goto
  <1>2. ASSUME NEW q \in Procs \ {p}
        PROVE  pc'[q] = pc[q] /\ req'[q] = req[q]
    BY <1>1 DEF LockInv, TypeOK
  <1>3. lock' \in [Locks -> Procs \cup {None}]
    BY <1>1 DEF Unlocked
  <1>4. TypeOK'
    <2>1. pc' \in [Procs -> {"idle", "lock"} \cup Locked] /\ DOMAIN req' = Procs
      BY <1>1 DEF LockInv, TypeOK
    <2>2. ASSUME NEW q \in Procs, pc'[q] # "idle"
          PROVE  /\ Name(q)' \in Names
                 /\ Op(q)' = "create" => (req[q].args)' \in Args
      <3>1. CASE q = p
        BY <1>1, <2>2, <3>1 DEF Name, Op
      <3>2. CASE q # p
        BY <1>2, <2>2, <3>2 DEF LockInv, TypeOK, Name, Op
      <3> QED
        BY <3>1, <3>2
    <2> QED
      BY <1>3, <2>1, <2>2 DEF TypeOK, DataTyped
  <1>5. ASSUME NEW q \in Procs PROVE Holds(q)'
    <2>1. CASE q = p
      <3>1. \A j : ~WorksUnder(p, j)'
        BY <1>1 DEF WorksUnder, Locked, Creating, KeySteps, HasKey
      <3>2. \A j \in Locks : lock'[j] # p
        BY CreateAssumption DEF Unlocked
      <3> QED
        BY <2>1, <3>1, <3>2 DEF Holds
    <2>2. CASE q # p
      <3>1. \A j \in Locks : lock'[j] = q <=> lock[j] = q
        BY <1>1, <2>2, CreateAssumption DEF Unlocked
      <3>2. \A j : WorksUnder(q, j)' <=> WorksUnder(q, j)
        BY <1>2, <2>2 DEF WorksUnder, Name, Id, Image
      <3> QED
        BY <3>1, <3>2 DEF LockInv, LocksHeld, Holds
    <2> QED
      BY <2>1, <2>2
  <1>6. Creators'
    <2>1. "idle" \notin Creating /\ "lock" \notin Creating
      BY Labels
    <2> QED
      BY <1>1, <1>2, <2>1 DEF LockInv, Creators, Op
  <1> QED
    BY <1>4, <1>5, <1>6 DEF LockInv, LocksHeld

LEMMA EndLocks ==
  ASSUME LockInv, NEW p \in Procs, End(p)
  PROVE  LockInv'
  <1>1. DataTyped'
    <2>1. key' = [key EXCEPT ![p] = None] /\ KeyOrNone' = KeyOrNone
      BY DEF End, files, KeyOrNone, KeyIds
    <2>2. key' \in [Procs -> KeyOrNone']
      BY <2>1 DEF LockInv, TypeOK, KeyOrNone
    <2> QED
      BY <2>1, <2>2 DEF LockInv, TypeOK, DataTyped, End, files, vms
  <1>2. /\ Goto(p, "idle") /\ lock' = Unlocked(p)
        /\ req' = [req EXCEPT ![p] = NoReq]
    BY DEF End
  <1> QED
    BY <1>1, <1>2, RestLocks

LEMMA InvokeLocks ==
  ASSUME LockInv, NEW p \in Procs, InvokeCreate(p) \/ InvokeStart(p)
  PROVE  LockInv'
  <1>1. /\ pc[p] = "idle" /\ Goto(p, "lock")
        /\ key' = key /\ lock' = lock /\ host' = host /\ made' = made
        /\ priv' = priv /\ pub' = pub /\ config' = config /\ seed' = seed
    BY DEF InvokeCreate, InvokeStart, files, vms
  <1>2. PICK r : /\ req' = [req EXCEPT ![p] = r]
                 /\ r.name \in Names
                 /\ r.op = "create" => r.args \in Args
    <2>1. CASE InvokeCreate(p)
      <3>1. PICK n \in Names, b \in BOOLEAN, a \in Args :
              req' = [req EXCEPT ![p] =
                        [op |-> "create", name |-> n, prompt |-> b, args |-> a]]
        BY <2>1 DEF InvokeCreate
      <3> DEFINE r == [op |-> "create", name |-> n, prompt |-> b, args |-> a]
      <3>2. r.name \in Names /\ r.args \in Args
        OBVIOUS
      <3>3. req' = [req EXCEPT ![p] = r]
        BY <3>1
      <3> HIDE DEF r
      <3> QED
        BY <3>2, <3>3
    <2>2. CASE InvokeStart(p)
      <3>1. PICK n \in Names, b \in BOOLEAN :
              req' = [req EXCEPT ![p] =
                        [op |-> "start", name |-> n, prompt |-> b]]
        BY <2>2 DEF InvokeStart
      <3> DEFINE r == [op |-> "start", name |-> n, prompt |-> b]
      <3>2. r.name \in Names /\ r.op # "create"
        OBVIOUS
      <3>3. req' = [req EXCEPT ![p] = r]
        BY <3>1
      <3> HIDE DEF r
      <3> QED
        BY <3>2, <3>3
    <2> QED
      BY <2>1, <2>2
  <1>3. DataTyped'
    BY <1>1, DataSame DEF LockInv, TypeOK, DataTyped
  <1>4. lock' = Unlocked(p)
    <2>1. \A j \in Locks : lock[j] # p
      BY <1>1 DEF LockInv, LocksHeld, Holds, WorksUnder, Locked, Creating,
                  KeySteps, HasKey
    <2> QED
      BY <1>1, <2>1 DEF LockInv, TypeOK, Unlocked
  <1> QED
    BY <1>1, <1>2, <1>3, <1>4, RestLocks

LEMMA TakeLockLocks ==
  ASSUME LockInv, NEW p \in Procs, TakeLock(p)
  PROVE  LockInv'
  <1>1. /\ req' = req /\ pc[p] # "idle"
        /\ key' = key /\ host' = host /\ made' = made
        /\ priv' = priv /\ pub' = pub /\ config' = config /\ seed' = seed
    BY DEF TakeLock, LockInstance, LockKey, LockImage, LockPorts, files, vms
  <1>2. DataTyped'
    BY <1>1, DataSame DEF LockInv, TypeOK, DataTyped
  <1>3. Name(p)' = Name(p) /\ Id(p)' = Id(p) /\ Image(p)' = Image(p)
    BY <1>1 DEF Name, Id, Image
  <1>4. CASE LockInstance(p)
    <2>1. Goto(p, "status") /\ Take(Name(p), p) /\ pc[p] = "lock"
      BY <1>4 DEF LockInstance
    <2>2. pc'[p] = "status" /\ "status" \in Locked \ Creating
      BY <2>1 DEF LockInv, TypeOK, Goto, Locked, Creating, KeySteps, HasKey
    <2>3. \A j \in Locks : WorksUnder(p, j)' <=> WorksUnder(p, j) \/ j = Name(p)
      BY <1>3, <2>1, <2>2 DEF WorksUnder, Locked, Creating, KeySteps, HasKey
    <2>4. Name(p) \in Locks
      BY <1>1, ReqTyped, LocksApart
    <2> QED
      BY <1>1, <1>2, <2>1, <2>2, <2>3, <2>4, TakeLocks
  <1>5. CASE LockKey(p)
    <2>1. Goto(p, "key") /\ Take(Id(p), p) /\ pc[p] = "keylock"
      BY <1>5 DEF LockKey
    <2>2. pc'[p] = "key" /\ "key" \in Locked /\ "keylock" \in Creating
      BY <2>1 DEF LockInv, TypeOK, Goto, Locked, Creating, KeySteps
    <2>3. \A j \in Locks : WorksUnder(p, j)' <=> WorksUnder(p, j) \/ j = Id(p)
      BY <1>3, <2>1, <2>2 DEF WorksUnder, Locked, Creating, KeySteps, HasKey
    <2>4. Id(p) \in Locks /\ Op(p) = "create"
      BY <1>1, <2>1, <2>2, ReqTyped, LocksApart
    <2> QED
      BY <1>1, <1>2, <2>1, <2>2, <2>3, <2>4, TakeLocks
  <1>6. CASE LockImage(p)
    <2>1. Goto(p, "image") /\ Take(Image(p), p) /\ pc[p] = "imagelock"
      BY <1>6 DEF LockImage
    <2>2. pc'[p] = "image" /\ "image" \in Locked /\ "imagelock" \in Creating
      BY <2>1 DEF LockInv, TypeOK, Goto, Locked, Creating, HasKey
    <2>3. \A j \in Locks : WorksUnder(p, j)' <=> WorksUnder(p, j) \/ j = Image(p)
      BY <1>3, <2>1, <2>2 DEF WorksUnder, Locked, Creating, KeySteps, HasKey
    <2>4. Image(p) \in Locks /\ Op(p) = "create"
      BY <1>1, <2>1, <2>2, ReqTyped, LocksApart
    <2> QED
      BY <1>1, <1>2, <2>1, <2>2, <2>3, <2>4, TakeLocks
  <1>7. CASE LockPorts(p)
    <2>1. Goto(p, "ports") /\ Take(PortsLock, p) /\ pc[p] = "portslock"
      BY <1>7 DEF LockPorts
    <2>2. pc'[p] = "ports" /\ "ports" \in Locked /\ "portslock" \in Creating
      BY <2>1 DEF LockInv, TypeOK, Goto, Locked, Creating, HasKey
    <2>3. \A j \in Locks : WorksUnder(p, j)' <=> WorksUnder(p, j) \/ j = PortsLock
      BY <1>3, <2>1, <2>2 DEF WorksUnder, Locked, Creating, KeySteps, HasKey
    <2>4. Op(p) = "create"
      BY <1>1, <2>1, <2>2, ReqTyped
    <2> QED
      BY <1>1, <1>2, <2>1, <2>2, <2>3, <2>4, LocksApart, TakeLocks
  <1> QED
    BY <1>4, <1>5, <1>6, <1>7 DEF TakeLock

(* The steps that give a lock back before the process ends.                  *)
LEMMA ReadPubLocks ==
  ASSUME LockInv, NEW p \in Procs, ReadPub(p), ~End(p)
  PROVE  LockInv'
  <1>1. /\ pc[p] = "readpub" /\ pub[PubPath[Id(p)]] # None
        /\ key' = [key EXCEPT ![p] = pub[PubPath[Id(p)]]]
        /\ Drop(Id(p)) /\ Goto(p, "imagelock")
        /\ req' = req /\ host' = host /\ made' = made
        /\ priv' = priv /\ pub' = pub /\ config' = config /\ seed' = seed
    BY DEF ReadPub, files, vms
  <1>2. pc[p] \in KeySteps /\ "imagelock" \in HasKey
    BY <1>1 DEF KeySteps, HasKey
  <1>3. /\ Id(p) \in Keys /\ PubPath[Id(p)] \in PubFiles
        /\ Name(p) \in Names /\ Op(p) = "create"
    BY <1>1, <1>2, ReqTyped, Labels
  <1>4. DataTyped'
    <2>1. key' \in [Procs -> KeyOrNone]
      BY <1>1, <1>3 DEF LockInv, TypeOK
    <2> QED
      BY <1>1, <2>1 DEF LockInv, TypeOK, DataTyped, KeyOrNone, KeyIds
  <1>5. pc'[p] = "imagelock"
    BY <1>1 DEF LockInv, TypeOK, Goto
  <1>6. \A j \in Locks : WorksUnder(p, j)' <=> WorksUnder(p, j) /\ j # Id(p)
    BY <1>1, <1>2, <1>3, <1>5, Labels, LocksApart
    DEF WorksUnder, Name, Id, Image, KeySteps
  <1>7. WorksUnder(p, Id(p)) /\ Id(p) \in Locks
    BY <1>2, <1>3, LocksApart DEF WorksUnder
  <1> QED
    BY <1>1, <1>2, <1>3, <1>4, <1>6, <1>7, Labels, DropLocks

LEMMA EnsuredLocks ==
  ASSUME LockInv, NEW p \in Procs, EnsureImage(p) \/ ReservePorts(p)
  PROVE  LockInv'
  <1>1. /\ req' = req /\ pc[p] \in {"image", "ports"}
        /\ key' = key /\ host' = host /\ made' = made
        /\ priv' = priv /\ pub' = pub /\ config' = config /\ seed' = seed
    BY DEF EnsureImage, ReservePorts, files, vms
  <1>2. DataTyped'
    BY <1>1, DataSame DEF LockInv, TypeOK, DataTyped
  <1>3. /\ Name(p) \in Names /\ Image(p) \in Archs /\ Op(p) = "create"
        /\ pc[p] # "idle" /\ pc[p] \in Locked
    BY <1>1, ReqTyped, Labels
  <1>4. CASE EnsureImage(p)
    <2>1. Goto(p, "portslock") /\ Drop(Image(p)) /\ pc[p] = "image"
      BY <1>4 DEF EnsureImage
    <2>2. pc'[p] = "portslock" /\ "portslock" \in Locked
      BY <2>1 DEF LockInv, TypeOK, Goto, Locked, Creating, HasKey
    <2>3. \A j \in Locks : WorksUnder(p, j)' <=> WorksUnder(p, j) /\ j # Image(p)
      BY <1>1, <1>3, <2>1, <2>2, LocksApart
      DEF WorksUnder, Name, Id, Image, KeySteps
    <2>4. WorksUnder(p, Image(p)) /\ Image(p) \in Locks
      BY <1>3, <2>1, LocksApart DEF WorksUnder
    <2> QED
      BY <1>1, <1>2, <1>3, <2>1, <2>2, <2>3, <2>4, DropLocks
  <1>5. CASE ReservePorts(p)
    <2>1. Goto(p, "seed") /\ Drop(PortsLock) /\ pc[p] = "ports"
      BY <1>5 DEF ReservePorts
    <2>2. pc'[p] = "seed" /\ "seed" \in Locked
      BY <2>1 DEF LockInv, TypeOK, Goto, Locked, Creating, HasKey
    <2>3. \A j \in Locks : WorksUnder(p, j)' <=> WorksUnder(p, j) /\ j # PortsLock
      BY <1>1, <1>3, <2>1, <2>2, LocksApart
      DEF WorksUnder, Name, Id, Image, KeySteps
    <2>4. WorksUnder(p, PortsLock) /\ PortsLock \in Locks
      BY <2>1, LocksApart DEF WorksUnder
    <2> QED
      BY <1>1, <1>2, <1>3, <2>1, <2>2, <2>3, <2>4, DropLocks
  <1> QED
    BY <1>4, <1>5

(* The steps that only choose where a process goes on. *)
Choices == {"deps", "ask", "brew", "recheck", "keylock", "launch", "ssh",
            "readpub", "private", "overwrite"}

Choose(p) ==
  \/ CheckStatus(p) \/ OfferBrew(p) \/ AnswerYes(p) \/ BrewInstalls(p)
  \/ DepsFound(p) \/ HasKeyPair(p) \/ RunKeygen(p) \/ AnswerOverwrite(p)
  \/ Launch(p)

LEMMA ChooseLocks ==
  ASSUME LockInv, NEW p \in Procs, Choose(p)
  PROVE  LockInv'
  <1>1. /\ req' = req /\ lock' = lock /\ key' = key /\ made' = made
        /\ priv' = priv /\ pub' = pub /\ config' = config /\ seed' = seed
    BY DEF Choose, CheckStatus, OfferBrew, AnswerYes, BrewInstalls, DepsFound,
           HasKeyPair, RunKeygen, AnswerOverwrite, Launch, files, vms
  <1>2. host' = host \/ host' = WithQemu(host)
    BY DEF Choose, CheckStatus, OfferBrew, AnswerYes, BrewInstalls, DepsFound,
           HasKeyPair, RunKeygen, AnswerOverwrite, Launch
  <1>3. DataTyped'
    <2>1. host \in Hosts /\ WithQemu(host) \in Hosts
      BY DEF LockInv, TypeOK, Hosts, WithQemu, Tools
    <2> QED
      BY <1>1, <1>2, <2>1 DEF LockInv, TypeOK, DataTyped, KeyOrNone, KeyIds
  <1>4. PICK l \in Choices :
          /\ Goto(p, l)
          /\ l = "keylock" => Op(p) = "create"
          /\ l \in {"readpub", "private", "overwrite"} <=> pc[p] \in KeySteps
    BY DEF Choose, CheckStatus, OfferBrew, Offered, AnswerYes, BrewInstalls,
           DepsFound, Checking, HasKeyPair, RunKeygen, AnswerOverwrite, Launch,
           Choices, KeySteps
  <1>5. pc[p] \in Locked /\ pc[p] \notin {"image", "ports"}
    BY DEF Choose, CheckStatus, OfferBrew, Offered, AnswerYes, BrewInstalls,
           DepsFound, Checking, HasKeyPair, RunKeygen, AnswerOverwrite, Launch,
           Locked, Creating, KeySteps
  <1>6. /\ l \in Locked /\ l \notin {"image", "ports"}
        /\ l \in KeySteps <=> pc[p] \in KeySteps
        /\ l \in Creating => l = "keylock" \/ pc[p] \in KeySteps
    BY <1>4 DEF Choices, Locked, Creating, KeySteps, HasKey
  <1>7. l \in Creating => Op(p) = "create"
    BY <1>4, <1>6, Labels DEF LockInv, Creators
  <1> QED
    BY <1>1, <1>3, <1>4, <1>5, <1>6, <1>7, MoveLocks

(* ssh-keygen's files, the seed and the config. *)
LEMMA WriteLocks ==
  ASSUME LockInv, NEW p \in Procs,
         \/ KeygenPrivate(p) \/ KeygenPublic(p)
         \/ CreateSeed(p) \/ WriteConfig(p)
  PROVE  LockInv'
  <1>1. PICK l \in {"public", "readpub", "config", "created"} :
          /\ Goto(p, l)
          /\ l \in KeySteps <=> pc[p] \in KeySteps
    BY DEF KeygenPrivate, KeygenPublic, CreateSeed, WriteConfig, KeySteps
  <1>2. /\ req' = req /\ lock' = lock /\ host' = host
        /\ pc[p] \in {"private", "public", "seed", "config"}
    BY DEF KeygenPrivate, KeygenPublic, CreateSeed, WriteConfig, files, vms
  <1>3. pc[p] \in Creating /\ l \in Creating /\ {l, pc[p]} \cap {"image", "ports"} = {}
    BY <1>2 DEF Creating, KeySteps, HasKey
  <1>4. /\ Op(p) = "create" /\ Id(p) \in Keys /\ GenPub[Id(p)] \in PubFiles
        /\ Name(p) \in Names /\ req[p].args \in Args
    BY <1>3, ReqTyped, Labels
  <1>5. DataTyped'
    <2>1. CASE KeygenPrivate(p)
      <3>1. /\ made' = made + 1 /\ priv' = [priv EXCEPT ![Id(p)] = made + 1]
            /\ key' = [key EXCEPT ![p] = made + 1]
            /\ pub' = pub /\ config' = config /\ seed' = seed
        BY <2>1 DEF KeygenPrivate, vms
      <3>2. KeyOrNone \subseteq KeyOrNone' /\ made + 1 \in KeyOrNone'
        BY <3>1 DEF LockInv, TypeOK, KeyOrNone, KeyIds
      <3>3. /\ key' \in [Procs -> KeyOrNone'] /\ priv' \in [Keys -> KeyOrNone']
            /\ pub' \in [PubFiles -> KeyOrNone'] /\ made' \in Nat
        BY <1>4, <3>1, <3>2 DEF LockInv, TypeOK
      <3> QED
        BY <1>2, <3>1, <3>3 DEF LockInv, TypeOK, DataTyped
    <2>2. CASE KeygenPublic(p)
      <3>1. /\ pub' = [pub EXCEPT ![GenPub[Id(p)]] = key[p]]
            /\ made' = made /\ priv' = priv /\ key' = key
            /\ config' = config /\ seed' = seed
        BY <2>2 DEF KeygenPublic, vms
      <3>2. pub' \in [PubFiles -> KeyOrNone]
        BY <1>4, <3>1 DEF LockInv, TypeOK
      <3> QED
        BY <1>2, <3>1, <3>2 DEF LockInv, TypeOK, DataTyped, KeyOrNone, KeyIds
    <2>3. CASE CreateSeed(p)
      <3>1. /\ seed' = [seed EXCEPT ![Name(p)] = UserData(p)]
            /\ made' = made /\ priv' = priv /\ key' = key /\ pub' = pub
            /\ config' = config
        BY <2>3 DEF CreateSeed, files
      <3>2. DOMAIN seed' = Names
        BY <3>1 DEF LockInv, TypeOK
      <3> QED
        BY <1>2, <3>1, <3>2 DEF LockInv, TypeOK, DataTyped, KeyOrNone, KeyIds
    <2>4. CASE WriteConfig(p)
      <3>1. /\ config' = [config EXCEPT ![Name(p)] = req[p].args]
            /\ made' = made /\ priv' = priv /\ key' = key /\ pub' = pub
            /\ seed' = seed
        BY <2>4 DEF WriteConfig, files
      <3>2. config' \in [Names -> Args \cup {None}]
        BY <1>4, <3>1 DEF LockInv, TypeOK
      <3> QED
        BY <1>2, <3>1, <3>2 DEF LockInv, TypeOK, DataTyped, KeyOrNone, KeyIds
    <2> QED
      BY <2>1, <2>2, <2>3, <2>4
  <1> QED
    BY <1>1, <1>2, <1>3, <1>4, <1>5, Labels, MoveLocks

(* stop, delete and the owner of the host. *)
LEMMA OtherLocks ==
  ASSUME LockInv, \/ \E n \in Names : StopVm(n) \/ DeleteVm(n)
                  \/ HostChanges \/ UNCHANGED vars
  PROVE  LockInv'
  <1>1. /\ pc' = pc /\ req' = req /\ key' = key /\ lock' = lock
        /\ made' = made /\ priv' = priv /\ pub' = pub
    BY DEF StopVm, DeleteVm, HostChanges, files, vms, vars
  <1>2. host' \in Hosts
    BY CreateAssumption
    DEF StopVm, DeleteVm, HostChanges, vars, LockInv, TypeOK
  <1>3. \/ config' = config /\ seed' = seed
        \/ \E n \in Names : /\ config' = [config EXCEPT ![n] = None]
                            /\ seed' = [seed EXCEPT ![n] = None]
    BY DEF StopVm, DeleteVm, HostChanges, vms, vars
  <1>4. config' \in [Names -> Args \cup {None}] /\ DOMAIN seed' = Names
    BY <1>3 DEF LockInv, TypeOK
  <1>5. TypeOK'
    BY <1>1, <1>2, <1>4 DEF LockInv, TypeOK, KeyOrNone, KeyIds, Name, Op
  <1>6. LocksHeld' /\ Creators'
    BY <1>1
    DEF LockInv, LocksHeld, Holds, WorksUnder, Creators, Name, Id, Image, Op
  <1> QED
    BY <1>5, <1>6 DEF LockInv

(* The steps that end a process. *)
Ending(p) ==
  \/ Refused(p) \/ DepsMissing(p) \/ NoKeygen(p) \/ CreateDone(p)
  \/ LaunchRefused(p) \/ WaitForSsh(p) \/ AnswerNo(p) \/ AnswerKeep(p)
  \/ Stops(p)

LEMMA StepCases ==
  ASSUME NEW p \in Procs, Step(p)
  PROVE  \/ InvokeCreate(p) \/ InvokeStart(p) \/ TakeLock(p) \/ Choose(p)
         \/ KeygenPrivate(p) \/ KeygenPublic(p) \/ ReadPub(p)
         \/ EnsureImage(p) \/ ReservePorts(p)
         \/ CreateSeed(p) \/ WriteConfig(p) \/ End(p)
  <1>1. Ending(p) => End(p)
    BY DEF Ending, Refused, DepsMissing, NoKeygen, CreateDone, LaunchRefused,
           WaitForSsh, AnswerNo, AnswerKeep, Stops
  <1> QED
    BY <1>1 DEF Step, Advance, Answer, Choose, Ending

LEMMA NextLocks == LockInv /\ [Next]_vars => LockInv'
  <1>1. ASSUME LockInv, NEW p \in Procs, Step(p) PROVE LockInv'
    BY <1>1, StepCases, InvokeLocks, TakeLockLocks, ChooseLocks, WriteLocks,
       ReadPubLocks, EnsuredLocks, EndLocks
  <1> QED
    BY <1>1, OtherLocks DEF Next

LEMMA InitLocks == Init => LockInv
  <1> SUFFICES ASSUME Init PROVE LockInv
    OBVIOUS
  <1>1. TypeOK
    BY CreateAssumption DEF Init, TypeOK, KeyOrNone, KeyIds
  <1>2. LocksHeld
    BY CreateAssumption
    DEF Init, LocksHeld, Holds, WorksUnder, Locked, Creating, KeySteps, HasKey
  <1>3. Creators
    BY DEF Init, Creators, Creating, KeySteps, HasKey
  <1> QED
    BY <1>1, <1>2, <1>3 DEF LockInv

(* A process holds the locks that it works under, and no other: none is left *)
(* behind, none taken before its step (FileLock, create_inner).              *)
THEOREM LockInvariant == Spec => []LockInv
  <1> QED
    BY InitLocks, NextLocks, PTL DEF Spec

(* Who waits for a lock waits for a process at work, or for one that waits   *)
(* for one (create_inner, ensure_ssh_key, ensure_image, reserve_host_ports). *)
THEOREM WaitsEndHolds == Spec => []WaitsEnd
  <1>1. ASSUME LockInv, NEW p \in Procs, Waits(p)
        PROVE  /\ Blocker(p) \in Procs /\ pc[Blocker(p)] \in Locked
               /\ WorksUnder(Blocker(p), Wants(p))
    <2>1. Wants(p) \in Locks
      <3>1. pc[p] \in {"lock", "keylock", "imagelock", "portslock"} /\ pc[p] # "idle"
        BY <1>1 DEF Waits
      <3>2. pc[p] # "lock" => pc[p] \in Creating
        BY <3>1 DEF Creating, HasKey
      <3> QED
        BY <1>1, <3>1, <3>2, ReqTyped, LocksApart DEF Wants
    <2>2. Blocker(p) \in Procs
      BY <1>1, <2>1 DEF Waits, Blocker, LockInv, TypeOK
    <2>3. WorksUnder(Blocker(p), Wants(p))
      BY <1>1, <2>1, <2>2 DEF Blocker, LockInv, LocksHeld, Holds
    <2> QED
      BY <2>2, <2>3, Labels DEF WorksUnder
  <1>2. ASSUME LockInv, NEW p \in Procs, Waits(p), pc[p] # "lock"
        PROVE  AtWork(Blocker(p))
    <2> DEFINE b == Blocker(p)
    <2>1. /\ pc[p] \in {"keylock", "imagelock", "portslock"}
          /\ pc[p] \in Creating /\ pc[p] # "idle"
      BY <1>2 DEF Waits, Creating, HasKey
    <2>2. /\ pc[p] = "keylock" => Wants(p) \in Keys
          /\ pc[p] = "imagelock" => Wants(p) \in Archs
          /\ pc[p] = "portslock" => Wants(p) = PortsLock
      BY <1>2, <2>1, ReqTyped DEF Wants
    <2>3. b \in Procs /\ pc[b] \in Locked /\ WorksUnder(b, Wants(p))
      BY <1>1, <1>2
    <2>4. pc[b] # "idle" /\ Name(b) \in Names
      BY <1>2, <2>3, ReqTyped, Labels
    <2>5. pc[b] \in KeySteps \cup {"image", "ports"}
      BY <2>1, <2>2, <2>3, <2>4, LocksApart DEF WorksUnder
    <2> QED
      BY <2>4, <2>5 DEF AtWork, Waits, KeySteps
  <1>3. LockInv => WaitsEnd
    <2> SUFFICES ASSUME LockInv, NEW p \in Procs, Waits(p), ~AtWork(Blocker(p))
                 PROVE  Waits(Blocker(p)) /\ AtWork(Blocker(Blocker(p)))
      BY DEF WaitsEnd
    <2>1. Blocker(p) \in Procs /\ pc[Blocker(p)] \in Locked
      BY <1>1
    <2>2. Waits(Blocker(p)) /\ pc[Blocker(p)] # "lock"
      BY <2>1, Labels DEF AtWork
    <2> QED
      BY <1>2, <2>1, <2>2
  <1> QED
    BY <1>3, LockInvariant, PTL

-----------------------------------------------------------------------------
(* Where doctor finds nothing to say, no create or start of a guest of the   *)
(* host's architecture fails for want of a tool (doctor,                     *)
(* collect_create_missing_dependencies, collect_start_missing_dependencies,  *)
(* resolve_accel).                                                           *)
LEMMA DoctorCovers ==
  ASSUME NEW h \in Hosts, DoctorOk(h), NEW launch
  PROVE  /\ CreateMissing(h, h.arch) = {}
         /\ StartMissing(h, h.arch, launch) = {}
         /\ QemuSystem(h.arch) \in h.tools /\ FirmwareMissing(h, h.arch) = {}
  BY DEF DoctorOk, CreateMissing, StartMissing

LEMMA DoctorAccel ==
  ASSUME NEW h \in Hosts, ~DoctorWarns(h), NEW accel \in {"auto", "tcg"}
  PROVE  AccelResolves(h, accel)
  BY DEF Hosts, DoctorWarns, AccelResolves

THEOREM DoctorVouchesHolds == Spec => DoctorVouches
  <1>1. ASSUME LockInv, NEW p \in Procs, DepsMissing(p), Op(p) = "create",
               req[p].args.arch = host.arch
        PROVE  ~Vouched("auto")
    BY <1>1, DoctorCovers
    DEF LockInv, TypeOK, DepsMissing, MissingFor, Vouched
  <1>2. ASSUME LockInv, NEW p \in Procs,
               (DepsMissing(p) /\ Op(p) = "start") \/ LaunchRefused(p),
               config[Name(p)].arch = host.arch
        PROVE  ~Vouched(config[Name(p)].accel)
    <2>1. host \in Hosts
      BY <1>2 DEF LockInv, TypeOK
    <2>2. CASE DepsMissing(p) /\ Op(p) = "start"
      BY <1>2, <2>1, <2>2, DoctorCovers DEF DepsMissing, MissingFor, Vouched
    <2>3. CASE LaunchRefused(p)
      BY <1>2, <2>1, <2>3, DoctorCovers, DoctorAccel
      DEF LaunchRefused, CanLaunch, Vouched
    <2> QED
      BY <1>2, <2>2, <2>3
  <1>3. LockInv =>
          \A p \in Procs :
            /\ DepsMissing(p) /\ Op(p) = "create" /\ req[p].args.arch = host.arch =>
                 ~Vouched("auto")
            /\ (DepsMissing(p) /\ Op(p) = "start") \/ LaunchRefused(p) =>
                 \/ config[Name(p)].arch # host.arch
                 \/ ~Vouched(config[Name(p)].accel)
    BY <1>1, <1>2
  <1>4. LockInv /\ [Next]_vars =>
          [\A p \in Procs :
             /\ DepsMissing(p) /\ Op(p) = "create" /\ req[p].args.arch = host.arch =>
                  ~Vouched("auto")
             /\ (DepsMissing(p) /\ Op(p) = "start") \/ LaunchRefused(p) =>
                  config[Name(p)].arch # host.arch \/ ~Vouched(config[Name(p)].accel)
          ]_vars
    BY <1>3
  <1> QED
    BY <1>4, LockInvariant, PTL DEF Spec, DoctorVouches

-----------------------------------------------------------------------------
(* The keys.  What a step of p leaves alone, of another process and of the   *)
(* files.                                                                    *)
Untouched(p) ==
  /\ \A q \in Procs \ {p} :
       pc'[q] = pc[q] /\ req'[q] = req[q] /\ key'[q] = key[q]
  /\ priv' = priv /\ pub' = pub /\ config' = config /\ seed' = seed

LEMMA KnowsKept ==
  ASSUME NEW q, pc'[q] = pc[q], req'[q] = req[q], key'[q] = key[q],
         priv' = priv, pub' = pub, config' = config, seed' = seed, Knows(q)
  PROVE  Knows(q)'
  BY DEF Knows, Op, Name, Id, UserData

(* A step that touches no file and no VM. *)
LEMMA QuietKeeps ==
  ASSUME IndInv, LockInv', NEW p \in Procs, Untouched(p), Knows(p)'
  PROVE  IndInv'
  <1>1. PairsMatch' /\ VmsKeyed'
    BY DEF IndInv, Untouched, PairsMatch, VmsKeyed, Keyed
  <1>2. ASSUME NEW q \in Procs, q # p PROVE Knows(q)'
    BY <1>2, KnowsKept DEF IndInv, CreateKnows, Untouched
  <1> QED
    BY <1>1, <1>2 DEF IndInv, CreateKnows

(* The labels at which a process knows nothing yet, or no more. *)
LEMMA KnowsNothing ==
  ASSUME NEW p, pc[p] \in {"idle", "lock", "status", "created"}
  PROVE  Knows(p)
  BY DEF Knows, Locked, Creating, KeySteps, HasKey

(* What a process in create finds at its VM's name. *)
LEMMA NoVmYet ==
  ASSUME IndInv, NEW p \in Procs, pc[p] \in Creating, pc[p] # "created"
  PROVE  /\ Name(p) \in Names /\ Id(p) \in Keys /\ PubPath[Id(p)] \in PubFiles
         /\ config[Name(p)] = None /\ Op(p) = "create" /\ pc[p] \in Locked
  <1>1. pc[p] # "status"
    BY DEF Creating, KeySteps, HasKey
  <1> QED
    BY <1>1, ReqTyped, Labels DEF IndInv, CreateKnows, Knows

(* Only one process works on a key, and only one on a VM. *)
LEMMA OneAtWork ==
  ASSUME IndInv, NEW p \in Procs, NEW q \in Procs, p # q
  PROVE  /\ pc[p] \in KeySteps /\ pc[q] \in KeySteps => Id(p) # Id(q)
         /\ pc[p] \in Locked /\ pc[q] \in Locked => Name(p) # Name(q)
  <1>1. \A l \in Locks : ~(WorksUnder(p, l) /\ WorksUnder(q, l))
    BY DEF IndInv, LockInv, LocksHeld, Holds
  <1> QED
    BY <1>1, WorksUnderLocks DEF IndInv, WorksUnder

LEMMA InvokeEndKeep ==
  ASSUME IndInv, NEW p \in Procs,
         InvokeCreate(p) \/ InvokeStart(p) \/ LockInstance(p) \/ End(p)
  PROVE  IndInv'
  <1>1. LockInv'
    BY InvokeLocks, TakeLockLocks, EndLocks DEF IndInv, TakeLock
  <1>2. pc'[p] \in {"idle", "lock", "status"}
    BY DEF IndInv, LockInv, TypeOK, InvokeCreate, InvokeStart, LockInstance,
           End, Goto
  <1>3. Knows(p)'
    BY <1>2 DEF Knows, Locked, Creating, KeySteps, HasKey
  <1>4. Untouched(p)
    BY DEF IndInv, LockInv, TypeOK, InvokeCreate, InvokeStart, LockInstance,
           End, Goto, files, vms, Untouched
  <1> QED
    BY <1>1, <1>3, <1>4, QuietKeeps

(* The steps that only choose where a process goes on.  ensure_ssh_key       *)
(* decides whether to run ssh-keygen, and ssh-keygen whether to ask: only    *)
(* while the public file is absent.                                          *)
LEMMA ChooseKeeps ==
  ASSUME IndInv, NEW p \in Procs, Choose(p)
  PROVE  IndInv'
  <1>1. LockInv'
    BY ChooseLocks DEF IndInv
  <1>2. /\ req' = req /\ key' = key
        /\ priv' = priv /\ pub' = pub /\ config' = config /\ seed' = seed
    BY DEF Choose, CheckStatus, OfferBrew, AnswerYes, BrewInstalls, DepsFound,
           HasKeyPair, RunKeygen, AnswerOverwrite, Launch, files, vms
  <1>3. PICK l \in Choices :
          /\ Goto(p, l)
          /\ l \in {"private", "overwrite"} =>
               pc[p] = "overwrite" \/ (pc[p] = "key" /\ ~BothFiles(Id(p)))
    BY DEF Choose, CheckStatus, OfferBrew, AnswerYes, BrewInstalls, DepsFound,
           HasKeyPair, RunKeygen, AnswerOverwrite, Launch, Choices
  <1>4. /\ pc[p] \in Locked \ {"created"}
        /\ pc[p] = "status" => Accepted(p)
        /\ pc[p] \in {"key", "overwrite"} => pc[p] \in Creating
    BY DEF Choose, CheckStatus, OfferBrew, Offered, AnswerYes, BrewInstalls,
           DepsFound, Checking, HasKeyPair, RunKeygen, AnswerOverwrite, Launch,
           Locked, Creating, KeySteps
  <1>5. pc'[p] = l
    BY <1>3 DEF IndInv, LockInv, TypeOK, Goto
  <1>6. Op(p) = "create" <=> config[Name(p)] = None
    BY <1>4 DEF Accepted, IndInv, CreateKnows, Knows
  <1>7. l \in {"private", "overwrite"} => pub[PubPath[Id(p)]] = None
    <2>1. CASE pc[p] = "overwrite"
      BY <2>1 DEF IndInv, CreateKnows, Knows
    <2>2. CASE pc[p] = "key" /\ ~BothFiles(Id(p))
      BY <1>4, <2>2, NoVmYet DEF IndInv, BothFiles, PairsMatch
    <2> QED
      BY <1>3, <2>1, <2>2
  <1>8. Knows(p)'
    BY <1>2, <1>5, <1>6, <1>7 DEF Choices, Knows, Op, Name, Id, HasKey
  <1>9. Untouched(p)
    BY <1>2, <1>3 DEF IndInv, LockInv, TypeOK, Goto, Untouched
  <1> QED
    BY <1>1, <1>8, <1>9, QuietKeeps

(* The locks within create, and what it does under those of its image and of *)
(* the ports: it knows what it knew.                                         *)
LEMMA PassKeeps ==
  ASSUME IndInv, NEW p \in Procs,
         \/ LockKey(p) \/ LockImage(p) \/ LockPorts(p)
         \/ EnsureImage(p) \/ ReservePorts(p)
  PROVE  IndInv'
  <1>1. LockInv'
    BY TakeLockLocks, EnsuredLocks DEF IndInv, TakeLock
  <1>2. /\ req' = req /\ key' = key
        /\ priv' = priv /\ pub' = pub /\ config' = config /\ seed' = seed
    BY DEF LockKey, LockImage, LockPorts, EnsureImage, ReservePorts, files, vms
  <1>3. PICK l \in {"key", "image", "portslock", "ports", "seed"} :
          /\ Goto(p, l)
          /\ l # "key" => pc[p] \in HasKey
    BY DEF LockKey, LockImage, LockPorts, EnsureImage, ReservePorts, HasKey
  <1>4. pc[p] \in Creating /\ pc[p] # "created"
    BY DEF LockKey, LockImage, LockPorts, EnsureImage, ReservePorts, Creating,
           HasKey
  <1>5. pc'[p] = l
    BY <1>3 DEF IndInv, LockInv, TypeOK, Goto
  <1>6. l # "key" => key[p] # None /\ pub[PubPath[Id(p)]] = key[p]
    BY <1>3 DEF IndInv, CreateKnows, Knows
  <1>7. Knows(p)'
    BY <1>2, <1>4, <1>5, <1>6, NoVmYet DEF Knows, Op, Name, Id, HasKey
  <1>8. Untouched(p)
    BY <1>2, <1>3 DEF IndInv, LockInv, TypeOK, Goto, Untouched
  <1> QED
    BY <1>1, <1>7, <1>8, QuietKeeps

LEMMA PrivateKeeps ==
  ASSUME IndInv, NEW p \in Procs, KeygenPrivate(p)
  PROVE  IndInv'
  <1>1. /\ pc[p] = "private" /\ pc' = [pc EXCEPT ![p] = "public"]
        /\ priv' = [priv EXCEPT ![Id(p)] = made + 1]
        /\ key' = [key EXCEPT ![p] = made + 1] /\ req' = req
        /\ pub' = pub /\ config' = config /\ seed' = seed
    BY DEF KeygenPrivate, Goto, vms
  <1>2. LockInv'
    BY WriteLocks DEF IndInv
  <1>3. pc[p] \in KeySteps /\ pc[p] \in Creating
    BY <1>1, Labels DEF KeySteps
  <1>4. /\ Id(p) \in Keys /\ pub[PubPath[Id(p)]] = None
        /\ Op(p) = "create" /\ config[Name(p)] = None
    BY <1>1, <1>3, NoVmYet DEF IndInv, CreateKnows, Knows
  <1>5. made + 1 # None
    BY CreateAssumption DEF IndInv, LockInv, TypeOK
  <1>6. pc'[p] = "public" /\ priv'[Id(p)] = made + 1 /\ key'[p] = made + 1
    BY <1>1, <1>4 DEF IndInv, LockInv, TypeOK
  <1>7. PairsMatch'
    BY <1>1, <1>4 DEF IndInv, PairsMatch, LockInv, TypeOK
  <1>8. VmsKeyed'
    BY <1>1 DEF IndInv, VmsKeyed, Keyed
  <1>9. Knows(p)'
    BY <1>1, <1>4, <1>5, <1>6 DEF Knows, Op, Name, Id, HasKey
  <1>10. ASSUME NEW q \in Procs, q # p PROVE Knows(q)'
    <2>1. pc'[q] = pc[q] /\ key'[q] = key[q]
      BY <1>1, <1>10 DEF IndInv, LockInv, TypeOK
    <2>2. ASSUME pc[q] = "public" PROVE priv'[Id(q)] = priv[Id(q)]
      <3>1. pc[q] \in KeySteps /\ pc[q] \in Creating /\ pc[q] # "created"
        BY <2>2, Labels DEF KeySteps
      <3>2. Id(q) # Id(p) /\ Id(q) \in Keys
        BY <1>3, <1>10, <3>1, OneAtWork, NoVmYet
      <3> QED
        BY <1>1, <3>2 DEF IndInv, LockInv, TypeOK
    <2> QED
      BY <1>1, <2>1, <2>2
      DEF IndInv, CreateKnows, Knows, Op, Name, Id, UserData
  <1> QED
    BY <1>2, <1>7, <1>8, <1>9, <1>10 DEF IndInv, CreateKnows

LEMMA PublicKeeps ==
  ASSUME Undotted, IndInv, NEW p \in Procs, KeygenPublic(p)
  PROVE  IndInv'
  <1> DEFINE f == PubPath[Id(p)]
  <1>1. /\ pc[p] = "public" /\ pc' = [pc EXCEPT ![p] = "readpub"]
        /\ pub' = [pub EXCEPT ![f] = key[p]]
        /\ priv' = priv /\ key' = key /\ req' = req
        /\ config' = config /\ seed' = seed
    BY DEF KeygenPublic, Goto, vms, Undotted
  <1>2. LockInv'
    BY WriteLocks DEF IndInv
  <1>3. pc[p] \in KeySteps /\ pc[p] \in Creating
    BY <1>1, Labels DEF KeySteps
  <1>4. /\ Id(p) \in Keys /\ f \in PubFiles
        /\ Op(p) = "create" /\ config[Name(p)] = None
    BY <1>1, <1>3, NoVmYet
  <1>5. pub[f] = None /\ key[p] # None /\ priv[Id(p)] = key[p]
    BY <1>1 DEF IndInv, CreateKnows, Knows
  <1>6. pc'[p] = "readpub" /\ pub'[f] = key[p]
    BY <1>1, <1>4 DEF IndInv, LockInv, TypeOK
  <1>7. \A k \in Keys : k # Id(p) => pub'[PubPath[k]] = pub[PubPath[k]]
    BY <1>1, <1>4, CreateAssumption DEF Undotted, IndInv, LockInv, TypeOK
  <1>8. PairsMatch'
    BY <1>1, <1>5, <1>6, <1>7 DEF IndInv, PairsMatch
  <1>9. VmsKeyed'
    <2>1. ASSUME NEW n \in Names, config[n] # None
          PROVE  config[n].key \in Keys /\ config[n].key # Id(p)
      BY <1>5, <2>1, ArgsKeyed DEF IndInv, VmsKeyed, Keyed, LockInv, TypeOK
    <2> QED
      BY <1>1, <1>7, <2>1 DEF IndInv, VmsKeyed, Keyed
  <1>10. Knows(p)'
    BY <1>1, <1>4, <1>6 DEF Knows, Op, Name, Id, HasKey
  <1>11. ASSUME NEW q \in Procs, q # p PROVE Knows(q)'
    <2>1. pc'[q] = pc[q]
      BY <1>1, <1>11 DEF IndInv, LockInv, TypeOK
    <2>2. ASSUME pc[q] \in {"private", "overwrite", "public"} \cup HasKey
          PROVE  Id(q) \in Keys /\ Id(q) # Id(p)
      <3>1. pc[q] \in Creating /\ pc[q] # "created"
        BY <2>2 DEF Creating, KeySteps, HasKey
      <3>2. Id(q) \in Keys
        BY <3>1, NoVmYet
      <3>3. CASE pc[q] \in HasKey
        BY <1>5, <3>2, <3>3 DEF IndInv, CreateKnows, Knows
      <3>4. CASE pc[q] \in {"private", "overwrite", "public"}
        BY <1>3, <1>11, <3>2, <3>4, OneAtWork DEF KeySteps
      <3> QED
        BY <2>2, <3>2, <3>3, <3>4
    <2>3. pc[q] = "config" => pc[q] \in HasKey
      BY DEF HasKey
    <2> QED
      BY <1>1, <1>7, <2>1, <2>2, <2>3
      DEF IndInv, CreateKnows, Knows, Op, Name, Id, UserData
  <1> QED
    BY <1>2, <1>8, <1>9, <1>10, <1>11 DEF IndInv, CreateKnows

LEMMA ReadPubKeeps ==
  ASSUME IndInv, NEW p \in Procs, ReadPub(p), ~End(p)
  PROVE  IndInv'
  <1>1. /\ pc[p] = "readpub" /\ pc' = [pc EXCEPT ![p] = "imagelock"]
        /\ pub[PubPath[Id(p)]] # None
        /\ key' = [key EXCEPT ![p] = pub[PubPath[Id(p)]]]
        /\ req' = req /\ priv' = priv
        /\ pub' = pub /\ config' = config /\ seed' = seed
    BY DEF ReadPub, Goto, files, vms
  <1>2. LockInv'
    BY ReadPubLocks DEF IndInv
  <1>3. pc[p] \in Creating
    BY <1>1 DEF Creating, KeySteps
  <1>4. config[Name(p)] = None /\ Op(p) = "create"
    BY <1>1, <1>3, NoVmYet
  <1>5. pc'[p] = "imagelock" /\ key'[p] = pub[PubPath[Id(p)]]
    BY <1>1 DEF IndInv, LockInv, TypeOK
  <1>6. Knows(p)'
    BY <1>1, <1>4, <1>5 DEF Knows, Op, Name, Id
  <1>7. Untouched(p)
    BY <1>1 DEF IndInv, LockInv, TypeOK, Untouched
  <1> QED
    BY <1>2, <1>6, <1>7, QuietKeeps

LEMMA SeedKeeps ==
  ASSUME IndInv, NEW p \in Procs, CreateSeed(p)
  PROVE  IndInv'
  <1>1. /\ pc[p] = "seed" /\ pc' = [pc EXCEPT ![p] = "config"]
        /\ seed' = [seed EXCEPT ![Name(p)] = UserData(p)]
        /\ priv' = priv /\ key' = key
        /\ req' = req /\ config' = config /\ pub' = pub
    BY DEF CreateSeed, Goto, files
  <1>2. LockInv'
    BY WriteLocks DEF IndInv
  <1>3. pc[p] \in HasKey /\ pc[p] \in Creating
    BY <1>1, Labels DEF HasKey
  <1>4. /\ Name(p) \in Names /\ config[Name(p)] = None /\ Op(p) = "create"
        /\ pc[p] \in Locked /\ key[p] # None /\ pub[PubPath[Id(p)]] = key[p]
    BY <1>1, <1>3, NoVmYet DEF IndInv, CreateKnows, Knows
  <1>5. pc'[p] = "config" /\ seed'[Name(p)] = UserData(p)
    BY <1>1, <1>4 DEF IndInv, LockInv, TypeOK
  <1>6. PairsMatch' /\ VmsKeyed'
    BY <1>1, <1>4 DEF IndInv, PairsMatch, VmsKeyed, Keyed, LockInv, TypeOK
  <1>7. Knows(p)'
    BY <1>1, <1>4, <1>5 DEF Knows, Op, Name, Id, UserData
  <1>8. ASSUME NEW q \in Procs, q # p PROVE Knows(q)'
    <2>1. pc'[q] = pc[q]
      BY <1>1, <1>8 DEF IndInv, LockInv, TypeOK
    <2>2. ASSUME pc[q] = "config" PROVE seed'[Name(q)] = seed[Name(q)]
      <3>1. pc[q] \in Creating /\ pc[q] # "created"
        BY <2>2 DEF Creating, HasKey
      <3>2. Name(q) # Name(p) /\ Name(q) \in Names
        BY <1>4, <1>8, <3>1, OneAtWork, NoVmYet
      <3> QED
        BY <1>1, <3>2 DEF IndInv, LockInv, TypeOK
    <2> QED
      BY <1>1, <2>1, <2>2
      DEF IndInv, CreateKnows, Knows, Op, Name, Id, UserData
  <1> QED
    BY <1>2, <1>6, <1>7, <1>8 DEF IndInv, CreateKnows

LEMMA ConfigKeeps ==
  ASSUME IndInv, NEW p \in Procs, WriteConfig(p)
  PROVE  IndInv'
  <1>1. /\ pc[p] = "config" /\ pc' = [pc EXCEPT ![p] = "created"]
        /\ config' = [config EXCEPT ![Name(p)] = req[p].args]
        /\ priv' = priv /\ key' = key
        /\ req' = req /\ seed' = seed /\ pub' = pub
    BY DEF WriteConfig, Goto, files
  <1>2. LockInv'
    BY WriteLocks DEF IndInv
  <1>3. pc[p] \in HasKey /\ pc[p] \in Creating
    BY <1>1, Labels DEF HasKey
  <1>4. /\ Name(p) \in Names /\ pc[p] \in Locked
        /\ key[p] # None /\ pub[PubPath[Id(p)]] = key[p]
        /\ seed[Name(p)] = UserData(p)
    BY <1>1, <1>3, NoVmYet DEF IndInv, CreateKnows, Knows
  <1>5. pc'[p] = "created" /\ config'[Name(p)] = req[p].args
    BY <1>1, <1>4 DEF IndInv, LockInv, TypeOK
  <1>6. PairsMatch'
    BY <1>1 DEF IndInv, PairsMatch
  <1>7. VmsKeyed'
    <2>1. Keyed(Name(p))'
      BY <1>1, <1>4, <1>5 DEF Keyed, Name, Id, UserData
    <2>2. ASSUME NEW n \in Names, n # Name(p) PROVE Keyed(n)'
      BY <1>1, <2>2 DEF IndInv, VmsKeyed, Keyed, LockInv, TypeOK
    <2> QED
      BY <1>1, <2>1, <2>2 DEF VmsKeyed, Name
  <1>8. Knows(p)'
    BY <1>5 DEF Knows, HasKey
  <1>9. ASSUME NEW q \in Procs, q # p PROVE Knows(q)'
    <2>1. pc'[q] = pc[q]
      BY <1>1, <1>9 DEF IndInv, LockInv, TypeOK
    <2>2. ASSUME pc[q] \in Locked PROVE config'[Name(q)] = config[Name(q)]
      BY <1>1, <1>4, <1>9, <2>2, OneAtWork DEF IndInv, LockInv, TypeOK
    <2> QED
      BY <1>1, <2>1, <2>2
      DEF IndInv, CreateKnows, Knows, Op, Name, Id, UserData
  <1> QED
    BY <1>2, <1>6, <1>7, <1>8, <1>9 DEF IndInv, CreateKnows

(* delete takes the VM's lock: no process relies on it. *)
LEMMA DeleteKeeps ==
  ASSUME IndInv, NEW n \in Names, DeleteVm(n)
  PROVE  IndInv'
  <1>1. /\ lock[n] = None /\ config' = [config EXCEPT ![n] = None]
        /\ seed' = [seed EXCEPT ![n] = None]
        /\ pc' = pc /\ req' = req /\ key' = key /\ priv' = priv /\ pub' = pub
    BY DEF DeleteVm, files
  <1>2. LockInv'
    BY OtherLocks DEF IndInv
  <1>3. PairsMatch' /\ VmsKeyed'
    BY <1>1 DEF IndInv, PairsMatch, VmsKeyed, Keyed, LockInv, TypeOK
  <1>4. ASSUME NEW q \in Procs PROVE Knows(q)'
    <2>1. ASSUME pc[q] \in Locked
          PROVE  /\ config'[Name(q)] = config[Name(q)]
                 /\ seed'[Name(q)] = seed[Name(q)]
      <3>1. lock[Name(q)] = q /\ Name(q) \in Names
        BY <2>1, WorksUnderLocks, Labels, ReqTyped
        DEF IndInv, LockInv, LocksHeld, Holds, WorksUnder
      <3>2. Name(q) # n
        BY <1>1, <3>1, CreateAssumption
      <3> QED
        BY <1>1, <3>1, <3>2 DEF IndInv, LockInv, TypeOK
    <2>2. pc[q] = "config" => pc[q] \in Locked
      BY Labels DEF HasKey
    <2> QED
      BY <1>1, <2>1, <2>2
      DEF IndInv, CreateKnows, Knows, Op, Name, Id, UserData
  <1> QED
    BY <1>2, <1>3, <1>4 DEF IndInv, CreateKnows

(* stop and the owner of the host touch nothing IndInv speaks of. *)
LEMMA RestKeeps ==
  ASSUME IndInv,
         (\E n \in Names : StopVm(n)) \/ HostChanges \/ UNCHANGED vars
  PROVE  IndInv'
  <1>1. /\ pc' = pc /\ req' = req /\ key' = key /\ priv' = priv /\ pub' = pub
        /\ config' = config /\ seed' = seed
    BY DEF StopVm, HostChanges, files, vms, vars
  <1>2. LockInv'
    BY OtherLocks DEF IndInv
  <1>3. PairsMatch' /\ VmsKeyed'
    BY <1>1 DEF IndInv, PairsMatch, VmsKeyed, Keyed
  <1>4. CreateKnows'
    BY <1>1 DEF IndInv, CreateKnows, Knows, Op, Name, Id, UserData
  <1> QED
    BY <1>2, <1>3, <1>4 DEF IndInv

-----------------------------------------------------------------------------
LEMMA InitInd == Init => IndInv
  <1>1. Init => CreateKnows
    BY DEF Init, CreateKnows, Knows, Locked, Creating, KeySteps, HasKey
  <1>2. Init => PairsMatch /\ VmsKeyed
    BY CreateAssumption DEF Init, PairsMatch, VmsKeyed, Keyed
  <1> QED
    BY <1>1, <1>2, InitLocks DEF IndInv

LEMMA StepInd ==
  ASSUME Undotted, IndInv, [Next]_vars
  PROVE  IndInv'
  <1>1. ASSUME NEW p \in Procs, Step(p) PROVE IndInv'
    <2>1. CASE InvokeCreate(p) \/ InvokeStart(p) \/ LockInstance(p) \/ End(p)
      BY <2>1, InvokeEndKeep
    <2>2. CASE Choose(p)
      BY <2>2, ChooseKeeps
    <2>3. CASE \/ LockKey(p) \/ LockImage(p) \/ LockPorts(p)
               \/ EnsureImage(p) \/ ReservePorts(p)
      BY <2>3, PassKeeps
    <2>4. CASE KeygenPrivate(p)
      BY <2>4, PrivateKeeps
    <2>5. CASE KeygenPublic(p)
      BY <2>5, PublicKeeps
    <2>6. CASE ReadPub(p) /\ ~End(p)
      BY <2>6, ReadPubKeeps
    <2>7. CASE CreateSeed(p)
      BY <2>7, SeedKeeps
    <2>8. CASE WriteConfig(p)
      BY <2>8, ConfigKeeps
    <2> QED
      BY <1>1, <2>1, <2>2, <2>3, <2>4, <2>5, <2>6, <2>7, <2>8, StepCases
      DEF TakeLock
  <1> QED
    BY <1>1, DeleteKeeps, RestKeeps DEF Next

(* ensure_ssh_key and create_instance keep the inductive invariant, for keys *)
(* without a dot in their names.                                             *)
THEOREM KeyStoreInvariant ==
  ASSUME Undotted
  PROVE  Spec => []IndInv
  <1>1. IndInv /\ [Next]_vars => IndInv'
    BY StepInd
  <1> QED
    BY <1>1, InitInd, PTL DEF Spec

-----------------------------------------------------------------------------
(* The identity file in a VM's config opens the VM (ensure_ssh_key,          *)
(* create_instance).                                                         *)
THEOREM SshKeyFitsHolds ==
  ASSUME Undotted
  PROVE  Spec => []SshKeyFits
  <1>1. IndInv => SshKeyFits
    <2> SUFFICES ASSUME IndInv, NEW n \in Names, config[n] # None,
                        "users" \notin DOMAIN config[n].override.at
                 PROVE  Authorized(seed[n]) = {priv[config[n].key]}
      BY DEF SshKeyFits
    <2>1. config[n].key \in Keys
      BY ArgsKeyed DEF IndInv, LockInv, TypeOK
    <2>2. pub[PubPath[config[n].key]] = priv[config[n].key]
      BY <2>1 DEF IndInv, VmsKeyed, Keyed, PairsMatch
    <2>3. seed[n] = MergeYaml(DefaultUserData(priv[config[n].key]),
                              config[n].override)
      BY <2>2 DEF IndInv, VmsKeyed, Keyed
    <2> QED
      BY <2>3, KeySurvivesMerge
  <1> QED
    BY <1>1, KeyStoreInvariant, PTL

(* No create replaces an identity file that a VM uses (ensure_ssh_key).      *)
THEOREM KeyStaysHolds ==
  ASSUME Undotted
  PROVE  Spec => KeyStays
  <1>1. IndInv /\ [Next]_vars =>
          [\A n \in Names :
             config[n] # None => priv'[config[n].key] = priv[config[n].key]]_vars
    <2> SUFFICES ASSUME IndInv, [Next]_vars, NEW n \in Names, config[n] # None
                 PROVE  priv'[config[n].key] = priv[config[n].key]
      OBVIOUS
    <2>1. config[n].key \in Keys /\ pub[PubPath[config[n].key]] # None
      BY ArgsKeyed DEF IndInv, LockInv, TypeOK, VmsKeyed, Keyed
    <2>2. CASE \E p \in Procs : KeygenPrivate(p)
      <3>1. PICK p \in Procs : KeygenPrivate(p)
        BY <2>2
      <3>2. priv' = [priv EXCEPT ![Id(p)] = made'] /\ pc[p] = "private"
        BY <3>1 DEF KeygenPrivate
      <3>3. pub[PubPath[Id(p)]] = None
        BY <3>2 DEF IndInv, CreateKnows, Knows
      <3> QED
        BY <2>1, <3>2, <3>3 DEF IndInv, LockInv, TypeOK
    <2>3. CASE ~\E p \in Procs : KeygenPrivate(p)
      <3>1. \A p \in Procs : Step(p) => priv' = priv
        BY <2>3, StepCases
        DEF InvokeCreate, InvokeStart, TakeLock, LockInstance, LockKey,
            LockImage, LockPorts, Choose, CheckStatus, OfferBrew, AnswerYes,
            BrewInstalls, DepsFound, HasKeyPair, RunKeygen, AnswerOverwrite,
            Launch, KeygenPublic, ReadPub, EnsureImage, ReservePorts,
            CreateSeed, WriteConfig, End, files
      <3> QED
        BY <3>1 DEF Next, StopVm, DeleteVm, HostChanges, files, vars
    <2> QED
      BY <2>2, <2>3
  <1> QED
    BY <1>1, KeyStoreInvariant, PTL DEF Spec, KeyStays

(* A seed has every setting of the user's file, and every default that the   *)
(* file does not touch (render_cloud_init, merge_yaml).                      *)
THEOREM SeedLayeredHolds ==
  ASSUME Undotted, \A a \in Args : IsDocument(a.override)
  PROVE  Spec => []SeedLayered
  <1>1. IndInv => SeedLayered
    <2> SUFFICES ASSUME IndInv, NEW n \in Names, config[n] # None
                 PROVE  Layered(seed[n],
                                DefaultUserData(pub[PubPath[config[n].key]]),
                                config[n].override)
      BY DEF SeedLayered
    <2>1. config[n] \in Args
      BY DEF IndInv, LockInv, TypeOK
    <2>2. seed[n] = MergeYaml(DefaultUserData(pub[PubPath[config[n].key]]),
                              config[n].override)
      BY DEF IndInv, VmsKeyed, Keyed
    <2> QED
      BY <2>1, <2>2, MergeLayers, DefaultsAreDocument
  <1> QED
    BY <1>1, KeyStoreInvariant, PTL
=============================================================================
