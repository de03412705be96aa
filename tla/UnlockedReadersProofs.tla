----------------------- MODULE UnlockedReadersProofs -----------------------
(***************************************************************************)
(* Proofs about UnlockedReaders for every number of readers, VMs and       *)
(* ports, on top of those about PortReservation.                           *)
(***************************************************************************)
EXTENDS UnlockedReaders, PortReservationProofs

(* In the beginning nobody has asked anything. *)
LEMMA ReadersInitInd == ReadersInit => ReadersInv
BY InitInd, PortAssumption DEF ReadersInit, ReadersInv, ReadersTypeOK, NoRows,
  RunningListens, Reading, StepOfTask, Held, HeldOf, ListRight, AnswerRight,
  HasVm, Init

(* A VM whose QEMU is up listens on the SSH port in its config. *)
LEMMA RunningPreserved ==
  ASSUME TypeOK, ConfigsOfPlaces, RunningListens, Next
  PROVE  RunningListens'
<1> USE PortAssumption DEF TypeOK, ConfigsOfPlaces, RunningListens, Created,
  Qemu, At, Goto
<1>1. ASSUME NEW n \in Names, Boot(n) PROVE RunningListens'
  <2>1. cfg[n] \in Configs
    BY <1>1 DEF Boot
  <2>2. cfg[n].ssh \in PortsOf(cfg[n]) \ {0}
    BY <2>1 DEF Configs, PortsOf
  <2>3. cfg[n].ssh \in listening[n]
    BY <1>1, <2>2 DEF Boot
  <2>4. \A m \in Names : pc'[m] = "running" => m = n \/ pc[m] = "running"
    BY <1>1 DEF Boot
  <2>5. cfg' = cfg /\ listening' = listening
    BY <1>1 DEF Boot
  <2> QED BY <2>3, <2>4, <2>5
<1>2. ASSUME NEW n \in Names, DropReservation(n) PROVE RunningListens'
  BY <1>2 DEF DropReservation
<1>3. ASSUME NEW n \in Names,
             \/ Create(n) \/ LockPorts(n) \/ ScanOne(n) \/ ScanDone(n)
             \/ EnsureDir(n)
      PROVE  RunningListens'
  BY <1>3 DEF Create, LockPorts, ScanOne, ScanDone, EnsureDir
<1>4. ASSUME NEW n \in Names, BindForward(n) PROVE RunningListens'
  BY <1>4 DEF BindForward
<1>5. ASSUME NEW n \in Names, BindSsh(n) PROVE RunningListens'
  BY <1>5 DEF BindSsh
<1>6. ASSUME NEW n \in Names,
             \/ ForwardUnavailable(n) \/ NoPortLeft(n) \/ CreateFails(n)
      PROVE  RunningListens'
  BY <1>6 DEF ForwardUnavailable, NoPortLeft, CreateFails, Abandon
<1>7. ASSUME NEW n \in Names, ValidateForwards(n) PROVE RunningListens'
  BY <1>7 DEF ValidateForwards, Abandon
<1>8. ASSUME NEW n \in Names, WriteConfig(n) PROVE RunningListens'
  BY <1>8 DEF WriteConfig
<1>9. ASSUME NEW n \in Names, Start(n) \/ WritePid(n) PROVE RunningListens'
  BY <1>9 DEF Start, WritePid
<1>10. ASSUME NEW n \in Names, BindHostfwd(n) PROVE RunningListens'
  BY <1>10 DEF BindHostfwd
<1>11. ASSUME NEW n \in Names, Close(n) PROVE RunningListens'
  BY <1>11 DEF Close
<1>12. ASSUME NEW n \in Names, Stop(n) PROVE RunningListens'
  BY <1>12 DEF Stop
<1>13. ASSUME NEW n \in Names, Delete(n) PROVE RunningListens'
  BY <1>13 DEF Delete
<1> QED BY <1>1, <1>2, <1>3, <1>4, <1>5, <1>6, <1>7, <1>8, <1>9, <1>10,
  <1>11, <1>12, <1>13 DEF Next, CreateStep

-----------------------------------------------------------------------------
(* A step of a locked operation leaves to a reader what it knows of the VMs  *)
(* that the step does not change.                                            *)
LEMMA VmStepKeeps ==
  ASSUME ReadersTypeOK, VmStep, NEW r \in Readers, Reading(r)
  PROVE  Reading(r)'
<1> USE DEF VmStep, reader, memory
<1>1. \A n \in Names \ Changed :
        cfg'[n] = cfg[n] /\ Status(n)' = Status(n) /\ RowOf(n)' = RowOf(n)
  BY DEF Changed, RowOf
<1>2. step[r] # "idle" =>
        Names \ touched'[r] \subseteq Names \ (touched[r] \cup Changed)
  OBVIOUS
<1>3. StepOfTask(r)'
  BY DEF Reading, StepOfTask
<1>4. Held(r)'
  <2> SUFFICES ASSUME step[r] # "idle"
               PROVE  Held(r)'
    BY DEF Reading, StepOfTask, Held, HeldOf
  <2> QED BY <1>1, <1>2 DEF Reading, Held, HeldOf
<1>5. ListRight(r)'
  BY <1>1, <1>2 DEF Reading, ListRight
<1>6. AnswerRight(r)'
  BY <1>1, <1>2 DEF Reading, AnswerRight
<1> QED BY <1>3, <1>4, <1>5, <1>6 DEF Reading

LEMMA VmStepTypes == ReadersTypeOK /\ VmStep => ReadersTypeOK'
<1> SUFFICES ASSUME ReadersTypeOK, VmStep
             PROVE  ReadersTypeOK'
  OBVIOUS
<1>1. Changed \subseteq Names
  BY DEF Changed
<1>2. touched' \in [Readers -> SUBSET Names]
  BY <1>1 DEF ReadersTypeOK, VmStep
<1> QED BY <1>2 DEF ReadersTypeOK, VmStep, reader, memory

-----------------------------------------------------------------------------
(* What the steps that choose or branch do to the reader that takes them.    *)
LEMMA SkipRowEffect ==
  ASSUME ReadersTypeOK, NEW r \in Readers, SkipRow(r)
  PROVE  \E n \in left[r] :
           /\ cfg[n] = None /\ step[r] = "next"
           /\ left' = [left EXCEPT ![r] = left[r] \ {n}]
           /\ left'[r] = left[r] \ {n}
           /\ UNCHANGED <<step, task, vm, config, rows, reached, result,
                         touched, vars>>
BY DEF SkipRow, ReadersTypeOK

LEMMA SeeRowEffect ==
  ASSUME ReadersTypeOK, NEW r \in Readers, SeeRow(r)
  PROVE  \E n \in left[r] :
           /\ cfg[n] # None /\ step[r] = "next" /\ n \in Names
           /\ left' = [left EXCEPT ![r] = left[r] \ {n}]
           /\ vm' = [vm EXCEPT ![r] = n]
           /\ left'[r] = left[r] \ {n} /\ vm'[r] = n /\ step'[r] = "read"
           /\ UNCHANGED <<task, config, rows, reached, result, touched, vars>>
BY DEF SeeRow, ReadersTypeOK, StepTo

LEMMA SeeConfigEffect ==
  ASSUME ReadersTypeOK, NEW r \in Readers, SeeConfig(r)
  PROVE  /\ step[r] = "look"
         /\ \/ /\ cfg[vm[r]] = None
               /\ step'[r] = "done" /\ result'[r] = "absent"
            \/ /\ cfg[vm[r]] # None
               /\ step'[r] = "read" /\ result'[r] = result[r]
         /\ UNCHANGED <<task, left, vm, config, rows, reached, touched, vars>>
BY DEF SeeConfig, ReadersTypeOK, StepTo, Finish

LEMMA ReadConfigEffect ==
  ASSUME ReadersTypeOK, NEW r \in Readers, ReadConfig(r)
  PROVE  /\ step[r] = "read"
         /\ \/ /\ cfg[vm[r]] = None /\ config'[r] = config[r]
               /\ step'[r] = "done" /\ result'[r] = "vanished"
            \/ /\ cfg[vm[r]] # None /\ config'[r] = cfg[vm[r]]
               /\ step'[r] = "status" /\ result'[r] = result[r]
         /\ UNCHANGED <<task, left, vm, rows, reached, touched, vars>>
BY DEF ReadConfig, ReadersTypeOK, StepTo, Finish

LEMMA StatusFailsEffect ==
  ASSUME ReadersTypeOK, NEW r \in Readers, StatusFails(r)
  PROVE  /\ step[r] \in {"status", "report"}
         /\ Status(vm[r]) = "unreadable"
         /\ step'[r] = "done" /\ result'[r] = "unreadable"
         /\ UNCHANGED <<task, left, vm, config, rows, reached, touched, vars>>
BY DEF StatusFails, ReadersTypeOK, StepTo, Finish

LEMMA ReadStatusEffect ==
  ASSUME ReadersTypeOK, NEW r \in Readers, StepOfTask(r), ReadStatus(r)
  PROVE  /\ step[r] \in {"status", "report"}
         /\ Status(vm[r]) # "unreadable"
         /\ rows'[r][vm[r]] = [ssh |-> config[r].ssh, status |-> Status(vm[r])]
         /\ \A n \in Names \ {vm[r]} : rows'[r][n] = rows[r][n]
         /\ \/ task[r] = "list" /\ step'[r] = "next" /\ result'[r] = result[r]
            \/ task[r] # "list" /\ step'[r] = "done" /\ result'[r] = "ok"
         /\ UNCHANGED <<task, left, vm, config, reached, touched, vars>>
<1>1. vm[r] \in Names
  BY DEF ReadStatus, StepOfTask, HasVm
<1> QED BY ZenonT(30), <1>1 DEF ReadStatus, PutRow, ReadersTypeOK, StepTo, Finish

LEMMA ConnectEffect ==
  ASSUME ReadersTypeOK, NEW r \in Readers, Connect(r)
  PROVE  /\ step[r] = "connect"
         /\ \E n \in Names :
              /\ pc[n] = "running" /\ config[r].ssh \in listening[n]
              /\ reached' = [reached EXCEPT ![r] = n] /\ reached'[r] = n
         /\ \/ /\ task[r] = "exec"
               /\ step' = [step EXCEPT ![r] = "done"]
               /\ result' = [result EXCEPT ![r] = "ok"]
               /\ step'[r] = "done" /\ result'[r] = "ok"
            \/ /\ task[r] # "exec"
               /\ step' = [step EXCEPT ![r] = "report"]
               /\ step'[r] = "report" /\ result' = result
         /\ UNCHANGED <<task, left, vm, config, rows, touched, vars>>
BY DEF Connect, ReadersTypeOK, StepTo, Finish

-----------------------------------------------------------------------------
(* A reader's step keeps the types ... *)
LEMMA ReaderTypes ==
  ASSUME TypeOK, ReadersTypeOK, NEW r \in Readers, StepOfTask(r),
         AskList(r) \/ Ask(r) \/ ReaderStep(r) \/ Forget(r)
  PROVE  ReadersTypeOK'
<1> USE PortAssumption DEF TypeOK, ReadersTypeOK, StepOfTask, HasVm, NoRows,
  memory, vars, StepTo
<1>1. CASE AskList(r)
  BY <1>1 DEF AskList
<1>2. CASE Ask(r)
  <2>1. PICK t \in {"info", "exec", "wait"}, n \in Names :
          task' = [task EXCEPT ![r] = t] /\ vm' = [vm EXCEPT ![r] = n]
    BY <1>2 DEF Ask
  <2> QED BY <1>2, <2>1 DEF Ask
<1>3. CASE ListNames(r)
  BY <1>3 DEF ListNames
<1>4. CASE SkipRow(r)
  <2>1. PICK n \in left[r] :
          /\ left' = [left EXCEPT ![r] = left[r] \ {n}]
    BY <1>4, SkipRowEffect
  <2>2. left[r] \ {n} \in SUBSET Names /\ n \in Names
    OBVIOUS
  <2> QED BY <1>4, <2>1, <2>2 DEF SkipRow
<1>5. CASE SeeRow(r)
  <2>1. PICK n \in left[r] :
          /\ left' = [left EXCEPT ![r] = left[r] \ {n}]
          /\ vm' = [vm EXCEPT ![r] = n]
    BY <1>5, SeeRowEffect
  <2>2. left[r] \ {n} \in SUBSET Names /\ n \in Names
    OBVIOUS
  <2> QED BY <1>5, <2>1, <2>2 DEF SeeRow
<1>6. CASE ListDone(r)
  BY <1>6 DEF ListDone, Finish
<1>7. CASE SeeConfig(r)
  BY ZenonT(30), <1>7 DEF SeeConfig, Finish
<1>8. CASE ReadConfig(r)
  BY ZenonT(30), <1>8 DEF ReadConfig, Finish
<1>9. CASE ReadStatus(r)
  <2>1. config[r] \in Configs /\ vm[r] \in Names
    BY <1>9 DEF ReadStatus
  <2>2. Status(vm[r]) \in {"missing", "stopped", "running"}
    <3>1. Status(vm[r]) # "unreadable"
      BY <1>9 DEF ReadStatus
    <3> HIDE DEF TypeOK, ReadersTypeOK, StepOfTask
    <3> QED BY <3>1 DEF Status
  <2>3. [ssh |-> config[r].ssh, status |-> Status(vm[r])] \in Rows
    BY <2>1, <2>2 DEF Configs, Rows
  <2>4. rows' \in [Readers -> [Names -> Rows \cup {None}]]
    BY <1>9, <2>3 DEF ReadStatus, PutRow
  <2> QED BY <1>9, <2>4 DEF ReadStatus, Finish
<1>10. CASE CheckRunning(r)
  BY ZenonT(30), <1>10 DEF CheckRunning, Finish
<1>11. CASE Connect(r)
  <2>1. PICK n \in Names : reached' = [reached EXCEPT ![r] = n]
    BY <1>11, ConnectEffect
  <2>2. \/ step' = [step EXCEPT ![r] = "done"]
        \/ step' = [step EXCEPT ![r] = "report"]
    BY <1>11, ConnectEffect
  <2> QED BY ZenonT(30), <1>11, <2>1, <2>2 DEF Connect, Finish
<1>12. CASE NoAnswer(r)
  BY <1>12 DEF NoAnswer, Finish
<1>13. CASE Forget(r)
  BY <1>13 DEF Forget
<1>14. CASE StatusFails(r)
  BY <1>14 DEF StatusFails, Finish
<1> QED BY <1>1, <1>2, <1>3, <1>4, <1>5, <1>6, <1>7, <1>8, <1>9, <1>10, <1>11,
  <1>12, <1>13, <1>14 DEF ReaderStep

(* ... and the memory of the other readers. *)
LEMMA OthersKept ==
  ASSUME ReadersTypeOK, NEW r \in Readers, NEW q \in Readers \ {r},
         Reading(q),
         AskList(r) \/ Ask(r) \/ ReaderStep(r) \/ Forget(r)
  PROVE  Reading(q)'
<1>1. /\ UNCHANGED <<step[q], task[q], left[q], vm[q], config[q], rows[q],
                    reached[q], result[q], touched[q]>>
      /\ UNCHANGED vars
  <2>1. CASE AskList(r)
    BY <2>1 DEF AskList, ReadersTypeOK, StepTo, memory, vars
  <2>2. CASE Ask(r)
    BY <2>2 DEF Ask, ReadersTypeOK, StepTo, memory, vars
  <2>3. CASE ListNames(r)
    BY <2>3 DEF ListNames, ReadersTypeOK, StepTo, memory, vars
  <2>4. CASE SkipRow(r)
    BY <2>4 DEF SkipRow, ReadersTypeOK, StepTo, memory, vars
  <2>5. CASE SeeRow(r)
    BY <2>5 DEF SeeRow, ReadersTypeOK, StepTo, memory, vars
  <2>6. CASE ListDone(r)
    BY <2>6 DEF ListDone, Finish, ReadersTypeOK, StepTo, memory, vars
  <2>7. CASE SeeConfig(r)
    BY <2>7 DEF SeeConfig, Finish, ReadersTypeOK, StepTo, memory, vars
  <2>8. CASE ReadConfig(r)
    BY <2>8 DEF ReadConfig, Finish, ReadersTypeOK, StepTo, memory, vars
  <2>9. CASE ReadStatus(r)
    BY <2>9 DEF ReadStatus, Finish, PutRow, ReadersTypeOK, StepTo, memory, vars
  <2>10. CASE CheckRunning(r)
    BY <2>10 DEF CheckRunning, Finish, ReadersTypeOK, StepTo, memory, vars
  <2>11. CASE Connect(r)
    BY <2>11 DEF Connect, Finish, ReadersTypeOK, StepTo, memory, vars
  <2>12. CASE NoAnswer(r)
    BY <2>12 DEF NoAnswer, Finish, ReadersTypeOK, StepTo, memory, vars
  <2>13. CASE Forget(r)
    BY <2>13 DEF Forget, ReadersTypeOK, StepTo, memory, vars
  <2>14. CASE StatusFails(r)
    BY <2>14 DEF StatusFails, Finish, ReadersTypeOK, StepTo, memory, vars
  <2> QED BY <2>1, <2>2, <2>3, <2>4, <2>5, <2>6, <2>7, <2>8, <2>9, <2>10,
    <2>11, <2>12, <2>13, <2>14 DEF ReaderStep
<1>2. \A n \in Names : RowOf(n)' = RowOf(n) /\ Status(n)' = Status(n)
  BY <1>1 DEF vars, RowOf, Status
<1>3. StepOfTask(q)'
  BY <1>1 DEF Reading, StepOfTask
<1>4. Held(q)'
  BY <1>1, <1>2 DEF vars, Reading, Held, HeldOf
<1>5. ListRight(q)' /\ AnswerRight(q)'
  BY <1>1, <1>2 DEF vars, Reading, ListRight, AnswerRight
<1> QED BY <1>3, <1>4, <1>5 DEF Reading

(* Each step belongs to a task. *)
LEMMA StepOfTaskKept ==
  ASSUME ReadersTypeOK, NEW r \in Readers, StepOfTask(r),
         AskList(r) \/ Ask(r) \/ ReaderStep(r) \/ Forget(r)
  PROVE  StepOfTask(r)'
<1> USE PortAssumption DEF StepOfTask, HasVm
<1>1. CASE AskList(r)
  BY <1>1 DEF AskList, ReadersTypeOK, NoRows, memory, vars, StepTo
<1>2. CASE Ask(r)
  BY <1>2 DEF Ask, ReadersTypeOK, NoRows, memory, vars, StepTo
<1>3. CASE ListNames(r)
  BY <1>3 DEF ListNames, ReadersTypeOK, NoRows, memory, vars, StepTo
<1>4. CASE SkipRow(r)
  <2> QED BY <1>4, SkipRowEffect DEF vars
<1>5. CASE SeeRow(r)
  <2> QED BY <1>5, SeeRowEffect DEF vars
<1>6. CASE ListDone(r)
  BY <1>6 DEF ListDone, Finish, ReadersTypeOK, NoRows, memory, vars, StepTo
<1>7. CASE SeeConfig(r)
  <2> QED BY <1>7, SeeConfigEffect DEF vars
<1>8. CASE ReadConfig(r)
  <2> QED BY <1>8, ReadConfigEffect DEF vars
<1>9. CASE ReadStatus(r)
  <2> QED BY <1>9, ReadStatusEffect DEF vars
<1>10. CASE CheckRunning(r)
  BY ZenonT(30), <1>10 DEF CheckRunning, Finish, ReadersTypeOK, NoRows, memory, vars,
    StepTo
<1>11. CASE Connect(r)
  <2> QED BY <1>11, ConnectEffect DEF vars
<1>12. CASE NoAnswer(r)
  BY <1>12 DEF NoAnswer, Finish, ReadersTypeOK, NoRows, memory, vars, StepTo
<1>13. CASE Forget(r)
  BY <1>13 DEF Forget, ReadersTypeOK, NoRows, memory, vars, StepTo
<1>14. CASE StatusFails(r)
  <2> QED BY <1>14, StatusFailsEffect DEF vars
<1> QED BY <1>1, <1>2, <1>3, <1>4, <1>5, <1>6, <1>7, <1>8, <1>9, <1>10, <1>11,
  <1>12, <1>13, <1>14 DEF ReaderStep

(* What a reader has read of an unchanged VM is right. *)
LEMMA HeldKept ==
  ASSUME ReadersTypeOK, NEW r \in Readers, StepOfTask(r), Held(r),
         \A n \in Names : cfg[n] # None => n \in dirs,
         AskList(r) \/ Ask(r) \/ ReaderStep(r) \/ Forget(r)
  PROVE  Held(r)'
<1> USE PortAssumption DEF StepOfTask, HasVm
<1>1. CASE AskList(r)
  BY <1>1 DEF AskList, ReadersTypeOK, NoRows, memory, vars, StepTo, RowOf,
    Status, Held, HeldOf
<1>2. CASE Ask(r)
  BY <1>2 DEF Ask, ReadersTypeOK, NoRows, memory, vars, StepTo, RowOf, Status,
    Held, HeldOf
<1>3. CASE ListNames(r)
  <2>1. /\ step[r] = "names" /\ step'[r] = "next" /\ left'[r] = dirs
        /\ UNCHANGED <<task, vm, config, rows, touched, vars>>
    BY <1>3 DEF ListNames, ReadersTypeOK, StepTo
  <2>2. \A n \in Names : RowOf(n)' = RowOf(n) /\ Status(n)' = Status(n)
    BY <2>1 DEF vars, RowOf, Status
  <2>3. \A n \in Names : rows[r][n] = None /\ (n \notin dirs => RowOf(n) = None)
    BY <2>1 DEF RowOf, NoRows
  <2> QED BY <2>1, <2>2, <2>3 DEF vars, Held, HeldOf
<1>4. CASE SkipRow(r)
  <2>1. PICK n \in left[r] :
          /\ cfg[n] = None /\ step[r] = "next" /\ step'[r] = "next"
          /\ left'[r] = left[r] \ {n}
          /\ UNCHANGED <<task, vm, config, rows, touched, vars>>
    BY <1>4, SkipRowEffect
  <2>2. \A m \in Names : RowOf(m)' = RowOf(m)
    BY <2>1 DEF vars, RowOf, Status
  <2>3. RowOf(n) = None
    BY <2>1 DEF RowOf
  <2> QED BY <2>1, <2>2, <2>3 DEF vars, Held, HeldOf
<1>5. CASE SeeRow(r)
  <2>1. UNCHANGED vars
    BY <1>5, SeeRowEffect
  <2>2. \A n \in Names : RowOf(n)' = RowOf(n) /\ Status(n)' = Status(n)
    BY <2>1 DEF vars, RowOf, Status
  <2> QED BY <1>5, <2>1, <2>2, SeeRowEffect DEF vars, Held, HeldOf
<1>6. CASE ListDone(r)
  <2>1. /\ step'[r] = "done"
        /\ UNCHANGED <<task, vm, config, rows, touched, vars>>
    BY <1>6 DEF ListDone, Finish, ReadersTypeOK, StepTo
  <2>2. \A n \in Names : RowOf(n)' = RowOf(n) /\ Status(n)' = Status(n)
    BY <2>1 DEF vars, RowOf, Status
  <2> QED BY <2>1, <2>2 DEF vars, Held, HeldOf
<1>7. CASE SeeConfig(r)
  <2>1. UNCHANGED vars
    BY <1>7, SeeConfigEffect
  <2>2. \A n \in Names : RowOf(n)' = RowOf(n) /\ Status(n)' = Status(n)
    BY <2>1 DEF vars, RowOf, Status
  <2> QED BY <1>7, <2>1, <2>2, SeeConfigEffect DEF vars, Held, HeldOf
<1>8. CASE ReadConfig(r)
  <2>1. UNCHANGED vars
    BY <1>8, ReadConfigEffect
  <2>2. \A n \in Names : RowOf(n)' = RowOf(n) /\ Status(n)' = Status(n)
    BY <2>1 DEF vars, RowOf, Status
  <2> QED BY <1>8, <2>1, <2>2, ReadConfigEffect DEF vars, Held, HeldOf
<1>9. CASE ReadStatus(r)
  <2>1. /\ rows'[r][vm[r]] = [ssh |-> config[r].ssh, status |-> Status(vm[r])]
        /\ \A n \in Names \ {vm[r]} : rows'[r][n] = rows[r][n]
        /\ step[r] \in {"status", "report"} /\ vm[r] \in Names
        /\ UNCHANGED <<task, left, vm, config, touched, vars>>
        /\ \/ task[r] = "list" /\ step'[r] = "next"
           \/ task[r] # "list" /\ step'[r] = "done" /\ result'[r] = "ok"
    BY <1>9, ReadStatusEffect
  <2>2. \A n \in Names : RowOf(n)' = RowOf(n) /\ Status(n)' = Status(n)
    BY <2>1 DEF vars, RowOf, Status
  <2>3. vm[r] \notin touched[r] => rows'[r][vm[r]] = RowOf(vm[r])
    BY <2>1 DEF Held, HeldOf, RowOf
  <2> QED BY <2>1, <2>2, <2>3 DEF vars, Held, HeldOf
<1>10. CASE CheckRunning(r)
  <2>1. /\ step[r] = "status" /\ task[r] \in {"exec", "wait"}
        /\ \/ Status(vm[r]) = "running" /\ step'[r] = "connect"
           \/ step'[r] = "done"
        /\ UNCHANGED <<task, vm, config, rows, touched, vars>>
    BY <1>10 DEF CheckRunning, Finish, ReadersTypeOK, StepTo
  <2>2. \A n \in Names : RowOf(n)' = RowOf(n) /\ Status(n)' = Status(n)
    BY <2>1 DEF vars, RowOf, Status
  <2> QED BY <2>1, <2>2 DEF vars, Held, HeldOf
<1>11. CASE Connect(r)
  <2>1. UNCHANGED vars
    BY <1>11, ConnectEffect
  <2>2. \A n \in Names : RowOf(n)' = RowOf(n) /\ Status(n)' = Status(n)
    BY <2>1 DEF vars, RowOf, Status
  <2> QED BY <1>11, <2>1, <2>2, ConnectEffect DEF vars, Held, HeldOf
<1>12. CASE NoAnswer(r)
  BY <1>12 DEF NoAnswer, Finish, ReadersTypeOK, NoRows, memory, vars, StepTo,
    RowOf, Status, Held, HeldOf
<1>13. CASE Forget(r)
  BY <1>13 DEF Forget, ReadersTypeOK, NoRows, memory, vars, StepTo, RowOf,
    Status, Held, HeldOf
<1>14. CASE StatusFails(r)
  <2>1. UNCHANGED vars
    BY <1>14, StatusFailsEffect
  <2>2. \A n \in Names : RowOf(n)' = RowOf(n) /\ Status(n)' = Status(n)
    BY <2>1 DEF vars, RowOf, Status
  <2> QED BY <1>14, <2>1, <2>2, StatusFailsEffect DEF vars, Held, HeldOf
<1> QED BY <1>1, <1>2, <1>3, <1>4, <1>5, <1>6, <1>7, <1>8, <1>9, <1>10, <1>11,
  <1>12, <1>13, <1>14 DEF ReaderStep

(* The list is complete when every name has been looked at. *)
LEMMA ListRightKept ==
  ASSUME ReadersTypeOK, NEW r \in Readers, StepOfTask(r), Held(r), ListRight(r),
         AskList(r) \/ Ask(r) \/ ReaderStep(r) \/ Forget(r)
  PROVE  ListRight(r)'
<1> USE PortAssumption DEF StepOfTask, HasVm
<1>1. CASE AskList(r)
  BY <1>1 DEF AskList, ReadersTypeOK, NoRows, memory, vars, StepTo, RowOf,
    Status, Held, HeldOf, ListRight
<1>2. CASE Ask(r)
  BY <1>2 DEF Ask, ReadersTypeOK, NoRows, memory, vars, StepTo, RowOf, Status,
    Held, HeldOf, ListRight
<1>3. CASE ListNames(r)
  BY <1>3 DEF ListNames, ReadersTypeOK, NoRows, memory, vars, StepTo, RowOf,
    Status, Held, HeldOf, ListRight
<1>4. CASE SkipRow(r)
  BY <1>4 DEF SkipRow, ReadersTypeOK, NoRows, memory, vars, StepTo, RowOf,
    Status, Held, HeldOf, ListRight
<1>5. CASE SeeRow(r)
  BY <1>5 DEF SeeRow, ReadersTypeOK, NoRows, memory, vars, StepTo, RowOf,
    Status, Held, HeldOf, ListRight
<1>6. CASE ListDone(r)
  BY <1>6 DEF ListDone, Finish, ReadersTypeOK, NoRows, memory, vars, StepTo,
    RowOf, Status, Held, HeldOf, ListRight
<1>7. CASE SeeConfig(r)
  BY <1>7 DEF SeeConfig, Finish, ReadersTypeOK, NoRows, memory, vars, StepTo,
    RowOf, Status, Held, HeldOf, ListRight
<1>8. CASE ReadConfig(r)
  BY <1>8 DEF ReadConfig, Finish, ReadersTypeOK, NoRows, memory, vars, StepTo,
    RowOf, Status, Held, HeldOf, ListRight
<1>9. CASE ReadStatus(r)
  BY <1>9 DEF ReadStatus, Finish, PutRow, ReadersTypeOK, NoRows, memory, vars,
    StepTo, RowOf, Status, Held, HeldOf, ListRight
<1>10. CASE CheckRunning(r)
  BY <1>10 DEF CheckRunning, Finish, ReadersTypeOK, NoRows, memory, vars,
    StepTo, RowOf, Status, Held, HeldOf, ListRight
<1>11. CASE Connect(r)
  BY <1>11 DEF Connect, Finish, ReadersTypeOK, NoRows, memory, vars, StepTo,
    RowOf, Status, Held, HeldOf, ListRight
<1>12. CASE NoAnswer(r)
  BY <1>12 DEF NoAnswer, Finish, ReadersTypeOK, NoRows, memory, vars, StepTo,
    RowOf, Status, Held, HeldOf, ListRight
<1>13. CASE Forget(r)
  BY <1>13 DEF Forget, ReadersTypeOK, NoRows, memory, vars, StepTo, RowOf,
    Status, Held, HeldOf, ListRight
<1>14. CASE StatusFails(r)
  BY <1>14, StatusFailsEffect DEF ListRight
<1> QED BY <1>1, <1>2, <1>3, <1>4, <1>5, <1>6, <1>7, <1>8, <1>9, <1>10, <1>11,
  <1>12, <1>13, <1>14 DEF ReaderStep

(* Answers about an unchanged VM are right. *)
LEMMA AnswerRightKept ==
  ASSUME ReadersTypeOK, NEW r \in Readers, StepOfTask(r), Held(r), AnswerRight(r),
         AskList(r) \/ Ask(r) \/ ReaderStep(r) \/ Forget(r)
  PROVE  AnswerRight(r)'
<1> USE PortAssumption DEF StepOfTask, HasVm
<1>1. CASE AskList(r)
  BY <1>1 DEF AskList, ReadersTypeOK, NoRows, memory, vars, StepTo, RowOf,
    Status, Held, HeldOf, AnswerRight
<1>2. CASE Ask(r)
  BY <1>2 DEF Ask, ReadersTypeOK, NoRows, memory, vars, StepTo, RowOf, Status,
    Held, HeldOf, AnswerRight
<1>3. CASE ListNames(r)
  BY <1>3 DEF ListNames, ReadersTypeOK, NoRows, memory, vars, StepTo, RowOf,
    Status, Held, HeldOf, AnswerRight
<1>4. CASE SkipRow(r)
  <2>1. UNCHANGED vars
    BY <1>4, SkipRowEffect
  <2>2. \A n \in Names : RowOf(n)' = RowOf(n) /\ Status(n)' = Status(n)
    BY <2>1 DEF vars, RowOf, Status
  <2> QED BY <1>4, <2>1, <2>2, SkipRowEffect DEF vars, Held, HeldOf,
    AnswerRight, RowOf
<1>5. CASE SeeRow(r)
  <2>1. UNCHANGED vars
    BY <1>5, SeeRowEffect
  <2>2. \A n \in Names : RowOf(n)' = RowOf(n) /\ Status(n)' = Status(n)
    BY <2>1 DEF vars, RowOf, Status
  <2> QED BY <1>5, <2>1, <2>2, SeeRowEffect DEF vars, Held, HeldOf, AnswerRight
<1>6. CASE ListDone(r)
  BY <1>6 DEF ListDone, Finish, ReadersTypeOK, NoRows, memory, vars, StepTo,
    RowOf, Status, Held, HeldOf, AnswerRight
<1>7. CASE SeeConfig(r)
  <2>1. UNCHANGED vars
    BY <1>7, SeeConfigEffect
  <2>2. \A n \in Names : RowOf(n)' = RowOf(n) /\ Status(n)' = Status(n)
    BY <2>1 DEF vars, RowOf, Status
  <2> QED BY <1>7, <2>1, <2>2, SeeConfigEffect DEF vars, Held, HeldOf,
    AnswerRight
<1>8. CASE ReadConfig(r)
  <2>1. UNCHANGED vars
    BY <1>8, ReadConfigEffect
  <2>2. \A n \in Names : RowOf(n)' = RowOf(n) /\ Status(n)' = Status(n)
    BY <2>1 DEF vars, RowOf, Status
  <2> QED BY <1>8, <2>1, <2>2, ReadConfigEffect DEF vars, Held, HeldOf,
    AnswerRight
<1>9. CASE ReadStatus(r)
  <2>1. /\ rows'[r][vm[r]] = [ssh |-> config[r].ssh, status |-> Status(vm[r])]
        /\ \A n \in Names \ {vm[r]} : rows'[r][n] = rows[r][n]
        /\ step[r] \in {"status", "report"} /\ vm[r] \in Names
        /\ UNCHANGED <<task, left, vm, config, touched, vars>>
        /\ \/ task[r] = "list" /\ step'[r] = "next"
           \/ task[r] # "list" /\ step'[r] = "done" /\ result'[r] = "ok"
    BY <1>9, ReadStatusEffect
  <2>2. \A n \in Names : RowOf(n)' = RowOf(n) /\ Status(n)' = Status(n)
    BY <2>1 DEF vars, RowOf, Status
  <2>3. vm[r] \notin touched[r] => rows'[r][vm[r]] = RowOf(vm[r])
    BY <2>1 DEF Held, HeldOf, RowOf
  <2> QED BY <2>1, <2>2, <2>3 DEF vars, Held, HeldOf, AnswerRight
<1>10. CASE CheckRunning(r)
  BY <1>10 DEF CheckRunning, Finish, ReadersTypeOK, NoRows, memory, vars,
    StepTo, RowOf, Status, Held, HeldOf, AnswerRight
<1>11. CASE Connect(r)
  <2>1. UNCHANGED vars
    BY <1>11, ConnectEffect
  <2>2. \A n \in Names : RowOf(n)' = RowOf(n) /\ Status(n)' = Status(n)
    BY <2>1 DEF vars, RowOf, Status
  <2> QED BY <1>11, <2>1, <2>2, ConnectEffect DEF vars, Held, HeldOf,
    AnswerRight
<1>12. CASE NoAnswer(r)
  BY <1>12 DEF NoAnswer, Finish, ReadersTypeOK, NoRows, memory, vars, StepTo,
    RowOf, Status, Held, HeldOf, AnswerRight
<1>13. CASE Forget(r)
  BY <1>13 DEF Forget, ReadersTypeOK, NoRows, memory, vars, StepTo, RowOf,
    Status, Held, HeldOf, AnswerRight
<1>14. CASE StatusFails(r)
  <2>1. UNCHANGED vars
    BY <1>14, StatusFailsEffect
  <2>2. \A n \in Names : RowOf(n)' = RowOf(n) /\ Status(n)' = Status(n)
    BY <2>1 DEF vars, RowOf, Status
  <2> QED BY <1>14, <2>1, <2>2, StatusFailsEffect DEF vars, Held, HeldOf,
    AnswerRight
<1> QED BY <1>1, <1>2, <1>3, <1>4, <1>5, <1>6, <1>7, <1>8, <1>9, <1>10, <1>11,
  <1>12, <1>13, <1>14 DEF ReaderStep

-----------------------------------------------------------------------------
LEMMA ReaderStutter == ReadersInv /\ UNCHANGED allVars => ReadersInv'
<1> SUFFICES ASSUME ReadersInv, UNCHANGED allVars
             PROVE  ReadersInv'
  OBVIOUS
<1>1. IndInv'
  BY StutterInd DEF ReadersInv, allVars
<1>2. RunningListens' /\ ReadersTypeOK'
  BY DEF ReadersInv, allVars, vars, reader, memory, ReadersTypeOK,
    RunningListens
<1>3. \A n \in Names : RowOf(n)' = RowOf(n) /\ Status(n)' = Status(n)
  BY DEF allVars, vars, RowOf, Status
<1>4. ASSUME NEW r \in Readers PROVE Reading(r)'
  <2>1. StepOfTask(r)'
    BY DEF ReadersInv, allVars, reader, memory, Reading, StepOfTask
  <2>2. Held(r)'
    BY <1>3 DEF ReadersInv, allVars, vars, reader, memory, Reading, Held,
      HeldOf
  <2>3. ListRight(r)' /\ AnswerRight(r)'
    BY <1>3 DEF ReadersInv, allVars, vars, reader, memory, Reading, ListRight,
      AnswerRight
  <2> QED BY <2>1, <2>2, <2>3 DEF Reading
<1> QED BY <1>1, <1>2, <1>4 DEF ReadersInv

(* The readers' invariant, with that of the reservations under it. *)
THEOREM ReadersInvariant == ReadersSpec => []ReadersInv
<1>1. ReadersInv /\ VmStep => ReadersInv'
  <2> SUFFICES ASSUME ReadersInv, VmStep
               PROVE  ReadersInv'
    OBVIOUS
  <2>1. IndInv'
    BY StepInd DEF ReadersInv, VmStep
  <2>2. RunningListens'
    BY RunningPreserved DEF ReadersInv, IndInv, VmStep
  <2> QED BY <2>1, <2>2, VmStepTypes, VmStepKeeps DEF ReadersInv
<1>2. ASSUME ReadersInv, NEW r \in Readers,
             AskList(r) \/ Ask(r) \/ ReaderStep(r) \/ Forget(r)
      PROVE  ReadersInv'
  <2>1. UNCHANGED vars
    BY <1>2 DEF AskList, Ask, ReaderStep, Forget, ListNames, SkipRow, SeeRow,
      ListDone, SeeConfig, ReadConfig, StatusFails, ReadStatus, CheckRunning,
      Connect, NoAnswer
  <2>2. IndInv' /\ RunningListens'
    BY <1>2, <2>1, StutterInd DEF ReadersInv, RunningListens, vars
  <2>3. ReadersTypeOK'
    BY <1>2, ReaderTypes DEF ReadersInv, IndInv, Reading
  <2>4. \A n \in Names : cfg[n] # None => n \in dirs
    BY <1>2 DEF ReadersInv, IndInv, ConfigsOfPlaces
  <2>5. Reading(r)'
    BY <1>2, <2>4, StepOfTaskKept, HeldKept, ListRightKept, AnswerRightKept
    DEF ReadersInv, Reading
  <2>6. \A q \in Readers \ {r} : Reading(q)'
    BY <1>2, OthersKept DEF ReadersInv
  <2> QED BY <2>2, <2>3, <2>5, <2>6 DEF ReadersInv
<1>3. ReadersInv /\ [ReadersNext]_allVars => ReadersInv'
  BY <1>1, <1>2, ReaderStutter DEF ReadersNext
<1> QED BY ReadersInitInd, <1>3, PTL DEF ReadersSpec

(* A list is exact about every VM that did not change while it was made. *)
THEOREM ListExactHolds == ReadersSpec => []ListExact
<1>1. ReadersInv => ListExact
  BY DEF ReadersInv, Reading, ListExact
<1> QED BY <1>1, ReadersInvariant, PTL

(* So is every other answer about such a VM. *)
THEOREM AnswerExactHolds == ReadersSpec => []AnswerExact
<1>1. ReadersInv => AnswerExact
  BY DEF ReadersInv, Reading, AnswerExact
<1> QED BY <1>1, ReadersInvariant, PTL

-----------------------------------------------------------------------------
(* Who answers a reader on the port it has read.                             *)
LEMMA ConnectAtHome ==
  ASSUME ReadersInv, NEW r \in Readers, Connect(r)
  PROVE  /\ AtHome(r)
         /\ reached'[r] \in Names /\ cfg[reached'[r]] # None
         /\ vm[r] \in Names /\ (vm[r] \in touched[r] \/ cfg[vm[r]] # None)
<1>1. /\ TypeOK /\ ConfigsOfPlaces /\ Listening /\ OwnPorts /\ RunningListens
      /\ ReadersTypeOK /\ StepOfTask(r) /\ Held(r)
  BY DEF ReadersInv, IndInv, Reading
<1>2. step[r] = "connect" /\ vm[r] \in Names
  BY <1>1, ConnectEffect DEF StepOfTask, HasVm
<1>3. PICK n \in Names :
        /\ pc[n] = "running" /\ config[r].ssh \in listening[n]
        /\ reached'[r] = n
  BY <1>1, ConnectEffect
<1>4. cfg[n] # None
  BY <1>1, <1>3 DEF ConfigsOfPlaces, Created, Qemu
<1>5. CASE vm[r] \in touched[r]
  BY <1>2, <1>3, <1>4, <1>5 DEF AtHome
<1>6. CASE vm[r] \notin touched[r]
  <2>1. /\ cfg[vm[r]] # None /\ config[r] = cfg[vm[r]]
        /\ Status(vm[r]) = "running"
    BY <1>1, <1>2, <1>6 DEF Held, HeldOf
  <2>2. pc[vm[r]] = "running" \/ Unbound(vm[r])
    BY <2>1 DEF Status, Unbound
  <2>3. CASE pc[vm[r]] = "running"
    <3>1. config[r].ssh \in listening[vm[r]]
      BY <1>1, <1>2, <2>1, <2>3 DEF RunningListens
    <3>2. vm[r] = n
      BY <1>1, <1>2, <1>3, <3>1 DEF Listening
    <3> QED BY <1>2, <1>3, <1>4, <2>1, <3>2 DEF AtHome
  <2>4. CASE Unbound(vm[r])
    <3>1. listening[n] \subseteq PortsOf(cfg[n])
      BY <1>1, <1>3 DEF OwnPorts, Qemu
    <3> QED BY <1>2, <1>3, <1>4, <2>1, <2>4, <3>1 DEF AtHome
  <2> QED BY <2>2, <2>3, <2>4
<1> QED BY <1>5, <1>6

(* A session gets into another VM only if its own was changed, or has its    *)
(* port in common with the other and does not listen on it.                  *)
THEOREM SessionAtHomeHolds == ReadersSpec => SessionAtHome
<1>1. ReadersInv => (\A r \in Readers : Connect(r) => AtHome(r))
  BY ConnectAtHome
<1> QED BY <1>1, ReadersInvariant, PTL DEF SessionAtHome

(* So if no two VMs had a host port in common, only a change of its own VM   *)
(* could lead a session into another.                                        *)
THEOREM DisjointPortsAtHome ==
  ReadersSpec /\ []PortsDisjoint =>
    [][\A r \in Readers :
         Connect(r) => reached'[r] = vm[r] \/ vm[r] \in touched[r]]_allVars
<1>1. ASSUME ReadersInv, PortsDisjoint, NEW r \in Readers, Connect(r)
      PROVE  reached'[r] = vm[r] \/ vm[r] \in touched[r]
  <2>1. CASE vm[r] \notin touched[r] /\ reached'[r] # vm[r]
    <3>1. cfg[vm[r]].ssh \in PortsOf(cfg[reached'[r]])
      BY <1>1, <2>1, ConnectAtHome DEF AtHome
    <3>2. cfg[vm[r]].ssh \in PortsOf(cfg[vm[r]])
      BY DEF PortsOf
    <3> QED BY <1>1, <2>1, <3>1, <3>2, ConnectAtHome DEF PortsDisjoint
  <2> QED BY <2>1
<1>2. ReadersInv /\ PortsDisjoint =>
        (\A r \in Readers :
           Connect(r) => reached'[r] = vm[r] \/ vm[r] \in touched[r])
  BY <1>1
<1> QED BY <1>2, ReadersInvariant, PTL
=============================================================================
