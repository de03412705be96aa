-------------------------- MODULE SshConfigProofs --------------------------
(***************************************************************************)
(* Proofs about SshConfigSync for every number of invocations and VMs.     *)
(***************************************************************************)
EXTENDS SshConfigSync, SshConfigFileProofs, TLAPS

(* Nothing is there yet, and nothing to sync. *)
LEMMA InitInd == Init => IndInv
BY SyncAssumption DEF Init, IndInv, TypeOK, LocksHeld, ReadInTurn, ReadIsRight,
  SyncedStaysRight, WillSync, RightSoFar, NoEntries, Syncing, Locked, ToSync

(* An invocation starts with a task and, if it needs one, a name. *)
LEMMA InvokeEffect ==
  ASSUME TypeOK, NEW p \in Procs, Invoke(p)
  PROVE  /\ op' \in [Procs -> {"create", "delete", "sync", None}]
         /\ name' \in [Procs -> Names \cup {None}]
<1>1. CASE op' = [op EXCEPT ![p] = "sync"] /\ name' = name
  BY <1>1 DEF TypeOK
<1>2. CASE \E o \in {"create", "delete"}, n \in Names :
             op' = [op EXCEPT ![p] = o] /\ name' = [name EXCEPT ![p] = n]
  BY <1>2 DEF TypeOK
<1> QED BY <1>1, <1>2 DEF Invoke

(* After a sync hp exits, or goes on with its create or delete. *)
Ended(p, l, o) ==
  /\ (l = "lock") <=> (o # None)
  /\ o # None => o = op[p]
  /\ pc' = [pc EXCEPT ![p] = l]
  /\ op' = [op EXCEPT ![p] = o]

LEMMA EndSyncEffect ==
  ASSUME TypeOK, LocksHeld, NEW p \in Procs, pc[p] # "idle", EndSync(p)
  PROVE  \E l \in {"idle", "lock"}, o \in {"create", "delete", None} :
           Ended(p, l, o)
<1>1. CASE op[p] = "sync"
  BY <1>1 DEF EndSync, Goto, Ended
<1>2. CASE op[p] \in {"create", "delete"}
  <2>1. op' = [op EXCEPT ![p] = op[p]]
    BY <1>2 DEF EndSync, TypeOK
  <2> QED BY <1>2, <2>1, SyncAssumption DEF EndSync, Goto, Ended
<1> QED BY <1>1, <1>2 DEF TypeOK, LocksHeld

(* Types are kept. *)
LEMMA TypePreserved ==
  ASSUME TypeOK, LocksHeld, ReadInTurn, Next
  PROVE  TypeOK'
<1> USE SyncAssumption DEF TypeOK, LocksHeld, ReadInTurn, At, Goto, NoEntries,
  Syncing, Locked, Unread, Files
<1>1. ASSUME NEW p \in Procs, Invoke(p) PROVE TypeOK'
  BY <1>1, InvokeEffect DEF Invoke
<1>2. ASSUME NEW p \in Procs, LockInstance(p) PROVE TypeOK'
  BY <1>2 DEF LockInstance
<1>3. ASSUME NEW p \in Procs, EnsureDir(p) PROVE TypeOK'
  BY <1>3 DEF EnsureDir
<1>4. ASSUME NEW p \in Procs, WriteConfig(p) PROVE TypeOK'
  BY <1>4 DEF WriteConfig, Succeed
<1>5. ASSUME NEW p \in Procs, CreateFails(p) PROVE TypeOK'
  BY <1>5 DEF CreateFails, Return, ForgetRead
<1>6. ASSUME NEW p \in Procs, NothingToDelete(p) PROVE TypeOK'
  BY <1>6 DEF NothingToDelete, Succeed
<1>7. ASSUME NEW p \in Procs, RemoveConfig(p) PROVE TypeOK'
  BY <1>7 DEF RemoveConfig
<1>8. ASSUME NEW p \in Procs, RemoveDir(p) PROVE TypeOK'
  BY <1>8 DEF RemoveDir, Succeed
<1>9. ASSUME NEW p \in Procs, DeleteFails(p) PROVE TypeOK'
  BY <1>9 DEF DeleteFails, Return, ForgetRead
<1>10. ASSUME NEW p \in Procs, LockSshConfig(p) PROVE TypeOK'
  BY <1>10 DEF LockSshConfig
<1>11. ASSUME NEW p \in Procs, SkipName(p) PROVE TypeOK'
  BY <1>11 DEF SkipName
<1>12. ASSUME NEW p \in Procs, SeeConfig(p) PROVE TypeOK'
  BY <1>12 DEF SeeConfig
<1>13. ASSUME NEW p \in Procs, ReadConfig(p) PROVE TypeOK'
  BY <1>13 DEF ReadConfig
<1>14. ASSUME NEW p \in Procs, ConfigVanished(p) PROVE TypeOK'
  <2>1. PICK l \in {"idle", "lock"}, o \in {"create", "delete", None} :
          Ended(p, l, o)
    BY <1>14, EndSyncEffect DEF ConfigVanished
  <2> QED BY <1>14, <2>1 DEF ConfigVanished, EndSync, DropLock, ForgetRead, Ended
<1>15. ASSUME NEW p \in Procs, ReadMain(p) PROVE TypeOK'
  BY <1>15 DEF ReadMain
<1>16. ASSUME NEW p \in Procs, RenameMain(p) PROVE TypeOK'
  BY <1>16 DEF RenameMain
<1>17. ASSUME NEW p \in Procs, RenameAliases(p) PROVE TypeOK'
  <2>1. PICK l \in {"idle", "lock"}, o \in {"create", "delete", None} :
          Ended(p, l, o)
    BY <1>17, EndSyncEffect DEF RenameAliases
  <2> QED BY <1>17, <2>1 DEF RenameAliases, EndSync, DropLock, ForgetRead, Ended
<1>18. ASSUME NEW p \in Procs, SyncFails(p) PROVE TypeOK'
  <2>1. PICK l \in {"idle", "lock"}, o \in {"create", "delete", None} :
          Ended(p, l, o)
    BY <1>18, EndSyncEffect DEF SyncFails
  <2> QED BY <1>18, <2>1 DEF SyncFails, EndSync, DropLock, ForgetRead, Ended
<1>19. ASSUME NEW p \in Procs, Crash(p) PROVE TypeOK'
  BY <1>19 DEF Crash, Return, ForgetRead
<1>20. CASE UserEdits
  BY <1>20 DEF UserEdits
<1> QED BY <1>1, <1>2, <1>3, <1>4, <1>5, <1>6, <1>7, <1>8, <1>9, <1>10, <1>11,
  <1>12, <1>13, <1>14, <1>15, <1>16, <1>17, <1>18, <1>19, <1>20 DEF Next

(* A lock is held exactly at the labels between taking and dropping it. *)
LEMMA LocksPreserved ==
  ASSUME TypeOK, LocksHeld, Next
  PROVE  LocksHeld'
<1> USE SyncAssumption DEF TypeOK, LocksHeld, At, Goto, NoEntries, Syncing,
  Locked, Unread, Files
<1>1. ASSUME NEW p \in Procs, Invoke(p) PROVE LocksHeld'
  <2>1. /\ pc[p] = "idle" /\ pc' = [pc EXCEPT ![p] = "auto"]
        /\ UNCHANGED <<ilock, slock, dirs, cfg>>
    BY <1>1 DEF Invoke
  <2>2. CASE op' = [op EXCEPT ![p] = "sync"] /\ name' = name
    BY <2>1, <2>2
  <2>3. CASE \E o \in {"create", "delete"}, n \in Names :
               op' = [op EXCEPT ![p] = o] /\ name' = [name EXCEPT ![p] = n]
    <3>1. PICK o \in {"create", "delete"}, n \in Names :
            op' = [op EXCEPT ![p] = o] /\ name' = [name EXCEPT ![p] = n]
      BY <2>3
    <3> QED BY <2>1, <3>1
  <2> QED BY <1>1, <2>2, <2>3 DEF Invoke
<1>2. ASSUME NEW p \in Procs, LockInstance(p) PROVE LocksHeld'
  BY <1>2 DEF LockInstance
<1>3. ASSUME NEW p \in Procs, EnsureDir(p) PROVE LocksHeld'
  BY <1>3 DEF EnsureDir
<1>4. ASSUME NEW p \in Procs, WriteConfig(p) PROVE LocksHeld'
  BY <1>4 DEF WriteConfig, Succeed
<1>5. ASSUME NEW p \in Procs, CreateFails(p) PROVE LocksHeld'
  BY <1>5 DEF CreateFails, Return, ForgetRead
<1>6. ASSUME NEW p \in Procs, NothingToDelete(p) PROVE LocksHeld'
  BY SMTT(30), <1>6 DEF NothingToDelete, Succeed
<1>7. ASSUME NEW p \in Procs, RemoveConfig(p) PROVE LocksHeld'
  BY <1>7 DEF RemoveConfig
<1>8. ASSUME NEW p \in Procs, RemoveDir(p) PROVE LocksHeld'
  BY <1>8 DEF RemoveDir, Succeed
<1>9. ASSUME NEW p \in Procs, DeleteFails(p) PROVE LocksHeld'
  BY <1>9 DEF DeleteFails, Return, ForgetRead
<1>10. ASSUME NEW p \in Procs, LockSshConfig(p) PROVE LocksHeld'
  BY <1>10 DEF LockSshConfig
<1>11. ASSUME NEW p \in Procs, SkipName(p) PROVE LocksHeld'
  BY <1>11 DEF SkipName
<1>12. ASSUME NEW p \in Procs, SeeConfig(p) PROVE LocksHeld'
  BY <1>12 DEF SeeConfig
<1>13. ASSUME NEW p \in Procs, ReadConfig(p) PROVE LocksHeld'
  BY <1>13 DEF ReadConfig
<1>14. ASSUME NEW p \in Procs, ConfigVanished(p) PROVE LocksHeld'
  <2>1. PICK l \in {"idle", "lock"}, o \in {"create", "delete", None} :
          Ended(p, l, o)
    BY <1>14, EndSyncEffect DEF ConfigVanished
  <2> QED BY <1>14, <2>1 DEF ConfigVanished, EndSync, DropLock, ForgetRead, Ended
<1>15. ASSUME NEW p \in Procs, ReadMain(p) PROVE LocksHeld'
  BY <1>15 DEF ReadMain
<1>16. ASSUME NEW p \in Procs, RenameMain(p) PROVE LocksHeld'
  BY <1>16 DEF RenameMain
<1>17. ASSUME NEW p \in Procs, RenameAliases(p) PROVE LocksHeld'
  <2>1. PICK l \in {"idle", "lock"}, o \in {"create", "delete", None} :
          Ended(p, l, o)
    BY <1>17, EndSyncEffect DEF RenameAliases
  <2> QED BY <1>17, <2>1 DEF RenameAliases, EndSync, DropLock, ForgetRead, Ended
<1>18. ASSUME NEW p \in Procs, SyncFails(p) PROVE LocksHeld'
  <2>1. PICK l \in {"idle", "lock"}, o \in {"create", "delete", None} :
          Ended(p, l, o)
    BY <1>18, EndSyncEffect DEF SyncFails
  <2> QED BY <1>18, <2>1 DEF SyncFails, EndSync, DropLock, ForgetRead, Ended
<1>19. ASSUME NEW p \in Procs, Crash(p) PROVE LocksHeld'
  BY <1>19 DEF Crash, Return, ForgetRead
<1>20. CASE UserEdits
  BY <1>20 DEF UserEdits
<1> QED BY <1>1, <1>2, <1>3, <1>4, <1>5, <1>6, <1>7, <1>8, <1>9, <1>10, <1>11,
  <1>12, <1>13, <1>14, <1>15, <1>16, <1>17, <1>18, <1>19, <1>20 DEF Next

(* A sync reads one name after the other. *)
LEMMA TurnPreserved ==
  ASSUME TypeOK, LocksHeld, ReadInTurn, Next
  PROVE  ReadInTurn'
<1> USE SyncAssumption DEF TypeOK, LocksHeld, ReadInTurn, At, Goto, NoEntries,
  Syncing, Locked, Unread, Files
<1>1. ASSUME NEW p \in Procs, Invoke(p) PROVE ReadInTurn'
  BY <1>1 DEF Invoke
<1>2. ASSUME NEW p \in Procs, LockInstance(p) PROVE ReadInTurn'
  BY <1>2 DEF LockInstance
<1>3. ASSUME NEW p \in Procs, EnsureDir(p) PROVE ReadInTurn'
  BY <1>3 DEF EnsureDir
<1>4. ASSUME NEW p \in Procs, WriteConfig(p) PROVE ReadInTurn'
  BY <1>4 DEF WriteConfig, Succeed
<1>5. ASSUME NEW p \in Procs, CreateFails(p) PROVE ReadInTurn'
  BY <1>5 DEF CreateFails, Return, ForgetRead
<1>6. ASSUME NEW p \in Procs, NothingToDelete(p) PROVE ReadInTurn'
  BY <1>6 DEF NothingToDelete, Succeed
<1>7. ASSUME NEW p \in Procs, RemoveConfig(p) PROVE ReadInTurn'
  BY <1>7 DEF RemoveConfig
<1>8. ASSUME NEW p \in Procs, RemoveDir(p) PROVE ReadInTurn'
  BY <1>8 DEF RemoveDir, Succeed
<1>9. ASSUME NEW p \in Procs, DeleteFails(p) PROVE ReadInTurn'
  BY <1>9 DEF DeleteFails, Return, ForgetRead
<1>10. ASSUME NEW p \in Procs, LockSshConfig(p) PROVE ReadInTurn'
  BY <1>10 DEF LockSshConfig
<1>11. ASSUME NEW p \in Procs, SkipName(p) PROVE ReadInTurn'
  BY <1>11 DEF SkipName
<1>12. ASSUME NEW p \in Procs, SeeConfig(p) PROVE ReadInTurn'
  BY <1>12 DEF SeeConfig
<1>13. ASSUME NEW p \in Procs, ReadConfig(p) PROVE ReadInTurn'
  BY <1>13 DEF ReadConfig
<1>14. ASSUME NEW p \in Procs, ConfigVanished(p) PROVE ReadInTurn'
  <2>1. PICK l \in {"idle", "lock"}, o \in {"create", "delete", None} :
          Ended(p, l, o)
    BY <1>14, EndSyncEffect DEF ConfigVanished
  <2> QED BY <1>14, <2>1 DEF ConfigVanished, EndSync, DropLock, ForgetRead, Ended
<1>15. ASSUME NEW p \in Procs, ReadMain(p) PROVE ReadInTurn'
  BY <1>15 DEF ReadMain
<1>16. ASSUME NEW p \in Procs, RenameMain(p) PROVE ReadInTurn'
  BY <1>16 DEF RenameMain
<1>17. ASSUME NEW p \in Procs, RenameAliases(p) PROVE ReadInTurn'
  <2>1. PICK l \in {"idle", "lock"}, o \in {"create", "delete", None} :
          Ended(p, l, o)
    BY <1>17, EndSyncEffect DEF RenameAliases
  <2> QED BY <1>17, <2>1 DEF RenameAliases, EndSync, DropLock, ForgetRead, Ended
<1>18. ASSUME NEW p \in Procs, SyncFails(p) PROVE ReadInTurn'
  <2>1. PICK l \in {"idle", "lock"}, o \in {"create", "delete", None} :
          Ended(p, l, o)
    BY <1>18, EndSyncEffect DEF SyncFails
  <2> QED BY <1>18, <2>1 DEF SyncFails, EndSync, DropLock, ForgetRead, Ended
<1>19. ASSUME NEW p \in Procs, Crash(p) PROVE ReadInTurn'
  BY <1>19 DEF Crash, Return, ForgetRead
<1>20. CASE UserEdits
  BY <1>20 DEF UserEdits
<1> QED BY <1>1, <1>2, <1>3, <1>4, <1>5, <1>6, <1>7, <1>8, <1>9, <1>10, <1>11,
  <1>12, <1>13, <1>14, <1>15, <1>16, <1>17, <1>18, <1>19, <1>20 DEF Next

(* Who changes what a sync has read has a sync of its own to do. *)
LEMMA ReadPreserved ==
  ASSUME TypeOK, LocksHeld, ReadInTurn, ReadIsRight, Next
  PROVE  ReadIsRight'
<1> USE SyncAssumption DEF TypeOK, LocksHeld, ReadInTurn, ReadIsRight, At,
  Goto, NoEntries, Syncing, Locked, Unread, Files
<1>1. ASSUME NEW p \in Procs, Invoke(p) PROVE ReadIsRight'
  BY <1>1 DEF Invoke
<1>2. ASSUME NEW p \in Procs, LockInstance(p) PROVE ReadIsRight'
  <2>1. pc'[p] \in {"create", "delete"} /\ \A q \in Procs \ {p} : pc'[q] = pc[q]
    BY <1>2 DEF LockInstance
  <2>2. UNCHANGED <<todo, cur, entries, cfg, unsynced>>
    BY <1>2 DEF LockInstance
  <2> QED BY <2>1, <2>2
<1>3. ASSUME NEW p \in Procs, EnsureDir(p) PROVE ReadIsRight'
  BY <1>3 DEF EnsureDir
<1>4. ASSUME NEW p \in Procs, WriteConfig(p) PROVE ReadIsRight'
  BY <1>4 DEF WriteConfig, Succeed
<1>5. ASSUME NEW p \in Procs, CreateFails(p) PROVE ReadIsRight'
  BY <1>5 DEF CreateFails, Return, ForgetRead
<1>6. ASSUME NEW p \in Procs, NothingToDelete(p) PROVE ReadIsRight'
  BY <1>6 DEF NothingToDelete, Succeed
<1>7. ASSUME NEW p \in Procs, RemoveConfig(p) PROVE ReadIsRight'
  BY <1>7 DEF RemoveConfig
<1>8. ASSUME NEW p \in Procs, RemoveDir(p) PROVE ReadIsRight'
  BY <1>8 DEF RemoveDir, Succeed
<1>9. ASSUME NEW p \in Procs, DeleteFails(p) PROVE ReadIsRight'
  BY <1>9 DEF DeleteFails, Return, ForgetRead
<1>10. ASSUME NEW p \in Procs, LockSshConfig(p) PROVE ReadIsRight'
  BY <1>10 DEF LockSshConfig
<1>11. ASSUME NEW p \in Procs, SkipName(p) PROVE ReadIsRight'
  BY <1>11 DEF SkipName
<1>12. ASSUME NEW p \in Procs, SeeConfig(p) PROVE ReadIsRight'
  BY <1>12 DEF SeeConfig
<1>13. ASSUME NEW p \in Procs, ReadConfig(p) PROVE ReadIsRight'
  BY <1>13 DEF ReadConfig
<1>14. ASSUME NEW p \in Procs, ConfigVanished(p) PROVE ReadIsRight'
  <2>1. PICK l \in {"idle", "lock"}, o \in {"create", "delete", None} :
          Ended(p, l, o)
    BY <1>14, EndSyncEffect DEF ConfigVanished
  <2> QED BY <1>14, <2>1 DEF ConfigVanished, EndSync, DropLock, ForgetRead, Ended
<1>15. ASSUME NEW p \in Procs, ReadMain(p) PROVE ReadIsRight'
  BY <1>15 DEF ReadMain
<1>16. ASSUME NEW p \in Procs, RenameMain(p) PROVE ReadIsRight'
  BY <1>16 DEF RenameMain
<1>17. ASSUME NEW p \in Procs, RenameAliases(p) PROVE ReadIsRight'
  <2>1. PICK l \in {"idle", "lock"}, o \in {"create", "delete", None} :
          Ended(p, l, o)
    BY <1>17, EndSyncEffect DEF RenameAliases
  <2> QED BY <1>17, <2>1 DEF RenameAliases, EndSync, DropLock, ForgetRead, Ended
<1>18. ASSUME NEW p \in Procs, SyncFails(p) PROVE ReadIsRight'
  <2>1. PICK l \in {"idle", "lock"}, o \in {"create", "delete", None} :
          Ended(p, l, o)
    BY <1>18, EndSyncEffect DEF SyncFails
  <2> QED BY <1>18, <2>1 DEF SyncFails, EndSync, DropLock, ForgetRead, Ended
<1>19. ASSUME NEW p \in Procs, Crash(p) PROVE ReadIsRight'
  BY <1>19 DEF Crash, Return, ForgetRead
<1>20. CASE UserEdits
  BY <1>20 DEF UserEdits
<1> QED BY <1>1, <1>2, <1>3, <1>4, <1>5, <1>6, <1>7, <1>8, <1>9, <1>10, <1>11,
  <1>12, <1>13, <1>14, <1>15, <1>16, <1>17, <1>18, <1>19, <1>20 DEF Next

(* An alias file is written by the holder of the lock, from what ReadIsRight says. *)
LEMMA SyncedPreserved ==
  ASSUME TypeOK, LocksHeld, ReadInTurn, ReadIsRight, SyncedStaysRight, Next
  PROVE  SyncedStaysRight'
<1> USE SyncAssumption DEF TypeOK, LocksHeld, ReadInTurn, ReadIsRight,
  SyncedStaysRight, At, Goto, NoEntries, Syncing, Locked, Unread, Files
<1>1. ASSUME NEW p \in Procs, Invoke(p) PROVE SyncedStaysRight'
  BY <1>1 DEF Invoke
<1>2. ASSUME NEW p \in Procs, LockInstance(p) PROVE SyncedStaysRight'
  BY <1>2 DEF LockInstance
<1>3. ASSUME NEW p \in Procs, EnsureDir(p) PROVE SyncedStaysRight'
  BY <1>3 DEF EnsureDir
<1>4. ASSUME NEW p \in Procs, WriteConfig(p) PROVE SyncedStaysRight'
  BY <1>4 DEF WriteConfig, Succeed
<1>5. ASSUME NEW p \in Procs, CreateFails(p) PROVE SyncedStaysRight'
  BY <1>5 DEF CreateFails, Return, ForgetRead
<1>6. ASSUME NEW p \in Procs, NothingToDelete(p) PROVE SyncedStaysRight'
  BY <1>6 DEF NothingToDelete, Succeed
<1>7. ASSUME NEW p \in Procs, RemoveConfig(p) PROVE SyncedStaysRight'
  BY <1>7 DEF RemoveConfig
<1>8. ASSUME NEW p \in Procs, RemoveDir(p) PROVE SyncedStaysRight'
  BY <1>8 DEF RemoveDir, Succeed
<1>9. ASSUME NEW p \in Procs, DeleteFails(p) PROVE SyncedStaysRight'
  BY <1>9 DEF DeleteFails, Return, ForgetRead
<1>10. ASSUME NEW p \in Procs, LockSshConfig(p) PROVE SyncedStaysRight'
  BY <1>10 DEF LockSshConfig
<1>11. ASSUME NEW p \in Procs, SkipName(p) PROVE SyncedStaysRight'
  BY <1>11 DEF SkipName
<1>12. ASSUME NEW p \in Procs, SeeConfig(p) PROVE SyncedStaysRight'
  BY <1>12 DEF SeeConfig
<1>13. ASSUME NEW p \in Procs, ReadConfig(p) PROVE SyncedStaysRight'
  BY <1>13 DEF ReadConfig
<1>14. ASSUME NEW p \in Procs, ConfigVanished(p) PROVE SyncedStaysRight'
  <2>1. PICK l \in {"idle", "lock"}, o \in {"create", "delete", None} :
          Ended(p, l, o)
    BY <1>14, EndSyncEffect DEF ConfigVanished
  <2> QED BY <1>14, <2>1 DEF ConfigVanished, EndSync, DropLock, ForgetRead, Ended
<1>15. ASSUME NEW p \in Procs, ReadMain(p) PROVE SyncedStaysRight'
  BY <1>15 DEF ReadMain
<1>16. ASSUME NEW p \in Procs, RenameMain(p) PROVE SyncedStaysRight'
  BY <1>16 DEF RenameMain
<1>17. ASSUME NEW p \in Procs, RenameAliases(p) PROVE SyncedStaysRight'
  <2> SUFFICES ASSUME NEW n \in Names, unsynced'[n] = None
               PROVE  aliases'[n] = cfg'[n]
    OBVIOUS
  <2>1. n \notin todo[p] /\ n # cur[p] /\ pc[p] \in Syncing
    BY <1>17 DEF RenameAliases
  <2>2. unsynced[n] \in {None, p}
    BY <1>17 DEF RenameAliases
  <2>3. entries[p][n] = cfg[n]
    BY <2>1, <2>2
  <2> QED BY <1>17, <2>3 DEF RenameAliases
<1>18. ASSUME NEW p \in Procs, SyncFails(p) PROVE SyncedStaysRight'
  <2>1. PICK l \in {"idle", "lock"}, o \in {"create", "delete", None} :
          Ended(p, l, o)
    BY <1>18, EndSyncEffect DEF SyncFails
  <2> QED BY <1>18, <2>1 DEF SyncFails, EndSync, DropLock, ForgetRead, Ended
<1>19. ASSUME NEW p \in Procs, Crash(p) PROVE SyncedStaysRight'
  BY <1>19 DEF Crash, Return, ForgetRead
<1>20. CASE UserEdits
  BY <1>20 DEF UserEdits
<1> QED BY <1>1, <1>2, <1>3, <1>4, <1>5, <1>6, <1>7, <1>8, <1>9, <1>10, <1>11,
  <1>12, <1>13, <1>14, <1>15, <1>16, <1>17, <1>18, <1>19, <1>20 DEF Next

(* Without faults a wrong alias keeps its promise of a sync. *)
LEMMA WillSyncPreserved ==
  ASSUME TypeOK, LocksHeld, ReadInTurn, WillSync, Next
  PROVE  WillSync'
<1> USE SyncAssumption DEF TypeOK, LocksHeld, ReadInTurn, WillSync, At, Goto,
  NoEntries, Syncing, Locked, Unread, Files, ToSync, RightSoFar
<1>1. ASSUME NEW p \in Procs, Invoke(p) PROVE WillSync'
  BY <1>1 DEF Invoke
<1>2. ASSUME NEW p \in Procs, LockInstance(p) PROVE WillSync'
  <2>1. pc'[p] \in {"create", "delete"} /\ \A q \in Procs \ {p} : pc'[q] = pc[q]
    BY <1>2 DEF LockInstance
  <2>2. UNCHANGED <<slock, todo, cur, entries, cfg, aliases, faults>>
    BY <1>2 DEF LockInstance
  <2>3. pc[p] = "lock"
    BY <1>2 DEF LockInstance
  <2>4. \A q \in Procs : pc[q] \in ToSync => pc'[q] \in ToSync
    BY <2>1, <2>3
  <2>5. \A q \in Procs : RightSoFar(q) => RightSoFar(q)'
    BY <2>1, <2>2, <2>3
  <2> HIDE DEF RightSoFar, ToSync
  <2> QED BY <2>2, <2>4, <2>5
<1>3. ASSUME NEW p \in Procs, EnsureDir(p) PROVE WillSync'
  BY <1>3 DEF EnsureDir
<1>4. ASSUME NEW p \in Procs, WriteConfig(p) PROVE WillSync'
  BY <1>4 DEF WriteConfig, Succeed
<1>5. ASSUME NEW p \in Procs, CreateFails(p) PROVE WillSync'
  BY <1>5 DEF CreateFails, Return, ForgetRead
<1>6. ASSUME NEW p \in Procs, NothingToDelete(p) PROVE WillSync'
  BY <1>6 DEF NothingToDelete, Succeed
<1>7. ASSUME NEW p \in Procs, RemoveConfig(p) PROVE WillSync'
  BY <1>7 DEF RemoveConfig
<1>8. ASSUME NEW p \in Procs, RemoveDir(p) PROVE WillSync'
  BY <1>8 DEF RemoveDir, Succeed
<1>9. ASSUME NEW p \in Procs, DeleteFails(p) PROVE WillSync'
  BY <1>9 DEF DeleteFails, Return, ForgetRead
<1>10. ASSUME NEW p \in Procs, LockSshConfig(p) PROVE WillSync'
  BY <1>10 DEF LockSshConfig
<1>11. ASSUME NEW p \in Procs, SkipName(p) PROVE WillSync'
  BY <1>11 DEF SkipName
<1>12. ASSUME NEW p \in Procs, SeeConfig(p) PROVE WillSync'
  BY <1>12 DEF SeeConfig
<1>13. ASSUME NEW p \in Procs, ReadConfig(p) PROVE WillSync'
  BY <1>13 DEF ReadConfig
<1>14. ASSUME NEW p \in Procs, ConfigVanished(p) PROVE WillSync'
  <2>1. PICK l \in {"idle", "lock"}, o \in {"create", "delete", None} :
          Ended(p, l, o)
    BY <1>14, EndSyncEffect DEF ConfigVanished
  <2> QED BY <1>14, <2>1 DEF ConfigVanished, EndSync, DropLock, ForgetRead, Ended
<1>15. ASSUME NEW p \in Procs, ReadMain(p) PROVE WillSync'
  BY <1>15 DEF ReadMain
<1>16. ASSUME NEW p \in Procs, RenameMain(p) PROVE WillSync'
  BY <1>16 DEF RenameMain
<1>17. ASSUME NEW p \in Procs, RenameAliases(p) PROVE WillSync'
  <2>1. PICK l \in {"idle", "lock"}, o \in {"create", "delete", None} :
          Ended(p, l, o)
    BY <1>17, EndSyncEffect DEF RenameAliases
  <2> QED BY <1>17, <2>1 DEF RenameAliases, EndSync, DropLock, ForgetRead, Ended
<1>18. ASSUME NEW p \in Procs, SyncFails(p) PROVE WillSync'
  <2>1. PICK l \in {"idle", "lock"}, o \in {"create", "delete", None} :
          Ended(p, l, o)
    BY <1>18, EndSyncEffect DEF SyncFails
  <2> QED BY <1>18, <2>1 DEF SyncFails, EndSync, DropLock, ForgetRead, Ended
<1>19. ASSUME NEW p \in Procs, Crash(p) PROVE WillSync'
  BY <1>19 DEF Crash, Return, ForgetRead
<1>20. CASE UserEdits
  BY <1>20 DEF UserEdits
<1> QED BY <1>1, <1>2, <1>3, <1>4, <1>5, <1>6, <1>7, <1>8, <1>9, <1>10, <1>11,
  <1>12, <1>13, <1>14, <1>15, <1>16, <1>17, <1>18, <1>19, <1>20 DEF Next

(* So does a stuttering step. *)
LEMMA StutterInd == IndInv /\ UNCHANGED vars => IndInv'
BY DEF IndInv, TypeOK, LocksHeld, ReadInTurn, ReadIsRight, SyncedStaysRight,
  WillSync, RightSoFar, vars

(* What holds of every sync of every invocation, with and without faults. *)
THEOREM IndInvariant == Spec => []IndInv
<1>1. IndInv /\ Next => IndInv'
  BY TypePreserved, LocksPreserved, TurnPreserved, ReadPreserved,
    SyncedPreserved, WillSyncPreserved DEF IndInv
<1>2. IndInv /\ [Next]_vars => IndInv'
  BY <1>1, StutterInd
<1> QED BY InitInd, <1>2, PTL DEF Spec

(* README.md:109: the alias file is up to date when nothing runs. *)
THEOREM UpToDateWhenQuietHolds == Spec => []UpToDateWhenQuiet
<1>1. IndInv => UpToDateWhenQuiet
  BY DEF IndInv, WillSync, RightSoFar, UpToDateWhenQuiet, At, ToSync, Syncing
<1> QED BY <1>1, IndInvariant, PTL

(* What has been synced is not undone by a slower sync. *)
THEOREM SyncedStaysRightHolds == Spec => []SyncedStaysRight
<1>1. IndInv => SyncedStaysRight
  BY DEF IndInv
<1> QED BY <1>1, IndInvariant, PTL

-----------------------------------------------------------------------------
(* What is in ~/.ssh/config, and what a sync has read of it. *)
MainTyped ==
  /\ main \in Seq(Lines)
  /\ seen \in [Procs -> Seq(Lines)]

LEMMA MainPreserved ==
  ASSUME MainTyped, Next
  PROVE  MainTyped'
<1>1. \A s \in Seq(Lines) : Installed(s) \in Seq(Lines)
  BY RewriteIsStable
<1>2. <<>> \in Seq(Lines) /\ UserConfigs \subseteq Seq(Lines)
  BY EmptySeq, LinesAssumption
<1> USE DEF MainTyped, Unread, Files
<1>3. ASSUME NEW p \in Procs, ForgetRead(p), UNCHANGED main PROVE MainTyped'
  BY <1>2, <1>3 DEF ForgetRead
<1>4. CASE UNCHANGED <<seen, main>>
  BY <1>4
<1>5. ASSUME NEW p \in Procs, ReadMain(p) PROVE MainTyped'
  BY <1>5 DEF ReadMain
<1>6. ASSUME NEW p \in Procs, RenameMain(p) PROVE MainTyped'
  BY <1>1, <1>2, <1>6 DEF RenameMain
<1>7. CASE UserEdits
  BY <1>2, <1>7 DEF UserEdits
<1>8. ASSUME NEW p \in Procs,
             \/ CreateFails(p) \/ DeleteFails(p) \/ ConfigVanished(p)
             \/ RenameAliases(p) \/ SyncFails(p) \/ Crash(p)
      PROVE  ForgetRead(p) /\ UNCHANGED main
  BY <1>8 DEF CreateFails, DeleteFails, ConfigVanished, RenameAliases,
    SyncFails, Crash, Return, EndSync
<1>9. ASSUME NEW p \in Procs,
             \/ Invoke(p) \/ LockInstance(p) \/ EnsureDir(p) \/ WriteConfig(p)
             \/ NothingToDelete(p) \/ RemoveConfig(p) \/ RemoveDir(p)
             \/ LockSshConfig(p) \/ SkipName(p) \/ SeeConfig(p) \/ ReadConfig(p)
      PROVE  UNCHANGED <<seen, main>>
  BY <1>9 DEF Invoke, LockInstance, EnsureDir, WriteConfig, NothingToDelete,
    RemoveConfig, RemoveDir, LockSshConfig, SkipName, SeeConfig, ReadConfig
<1> QED BY <1>3, <1>4, <1>5, <1>6, <1>7, <1>8, <1>9 DEF Next

(* README.md:100, the Include line that hardpass adds to ~/.ssh/config: no   *)
(* edit of the user's, no kill and no other sync brings a rewrite to lose a  *)
(* line of the user's outside of legacy blocks, to add a second Include, to  *)
(* grow the file, or to leave a line for the next one to claim.              *)
THEOREM RewriteSettlesHolds == Spec => RewriteSettles
<1>1. Init => MainTyped
  BY LinesAssumption, EmptySeq DEF Init, MainTyped
<1>2. MainTyped /\ [Next]_vars => MainTyped'
  BY MainPreserved DEF MainTyped, vars
<1>3. AllSettle
  BY LinesAssumption, RewriteKeepsTheUsers DEF AllSettle
<1>4. MainTyped =>
        \A p \in Procs : RenameMain(p) => Settles(seen[p], main') /\ AllSettle
  BY <1>3, RewriteKeepsTheUsers DEF MainTyped, RenameMain
<1>5. MainTyped =>
        [\A p \in Procs : RenameMain(p) => Settles(seen[p], main') /\ AllSettle]_vars
  BY <1>4
<1> QED BY <1>1, <1>2, <1>5, PTL DEF Spec, RewriteSettles
=============================================================================
