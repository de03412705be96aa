----------------------- MODULE PortReservationProofs -----------------------
(***************************************************************************)
(* Proofs about PortReservation for every number of VMs, ports and         *)
(* requests.                                                               *)
(***************************************************************************)
EXTENDS PortReservation, TLAPS

(* What a forward list is: its ports are those at its places. *)
LEMMA RequestPorts ==
  ASSUME NEW r \in Requests \cup {<<>>}
  PROVE  /\ r \in Seq(Ports \cup {0}) /\ Len(r) \in Nat
         /\ ToSet(r) \subseteq Ports \cup {0}
         /\ \A x \in ToSet(r) : \E i \in 1..Len(r) : x = r[i]
<1>1. r \in Seq(Ports \cup {0})
  <2>1. CASE r \in Requests
    BY <2>1, PortAssumption
  <2>2. CASE r = <<>>
    BY <2>2
  <2> QED BY <2>1, <2>2
<1>2. ToSet(r) = {r[i] : i \in 1..Len(r)}
  BY <1>1 DEF ToSet
<1> QED BY <1>1, <1>2

(* What a config's ports are. *)
LEMMA ConfigPorts ==
  /\ \A c \in Configs : PortsOf(c) \subseteq Ports \cup {0}
  /\ \A p, r : PortsOf([ssh |-> p, fwd |-> r]) = {p} \cup ToSet(r)
BY RequestPorts DEF Configs, PortsOf

(* No VM, no port, no lock. *)
LEMMA InitInd == Init => IndInv
BY PortAssumption DEF Init, IndInv, TypeOK, ConfigsOfPlaces, ScanFound,
  Listening, OwnPorts, Validated, NeverTaken, ForwardsDistinct, Reserved,
  Reserving, Chosen, Created, Qemu

(* What a create has reserved does not change when its config is written. *)
LEMMA ReservedOnWrite ==
  ASSUME TypeOK, ConfigsOfPlaces, NEW n \in Names, WriteConfig(n)
  PROVE  Reserved(n)' = Reserved(n)
<1>1. cfg'[n] = [ssh |-> ssh[n], fwd |-> want[n]] /\ cfg'[n] \in Configs
  BY DEF WriteConfig, TypeOK, ConfigsOfPlaces, Chosen, Qemu, Configs, At
<1>2. Reserved(n)' = PortsOf(cfg'[n])
  BY <1>1, PortAssumption DEF Reserved, Configs
<1>3. Reserved(n) = {ssh[n]} \cup ToSet(want[n])
  BY DEF Reserved, WriteConfig, ConfigsOfPlaces, Created, Qemu, At
<1> QED BY <1>1, <1>2, <1>3, ConfigPorts

(* Only BindSsh reserves. *)
LEMMA ReservedShrinks ==
  ASSUME TypeOK, ConfigsOfPlaces, Next, ~\E n \in Names : BindSsh(n),
         NEW k \in Names
  PROVE  Reserved(k)' \subseteq Reserved(k)
<1> USE DEF TypeOK, ConfigsOfPlaces, Reserved, Created, Qemu, Chosen, At, Goto
<1>1. ASSUME NEW n \in Names, Create(n) PROVE Reserved(k)' \subseteq Reserved(k)
  BY <1>1 DEF Create
<1>2. ASSUME NEW n \in Names, LockPorts(n) PROVE Reserved(k)' \subseteq Reserved(k)
  BY <1>2 DEF LockPorts
<1>3. ASSUME NEW n \in Names, ScanOne(n) PROVE Reserved(k)' \subseteq Reserved(k)
  BY <1>3 DEF ScanOne
<1>4. ASSUME NEW n \in Names, ScanDone(n) PROVE Reserved(k)' \subseteq Reserved(k)
  BY <1>4 DEF ScanDone
<1>5. ASSUME NEW n \in Names, BindForward(n) PROVE Reserved(k)' \subseteq Reserved(k)
  BY <1>5 DEF BindForward
<1>6. ASSUME NEW n \in Names, ForwardUnavailable(n) PROVE Reserved(k)' \subseteq Reserved(k)
  BY <1>6 DEF ForwardUnavailable, Abandon
<1>7. ASSUME NEW n \in Names, NoPortLeft(n) PROVE Reserved(k)' \subseteq Reserved(k)
  BY <1>7 DEF NoPortLeft, Abandon
<1>8. ASSUME NEW n \in Names, ValidateForwards(n) PROVE Reserved(k)' \subseteq Reserved(k)
  BY <1>8 DEF ValidateForwards, Abandon
<1>9. ASSUME NEW n \in Names, EnsureDir(n) PROVE Reserved(k)' \subseteq Reserved(k)
  BY <1>9 DEF EnsureDir
<1>10. ASSUME NEW n \in Names, WriteConfig(n) PROVE Reserved(k)' \subseteq Reserved(k)
  BY <1>10, ReservedOnWrite DEF WriteConfig
<1>11. ASSUME NEW n \in Names, DropReservation(n) PROVE Reserved(k)' \subseteq Reserved(k)
  BY <1>11 DEF DropReservation
<1>12. ASSUME NEW n \in Names, CreateFails(n) PROVE Reserved(k)' \subseteq Reserved(k)
  BY <1>12 DEF CreateFails, Abandon
<1>13. ASSUME NEW n \in Names, Start(n) PROVE Reserved(k)' \subseteq Reserved(k)
  BY <1>13 DEF Start
<1>14. ASSUME NEW n \in Names, WritePid(n) PROVE Reserved(k)' \subseteq Reserved(k)
  BY <1>14 DEF WritePid
<1>15. ASSUME NEW n \in Names, BindHostfwd(n) PROVE Reserved(k)' \subseteq Reserved(k)
  BY <1>15 DEF BindHostfwd
<1>16. ASSUME NEW n \in Names, Boot(n) PROVE Reserved(k)' \subseteq Reserved(k)
  BY <1>16 DEF Boot
<1>17. ASSUME NEW n \in Names, Close(n) PROVE Reserved(k)' \subseteq Reserved(k)
  BY <1>17 DEF Close
<1>18. ASSUME NEW n \in Names, Stop(n) PROVE Reserved(k)' \subseteq Reserved(k)
  BY <1>18 DEF Stop
<1>19. ASSUME NEW n \in Names, Delete(n) PROVE Reserved(k)' \subseteq Reserved(k)
  BY <1>19 DEF Delete
<1> QED BY <1>1, <1>2, <1>3, <1>4, <1>5, <1>6, <1>7, <1>8, <1>9, <1>10, <1>11,
  <1>12, <1>13, <1>14, <1>15, <1>16, <1>17, <1>18, <1>19 DEF Next, CreateStep

(* Types are kept. *)
LEMMA TypePreserved ==
  ASSUME TypeOK, ConfigsOfPlaces, Next
  PROVE  TypeOK'
<1> USE PortAssumption DEF TypeOK, ConfigsOfPlaces, Created, Qemu, Chosen,
  At, Goto
<1>1. ASSUME NEW n \in Names, Create(n) PROVE TypeOK'
  BY <1>1 DEF Create
<1>2. ASSUME NEW n \in Names, LockPorts(n) PROVE TypeOK'
  BY <1>2 DEF LockPorts
<1>3. ASSUME NEW n \in Names, ScanOne(n) PROVE TypeOK'
  <2>1. PICK m \in todo[n] :
          /\ todo' = [todo EXCEPT ![n] = @ \ {m}]
          /\ occupied' = [occupied EXCEPT ![n] =
                @ \cup IF cfg[m] = None THEN {} ELSE PortsOf(cfg[m])]
    BY <1>3 DEF ScanOne
  <2>2. m \in Names /\ (cfg[m] # None => PortsOf(cfg[m]) \subseteq Ports \cup {0})
    BY <2>1, ConfigPorts
  <2>3. occupied' \in [Names -> SUBSET (Ports \cup {0})]
    BY <2>1, <2>2
  <2>4. todo' \in [Names -> SUBSET Names]
    BY <2>1
  <2> QED BY <1>3, <2>3, <2>4 DEF ScanOne
<1>4. ASSUME NEW n \in Names, ScanDone(n) PROVE TypeOK'
  BY <1>4 DEF ScanDone
<1>5. ASSUME NEW n \in Names, BindForward(n) PROVE TypeOK'
  <2>1. Forward(n) \in Ports \cup {0}
    BY <1>5, RequestPorts DEF BindForward, Forward
  <2>2. bound' \in [Names -> Nat]
    BY <1>5 DEF BindForward
  <2>3. listening' \in [Names -> SUBSET Ports]
    BY <1>5, <2>1 DEF BindForward
  <2> QED BY <1>5, <2>2, <2>3 DEF BindForward
<1>6. ASSUME NEW n \in Names, ForwardUnavailable(n) PROVE TypeOK'
  BY <1>6 DEF ForwardUnavailable, Abandon
<1>7. ASSUME NEW n \in Names, BindSsh(n) PROVE TypeOK'
  BY <1>7 DEF BindSsh
<1>8. ASSUME NEW n \in Names, NoPortLeft(n) PROVE TypeOK'
  BY <1>8 DEF NoPortLeft, Abandon
<1>9. ASSUME NEW n \in Names, ValidateForwards(n) PROVE TypeOK'
  <2>1. CASE Abandon(n)
    BY <2>1 DEF Abandon
  <2>2. CASE Goto(n, "mkdir") /\ UNCHANGED <<plock, want, todo, occupied, bound,
                                            ssh, listening, dirs, cfg, before>>
    BY <2>2
  <2> QED BY <1>9, <2>1, <2>2 DEF ValidateForwards
<1>10. ASSUME NEW n \in Names, EnsureDir(n) PROVE TypeOK'
  BY <1>10 DEF EnsureDir
<1>11. ASSUME NEW n \in Names, WriteConfig(n) PROVE TypeOK'
  <2>1. [ssh |-> ssh[n], fwd |-> want[n]] \in Configs
    BY <1>11 DEF WriteConfig, Configs
  <2> QED BY <1>11, <2>1 DEF WriteConfig
<1>12. ASSUME NEW n \in Names, DropReservation(n) PROVE TypeOK'
  BY <1>12 DEF DropReservation
<1>13. ASSUME NEW n \in Names, CreateFails(n) PROVE TypeOK'
  BY <1>13 DEF CreateFails, Abandon
<1>14. ASSUME NEW n \in Names, Start(n) PROVE TypeOK'
  BY <1>14 DEF Start
<1>15. ASSUME NEW n \in Names, WritePid(n) PROVE TypeOK'
  BY <1>15 DEF WritePid
<1>16. ASSUME NEW n \in Names, BindHostfwd(n) PROVE TypeOK'
  <2>1. PortsOf(cfg[n]) \ {0} \subseteq Ports
    BY <1>16, ConfigPorts DEF BindHostfwd, Qemu
  <2> QED BY <1>16, <2>1 DEF BindHostfwd
<1>17. ASSUME NEW n \in Names, Boot(n) PROVE TypeOK'
  BY <1>17 DEF Boot
<1>18. ASSUME NEW n \in Names, Close(n) PROVE TypeOK'
  BY <1>18 DEF Close
<1>19. ASSUME NEW n \in Names, Stop(n) PROVE TypeOK'
  BY <1>19 DEF Stop
<1>20. ASSUME NEW n \in Names, Delete(n) PROVE TypeOK'
  BY <1>20 DEF Delete
<1> QED BY <1>1, <1>2, <1>3, <1>4, <1>5, <1>6, <1>7, <1>8, <1>9, <1>10, <1>11,
  <1>12, <1>13, <1>14, <1>15, <1>16, <1>17, <1>18, <1>19, <1>20 DEF Next,
  CreateStep

(* A config is there from WriteConfig to Delete. *)
LEMMA PlacesPreserved ==
  ASSUME TypeOK, ConfigsOfPlaces, Next
  PROVE  ConfigsOfPlaces'
<1> USE PortAssumption DEF TypeOK, ConfigsOfPlaces, Created, Qemu, Chosen,
  Configs, At, Goto
<1>1. ASSUME NEW n \in Names, Create(n) PROVE ConfigsOfPlaces'
  BY <1>1 DEF Create
<1>2. ASSUME NEW n \in Names, LockPorts(n) PROVE ConfigsOfPlaces'
  BY <1>2 DEF LockPorts
<1>3. ASSUME NEW n \in Names, ScanOne(n) PROVE ConfigsOfPlaces'
  BY <1>3 DEF ScanOne
<1>4. ASSUME NEW n \in Names, ScanDone(n) PROVE ConfigsOfPlaces'
  BY <1>4 DEF ScanDone
<1>5. ASSUME NEW n \in Names, BindForward(n) PROVE ConfigsOfPlaces'
  BY <1>5 DEF BindForward
<1>6. ASSUME NEW n \in Names, ForwardUnavailable(n) PROVE ConfigsOfPlaces'
  BY <1>6 DEF ForwardUnavailable, Abandon
<1>7. ASSUME NEW n \in Names, BindSsh(n) PROVE ConfigsOfPlaces'
  BY <1>7 DEF BindSsh
<1>8. ASSUME NEW n \in Names, NoPortLeft(n) PROVE ConfigsOfPlaces'
  BY <1>8 DEF NoPortLeft, Abandon
<1>9. ASSUME NEW n \in Names, ValidateForwards(n) PROVE ConfigsOfPlaces'
  BY <1>9 DEF ValidateForwards, Abandon
<1>10. ASSUME NEW n \in Names, EnsureDir(n) PROVE ConfigsOfPlaces'
  BY <1>10 DEF EnsureDir
<1>11. ASSUME NEW n \in Names, WriteConfig(n) PROVE ConfigsOfPlaces'
  <2>1. [ssh |-> ssh[n], fwd |-> want[n]] \in Configs /\ n \in dirs
    BY <1>11 DEF WriteConfig, Configs
  <2>2. cfg'[n] # None /\ \A m \in Names \ {n} : cfg'[m] = cfg[m]
    BY <1>11, <2>1, PortAssumption DEF WriteConfig
  <2> QED BY <1>11, <2>1, <2>2 DEF WriteConfig
<1>12. ASSUME NEW n \in Names, DropReservation(n) PROVE ConfigsOfPlaces'
  BY <1>12 DEF DropReservation
<1>13. ASSUME NEW n \in Names, CreateFails(n) PROVE ConfigsOfPlaces'
  BY <1>13 DEF CreateFails, Abandon
<1>14. ASSUME NEW n \in Names, Start(n) PROVE ConfigsOfPlaces'
  BY <1>14 DEF Start
<1>15. ASSUME NEW n \in Names, WritePid(n) PROVE ConfigsOfPlaces'
  BY <1>15 DEF WritePid
<1>16. ASSUME NEW n \in Names, BindHostfwd(n) PROVE ConfigsOfPlaces'
  BY <1>16 DEF BindHostfwd
<1>17. ASSUME NEW n \in Names, Boot(n) PROVE ConfigsOfPlaces'
  BY <1>17 DEF Boot
<1>18. ASSUME NEW n \in Names, Close(n) PROVE ConfigsOfPlaces'
  BY <1>18 DEF Close
<1>19. ASSUME NEW n \in Names, Stop(n) PROVE ConfigsOfPlaces'
  BY <1>19 DEF Stop
<1>20. ASSUME NEW n \in Names, Delete(n) PROVE ConfigsOfPlaces'
  BY <1>20 DEF Delete
<1> QED BY <1>1, <1>2, <1>3, <1>4, <1>5, <1>6, <1>7, <1>8, <1>9, <1>10, <1>11,
  <1>12, <1>13, <1>14, <1>15, <1>16, <1>17, <1>18, <1>19, <1>20 DEF Next,
  CreateStep

(* A scan has found the ports of each config it is through with, or it is gone. *)
LEMMA ScanPreserved ==
  ASSUME TypeOK, ConfigsOfPlaces, ScanFound, Next
  PROVE  ScanFound'
<1> USE PortAssumption DEF TypeOK, ConfigsOfPlaces, ScanFound, Reserving,
  Created, Qemu, At, Goto
<1>1. ASSUME NEW n \in Names, Create(n) PROVE ScanFound'
  BY <1>1 DEF Create
<1>2. ASSUME NEW n \in Names, LockPorts(n) PROVE ScanFound'
  <2>1. /\ pc[n] = "lock" /\ pc'[n] = "scan" /\ plock = None /\ plock' = n
        /\ \A k \in Names \ {n} : /\ pc'[k] = pc[k]
                                 /\ todo'[k] = todo[k]
                                 /\ before'[k] = before[k]
        /\ todo'[n] = dirs
        /\ before'[n] = {m \in Names : cfg[m] # None}
        /\ UNCHANGED <<bound, want, occupied, cfg>>
    BY <1>2 DEF LockPorts
  <2>2. bound[n] = 0 /\ cfg[n] = None
    BY <2>1
  <2> QED BY <2>1, <2>2
<1>3. ASSUME NEW n \in Names, ScanOne(n) PROVE ScanFound'
  BY <1>3 DEF ScanOne
<1>4. ASSUME NEW n \in Names, ScanDone(n) PROVE ScanFound'
  BY <1>4 DEF ScanDone
<1>5. ASSUME NEW n \in Names, BindForward(n) PROVE ScanFound'
  <2>1. /\ pc[n] = "bind" /\ bound[n] < Len(want[n])
        /\ want[n][bound[n] + 1] \notin occupied[n]
        /\ bound'[n] = bound[n] + 1
        /\ \A k \in Names \ {n} : bound'[k] = bound[k]
        /\ UNCHANGED <<plock, pc, want, todo, occupied, before, cfg>>
    BY <1>5 DEF BindForward, Forward
  <2>2. bound[n] \in Nat /\ Len(want[n]) \in Nat
    BY RequestPorts
  <2>3. \A i \in 1..bound'[n] : want[n][i] \notin occupied[n]
    <3> TAKE i \in 1..bound'[n]
    <3> i \in 1..bound[n] \/ i = bound[n] + 1
      BY <2>1, <2>2
    <3> QED BY <2>1
  <2> QED BY <2>1, <2>2, <2>3
<1>6. ASSUME NEW n \in Names, ForwardUnavailable(n) PROVE ScanFound'
  BY <1>6 DEF ForwardUnavailable, Abandon
<1>7. ASSUME NEW n \in Names, BindSsh(n) PROVE ScanFound'
  BY <1>7 DEF BindSsh
<1>8. ASSUME NEW n \in Names, NoPortLeft(n) PROVE ScanFound'
  BY <1>8 DEF NoPortLeft, Abandon
<1>9. ASSUME NEW n \in Names, ValidateForwards(n) PROVE ScanFound'
  BY <1>9 DEF ValidateForwards, Abandon
<1>10. ASSUME NEW n \in Names, EnsureDir(n) PROVE ScanFound'
  BY <1>10 DEF EnsureDir
<1>11. ASSUME NEW n \in Names, WriteConfig(n) PROVE ScanFound'
  <2> cfg[n] = None
    BY <1>11 DEF WriteConfig
  <2> \A k \in Names \ {n} : cfg'[k] = cfg[k]
    BY <1>11 DEF WriteConfig
  <2>1. \A k \in Names : \A m \in before[k] : m # n /\ cfg'[m] = cfg[m]
    OBVIOUS
  <2>2. UNCHANGED <<plock, bound, want, before, todo, occupied>>
    BY <1>11 DEF WriteConfig
  <2>3. pc[n] = "write" /\ pc'[n] = "drop" /\ \A k \in Names \ {n} : pc'[k] = pc[k]
    BY <1>11 DEF WriteConfig
  <2> QED BY <2>1, <2>2, <2>3
<1>12. ASSUME NEW n \in Names, DropReservation(n) PROVE ScanFound'
  BY <1>12 DEF DropReservation
<1>13. ASSUME NEW n \in Names, CreateFails(n) PROVE ScanFound'
  BY <1>13 DEF CreateFails, Abandon
<1>14. ASSUME NEW n \in Names, Start(n) PROVE ScanFound'
  BY <1>14 DEF Start
<1>15. ASSUME NEW n \in Names, WritePid(n) PROVE ScanFound'
  BY <1>15 DEF WritePid
<1>16. ASSUME NEW n \in Names, BindHostfwd(n) PROVE ScanFound'
  BY <1>16 DEF BindHostfwd
<1>17. ASSUME NEW n \in Names, Boot(n) PROVE ScanFound'
  BY <1>17 DEF Boot
<1>18. ASSUME NEW n \in Names, Close(n) PROVE ScanFound'
  BY <1>18 DEF Close
<1>19. ASSUME NEW n \in Names, Stop(n) PROVE ScanFound'
  BY <1>19 DEF Stop
<1>20. ASSUME NEW n \in Names, Delete(n) PROVE ScanFound'
  BY <1>20 DEF Delete
<1> QED BY <1>1, <1>2, <1>3, <1>4, <1>5, <1>6, <1>7, <1>8, <1>9, <1>10, <1>11,
  <1>12, <1>13, <1>14, <1>15, <1>16, <1>17, <1>18, <1>19, <1>20 DEF Next,
  CreateStep

(* The listeners of two names never meet. *)
LEMMA ListeningPreserved ==
  ASSUME TypeOK, ConfigsOfPlaces, ScanFound, Listening, Next
  PROVE  Listening'
<1> USE PortAssumption DEF TypeOK, ConfigsOfPlaces, ScanFound, Listening,
  Chosen, Created, Qemu, At, Goto
<1>1. ASSUME NEW n \in Names, Create(n) PROVE Listening'
  <2>1. pc[n] = "absent" /\ pc'[n] = "lock" /\ \A k \in Names \ {n} :
          pc'[k] = pc[k] /\ want'[k] = want[k]
    BY <1>1 DEF Create
  <2>2. bound[n] = 0
    BY <2>1
  <2> QED BY <1>1, <2>1, <2>2 DEF Create, Reserved
<1>2. ASSUME NEW n \in Names, LockPorts(n) PROVE Listening'
  BY <1>2 DEF LockPorts, Reserved
<1>3. ASSUME NEW n \in Names, ScanOne(n) PROVE Listening'
  BY <1>3 DEF ScanOne, Reserved
<1>4. ASSUME NEW n \in Names, ScanDone(n) PROVE Listening'
  BY <1>4 DEF ScanDone, Reserved
<1>5. ASSUME NEW n \in Names, BindForward(n) PROVE Listening'
  <2>1. /\ pc[n] = "bind" /\ bound[n] < Len(want[n])
        /\ bound'[n] = bound[n] + 1
        /\ \A k \in Names \ {n} : /\ bound'[k] = bound[k]
                                 /\ listening'[k] = listening[k]
        /\ UNCHANGED <<pc, want, ssh, cfg>>
    BY <1>5 DEF BindForward
  <2>2. PICK p \in (IF Forward(n) = 0 THEN Ephemeral ELSE {Forward(n)}) \ Used :
          listening'[n] = listening[n] \cup {p}
    BY <1>5 DEF BindForward
  <2>3. \A k \in Names : p \notin listening[k]
    BY <2>2 DEF Used
  <2>4. Forward(n) # 0 => Forward(n) \in listening'[n]
    BY <2>2
  <2>5. \A i \in 1..bound'[n] : want[n][i] # 0 => want[n][i] \in listening'[n]
    <3> TAKE i \in 1..bound'[n]
    <3> i \in 1..bound[n] \/ i = bound[n] + 1
      BY <2>1
    <3> QED BY <2>2, <2>4 DEF Forward
  <2>6. \A k, m \in Names : k # m => listening'[k] \cap listening'[m] = {}
    <3> SUFFICES ASSUME NEW k \in Names, NEW m \in Names, k # m
                 PROVE  listening'[k] \cap listening'[m] = {}
      OBVIOUS
    <3>1. listening[k] \cap listening[m] = {}
      OBVIOUS
    <3>2. /\ listening'[k] = listening[k] \/ k = n
          /\ listening'[m] = listening[m] \/ m = n
      BY <2>1
    <3> QED BY <2>2, <2>3, <3>1, <3>2
  <2>7. \A k \in Names : Reserved(k)' = Reserved(k)
    BY <2>1 DEF Reserved
  <2> QED BY <2>1, <2>5, <2>6, <2>7
<1>6. ASSUME NEW n \in Names, ForwardUnavailable(n) PROVE Listening'
  BY <1>6 DEF ForwardUnavailable, Abandon, Reserved
<1>7. ASSUME NEW n \in Names, BindSsh(n) PROVE Listening'
  <2>1. /\ pc[n] = "bind" /\ pc'[n] = "validate" /\ bound[n] = Len(want[n])
        /\ bound'[n] = 0
        /\ \A k \in Names \ {n} : /\ bound'[k] = bound[k] /\ ssh'[k] = ssh[k]
                                 /\ listening'[k] = listening[k]
                                 /\ pc'[k] = pc[k]
        /\ UNCHANGED <<want, cfg>>
    BY <1>7 DEF BindSsh
  <2>2. PICK p \in Ephemeral \ Used :
          ssh'[n] = p /\ listening'[n] = listening[n] \cup {p}
    BY <1>7 DEF BindSsh
  <2>3. \A k \in Names : p \notin listening[k]
    BY <2>2 DEF Used
  <2>4. ToSet(want[n]) \ {0} \subseteq listening[n]
    <3> SUFFICES ASSUME NEW x \in ToSet(want[n]), x # 0 PROVE x \in listening[n]
      OBVIOUS
    <3> PICK i \in 1..Len(want[n]) : x = want[n][i]
      BY RequestPorts
    <3> QED BY <2>1
  <2>5. Reserved(n)' = {p} \cup ToSet(want[n])
    BY <2>1, <2>2 DEF Reserved
  <2>6. \A k \in Names \ {n} : Reserved(k)' = Reserved(k)
    BY <2>1 DEF Reserved
  <2>7. \A k, m \in Names : k # m => listening'[k] \cap listening'[m] = {}
    <3> SUFFICES ASSUME NEW k \in Names, NEW m \in Names, k # m
                 PROVE  listening'[k] \cap listening'[m] = {}
      OBVIOUS
    <3>1. listening[k] \cap listening[m] = {}
      OBVIOUS
    <3>2. /\ listening'[k] = listening[k] \/ k = n
          /\ listening'[m] = listening[m] \/ m = n
      BY <2>1
    <3> QED BY <2>2, <2>3, <3>1, <3>2
  <2>8. Reserved(n)' \ {0} \subseteq listening'[n]
    BY <2>2, <2>4, <2>5
  <2>9. \A k \in Names \ {n} : pc'[k] \in Chosen =>
          Reserved(k)' \ {0} \subseteq listening'[k]
    BY <2>1, <2>6
  <2>10. \A k \in Names : \A i \in 1..bound'[k] :
           want'[k][i] # 0 => want'[k][i] \in listening'[k]
    <3> TAKE k \in Names
    <3>1. CASE k = n
      BY <2>1, <3>1
    <3>2. CASE k # n
      BY <2>1, <3>2
    <3> QED BY <3>1, <3>2
  <2> QED BY <2>7, <2>8, <2>9, <2>10
<1>8. ASSUME NEW n \in Names, NoPortLeft(n) PROVE Listening'
  BY <1>8 DEF NoPortLeft, Abandon, Reserved
<1>9. ASSUME NEW n \in Names, ValidateForwards(n) PROVE Listening'
  <2>1. CASE Abandon(n)
    BY <2>1 DEF Abandon, Reserved
  <2>2. CASE Goto(n, "mkdir") /\ UNCHANGED <<want, bound, ssh, listening, cfg>>
    BY <1>9, <2>2 DEF ValidateForwards, Reserved
  <2> QED BY <1>9, <2>1, <2>2 DEF ValidateForwards
<1>10. ASSUME NEW n \in Names, EnsureDir(n) PROVE Listening'
  BY <1>10 DEF EnsureDir, Reserved
<1>11. ASSUME NEW n \in Names, WriteConfig(n) PROVE Listening'
  <2>1. /\ pc[n] = "write" /\ pc'[n] = "drop"
        /\ cfg'[n] = [ssh |-> ssh[n], fwd |-> want[n]]
        /\ \A k \in Names \ {n} : pc'[k] = pc[k] /\ cfg'[k] = cfg[k]
        /\ UNCHANGED <<bound, want, ssh, listening>>
    BY <1>11 DEF WriteConfig
  <2>2. Reserved(n)' = Reserved(n)
    BY <1>11, <2>1, ReservedOnWrite DEF Reserved
  <2>3. \A k \in Names \ {n} : Reserved(k)' = Reserved(k)
    BY <2>1 DEF Reserved
  <2> QED BY <2>1, <2>2, <2>3
<1>12. ASSUME NEW n \in Names, DropReservation(n) PROVE Listening'
  <2>1. /\ pc[n] = "drop" /\ pc'[n] = "stopped" /\ listening'[n] = {}
        /\ \A k \in Names \ {n} : /\ pc'[k] = pc[k]
                                 /\ want'[k] = want[k]
                                 /\ ssh'[k] = ssh[k]
                                 /\ listening'[k] = listening[k]
        /\ UNCHANGED <<bound, cfg>>
    BY <1>12 DEF DropReservation
  <2>2. bound[n] = 0
    BY <2>1
  <2>3. \A k \in Names : listening'[k] \subseteq listening[k]
    BY <2>1
  <2>4. \A k \in Names \ {n} : Reserved(k)' = Reserved(k)
    BY <2>1 DEF Reserved
  <2>5. \A k, m \in Names : k # m => listening'[k] \cap listening'[m] = {}
    BY <2>3
  <2> QED BY <2>1, <2>2, <2>4, <2>5
<1>13. ASSUME NEW n \in Names, CreateFails(n) PROVE Listening'
  BY <1>13 DEF CreateFails, Abandon, Reserved
<1>14. ASSUME NEW n \in Names, Start(n) PROVE Listening'
  BY <1>14 DEF Start, Reserved
<1>15. ASSUME NEW n \in Names, WritePid(n) PROVE Listening'
  BY <1>15 DEF WritePid, Reserved
<1>16. ASSUME NEW n \in Names, BindHostfwd(n) PROVE Listening'
  <2>1. /\ pc[n] = "boot"
        /\ \A k \in Names \ {n} : listening'[k] = listening[k]
        /\ UNCHANGED <<pc, bound, cfg, want, ssh>>
    BY <1>16 DEF BindHostfwd
  <2>2. PICK p \in PortsOf(cfg[n]) \ ({0} \cup Used) :
          listening'[n] = listening[n] \cup {p}
    BY <1>16 DEF BindHostfwd
  <2>3. \A k \in Names : p \notin listening[k]
    BY <2>2 DEF Used
  <2>4. \A k \in Names : Reserved(k)' = Reserved(k)
    BY <2>1 DEF Reserved
  <2>5. \A k, m \in Names : k # m => listening'[k] \cap listening'[m] = {}
    <3> SUFFICES ASSUME NEW k \in Names, NEW m \in Names, k # m
                 PROVE  listening'[k] \cap listening'[m] = {}
      OBVIOUS
    <3>1. listening[k] \cap listening[m] = {}
      OBVIOUS
    <3>2. /\ listening'[k] = listening[k] \/ k = n
          /\ listening'[m] = listening[m] \/ m = n
      BY <2>1
    <3> QED BY <2>2, <2>3, <3>1, <3>2
  <2>6. \A k \in Names : listening[k] \subseteq listening'[k]
    BY <2>1, <2>2
  <2>7. bound[n] = 0
    BY <2>1
  <2> QED BY <2>1, <2>4, <2>5, <2>6, <2>7
<1>17. ASSUME NEW n \in Names, Boot(n) PROVE Listening'
  BY <1>17 DEF Boot, Reserved
<1>18. ASSUME NEW n \in Names, Close(n) PROVE Listening'
  <2>1. /\ pc[n] \in Qemu /\ pc'[n] = "closing" /\ listening'[n] = {}
        /\ \A k \in Names \ {n} : /\ pc'[k] = pc[k]
                                 /\ listening'[k] = listening[k]
        /\ UNCHANGED <<bound, cfg, want, ssh>>
    BY <1>18 DEF Close
  <2>2. bound[n] = 0
    BY <2>1
  <2>3. \A k \in Names : listening'[k] \subseteq listening[k]
    BY <2>1
  <2>4. \A k \in Names \ {n} : Reserved(k)' = Reserved(k)
    BY <2>1 DEF Reserved
  <2>5. \A k, m \in Names : k # m => listening'[k] \cap listening'[m] = {}
    BY <2>3
  <2>6. \A k \in Names \ {n} : pc'[k] \in Chosen =>
          Reserved(k)' \ {0} \subseteq listening'[k]
    BY <2>1, <2>4
  <2>7. \A k \in Names : \A i \in 1..bound'[k] :
          want'[k][i] # 0 => want'[k][i] \in listening'[k]
    BY <2>1, <2>2
  <2> QED BY <2>1, <2>5, <2>6, <2>7
<1>19. ASSUME NEW n \in Names, Stop(n) PROVE Listening'
  <2>1. /\ pc[n] \in Qemu /\ pc'[n] = "stopped" /\ listening'[n] = {}
        /\ \A k \in Names \ {n} : /\ pc'[k] = pc[k]
                                 /\ listening'[k] = listening[k]
        /\ UNCHANGED <<bound, cfg, want, ssh>>
    BY <1>19 DEF Stop
  <2>2. bound[n] = 0
    BY <2>1
  <2>3. \A k \in Names : listening'[k] \subseteq listening[k]
    BY <2>1
  <2>4. \A k \in Names \ {n} : Reserved(k)' = Reserved(k)
    BY <2>1 DEF Reserved
  <2>5. \A k, m \in Names : k # m => listening'[k] \cap listening'[m] = {}
    BY <2>3
  <2>6. \A k \in Names \ {n} : pc'[k] \in Chosen =>
          Reserved(k)' \ {0} \subseteq listening'[k]
    BY <2>1, <2>4
  <2>7. \A k \in Names : \A i \in 1..bound'[k] :
          want'[k][i] # 0 => want'[k][i] \in listening'[k]
    BY <2>1, <2>2
  <2> QED BY <2>1, <2>5, <2>6, <2>7
<1>20. ASSUME NEW n \in Names, Delete(n) PROVE Listening'
  BY <1>20 DEF Delete, Reserved
<1> QED BY <1>1, <1>2, <1>3, <1>4, <1>5, <1>6, <1>7, <1>8, <1>9, <1>10, <1>11,
  <1>12, <1>13, <1>14, <1>15, <1>16, <1>17, <1>18, <1>19, <1>20 DEF Next,
  CreateStep

(* The QEMU of a VM holds no port but those in its config. *)
LEMMA OwnPortsPreserved ==
  ASSUME TypeOK, ConfigsOfPlaces, OwnPorts, Next
  PROVE  OwnPorts'
<1> USE PortAssumption DEF TypeOK, ConfigsOfPlaces, OwnPorts, Created, Qemu,
  At, Goto
<1>1. ASSUME NEW n \in Names, Create(n) PROVE OwnPorts'
  BY <1>1 DEF Create
<1>2. ASSUME NEW n \in Names, LockPorts(n) PROVE OwnPorts'
  BY <1>2 DEF LockPorts
<1>3. ASSUME NEW n \in Names, ScanOne(n) PROVE OwnPorts'
  BY <1>3 DEF ScanOne
<1>4. ASSUME NEW n \in Names, ScanDone(n) PROVE OwnPorts'
  BY <1>4 DEF ScanDone
<1>5. ASSUME NEW n \in Names, BindForward(n) PROVE OwnPorts'
  BY <1>5 DEF BindForward
<1>6. ASSUME NEW n \in Names, ForwardUnavailable(n) PROVE OwnPorts'
  BY <1>6 DEF ForwardUnavailable, Abandon
<1>7. ASSUME NEW n \in Names, BindSsh(n) PROVE OwnPorts'
  BY <1>7 DEF BindSsh
<1>8. ASSUME NEW n \in Names, NoPortLeft(n) PROVE OwnPorts'
  BY <1>8 DEF NoPortLeft, Abandon
<1>9. ASSUME NEW n \in Names, ValidateForwards(n) PROVE OwnPorts'
  BY <1>9 DEF ValidateForwards, Abandon
<1>10. ASSUME NEW n \in Names, EnsureDir(n) PROVE OwnPorts'
  BY <1>10 DEF EnsureDir
<1>11. ASSUME NEW n \in Names, WriteConfig(n) PROVE OwnPorts'
  BY <1>11 DEF WriteConfig
<1>12. ASSUME NEW n \in Names, DropReservation(n) PROVE OwnPorts'
  BY <1>12 DEF DropReservation
<1>13. ASSUME NEW n \in Names, CreateFails(n) PROVE OwnPorts'
  BY <1>13 DEF CreateFails, Abandon
<1>14. ASSUME NEW n \in Names, Start(n) PROVE OwnPorts'
  BY <1>14 DEF Start
<1>15. ASSUME NEW n \in Names, WritePid(n) PROVE OwnPorts'
  BY <1>15 DEF WritePid
<1>16. ASSUME NEW n \in Names, BindHostfwd(n) PROVE OwnPorts'
  BY <1>16 DEF BindHostfwd
<1>17. ASSUME NEW n \in Names, Boot(n) PROVE OwnPorts'
  BY <1>17 DEF Boot
<1>18. ASSUME NEW n \in Names, Close(n) PROVE OwnPorts'
  BY <1>18 DEF Close
<1>19. ASSUME NEW n \in Names, Stop(n) PROVE OwnPorts'
  BY <1>19 DEF Stop
<1>20. ASSUME NEW n \in Names, Delete(n) PROVE OwnPorts'
  BY <1>20 DEF Delete
<1> QED BY <1>1, <1>2, <1>3, <1>4, <1>5, <1>6, <1>7, <1>8, <1>9, <1>10, <1>11,
  <1>12, <1>13, <1>14, <1>15, <1>16, <1>17, <1>18, <1>19, <1>20 DEF Next,
  CreateStep

(* Between validation and the write the choice does not change. *)
LEMMA ValidatedPreserved ==
  ASSUME TypeOK, ConfigsOfPlaces, Validated, Next
  PROVE  Validated'
<1> USE PortAssumption DEF TypeOK, Validated, At, Goto
<1>1. ASSUME NEW n \in Names, Create(n) PROVE Validated'
  BY <1>1 DEF Create
<1>2. ASSUME NEW n \in Names, LockPorts(n) PROVE Validated'
  BY <1>2 DEF LockPorts
<1>3. ASSUME NEW n \in Names, ScanOne(n) PROVE Validated'
  BY <1>3 DEF ScanOne
<1>4. ASSUME NEW n \in Names, ScanDone(n) PROVE Validated'
  BY <1>4 DEF ScanDone
<1>5. ASSUME NEW n \in Names, BindForward(n) PROVE Validated'
  BY <1>5 DEF BindForward
<1>6. ASSUME NEW n \in Names, ForwardUnavailable(n) PROVE Validated'
  BY <1>6 DEF ForwardUnavailable, Abandon
<1>7. ASSUME NEW n \in Names, BindSsh(n) PROVE Validated'
  BY <1>7 DEF BindSsh
<1>8. ASSUME NEW n \in Names, NoPortLeft(n) PROVE Validated'
  BY <1>8 DEF NoPortLeft, Abandon
<1>9. ASSUME NEW n \in Names, ValidateForwards(n) PROVE Validated'
  BY <1>9 DEF ValidateForwards, Abandon
<1>10. ASSUME NEW n \in Names, EnsureDir(n) PROVE Validated'
  BY <1>10 DEF EnsureDir
<1>11. ASSUME NEW n \in Names, WriteConfig(n) PROVE Validated'
  BY <1>11 DEF WriteConfig
<1>12. ASSUME NEW n \in Names, DropReservation(n) PROVE Validated'
  BY <1>12 DEF DropReservation
<1>13. ASSUME NEW n \in Names, CreateFails(n) PROVE Validated'
  BY <1>13 DEF CreateFails, Abandon
<1>14. ASSUME NEW n \in Names, Start(n) PROVE Validated'
  BY <1>14 DEF Start
<1>15. ASSUME NEW n \in Names, WritePid(n) PROVE Validated'
  BY <1>15 DEF WritePid
<1>16. ASSUME NEW n \in Names, BindHostfwd(n) PROVE Validated'
  BY <1>16 DEF BindHostfwd
<1>17. ASSUME NEW n \in Names, Boot(n) PROVE Validated'
  BY <1>17 DEF Boot
<1>18. ASSUME NEW n \in Names, Close(n) PROVE Validated'
  BY <1>18 DEF Close
<1>19. ASSUME NEW n \in Names, Stop(n) PROVE Validated'
  BY <1>19 DEF Stop
<1>20. ASSUME NEW n \in Names, Delete(n) PROVE Validated'
  BY <1>20 DEF Delete
<1> QED BY <1>1, <1>2, <1>3, <1>4, <1>5, <1>6, <1>7, <1>8, <1>9, <1>10, <1>11,
  <1>12, <1>13, <1>14, <1>15, <1>16, <1>17, <1>18, <1>19, <1>20 DEF Next,
  CreateStep

(* What is bound is not in a config the scan found. *)
LEMMA TakenPreserved ==
  ASSUME TypeOK, ConfigsOfPlaces, ScanFound, NeverTaken, Next
  PROVE  NeverTaken'
<1> USE DEF TypeOK, ConfigsOfPlaces, ScanFound, NeverTaken, Created, Qemu,
  Chosen, Reserving, At, Goto
<1>1. ASSUME NEW n \in Names, BindSsh(n) PROVE NeverTaken'
  <2>1. /\ pc[n] = "bind" /\ pc'[n] = "validate" /\ bound[n] = Len(want[n])
        /\ \A k \in Names \ {n} : ssh'[k] = ssh[k] /\ pc'[k] = pc[k]
        /\ UNCHANGED <<want, cfg, before>>
    BY <1>1 DEF BindSsh
  <2>2. ssh'[n] \notin occupied[n]
    BY <1>1 DEF BindSsh
  <2>3. ToSet(want[n]) \cap occupied[n] = {}
    <3> SUFFICES ASSUME NEW x \in ToSet(want[n]) PROVE x \notin occupied[n]
      OBVIOUS
    <3> want[n] \in Requests \cup {<<>>}
      OBVIOUS
    <3> PICK i \in 1..Len(want[n]) : x = want[n][i]
      BY RequestPorts
    <3> QED BY <2>1
  <2>4. Reserved(n)' = {ssh'[n]} \cup ToSet(want[n])
    BY <2>1 DEF Reserved
  <2>5. \A k \in Names \ {n} : Reserved(k)' = Reserved(k)
    BY <2>1 DEF Reserved
  <2>6. \A m \in before[n] : Reserved(n)' \cap PortsOf(cfg[m]) = {}
    BY <2>1, <2>2, <2>3, <2>4
  <2>7. \A k \in Names \ {n} : \A m \in before[k] :
          Reserved(k)' \cap PortsOf(cfg[m]) = {}
    BY <2>5
  <2> QED BY <2>1, <2>6, <2>7
<1>2. ASSUME NEW n \in Names, LockPorts(n) PROVE NeverTaken'
  <2>1. Reserved(n)' = {}
    BY ZenonT(30), <1>2 DEF LockPorts, Reserved
  <2>2. \A k \in Names \ {n} : before'[k] = before[k] /\ Reserved(k)' = Reserved(k)
    BY <1>2 DEF LockPorts, Reserved
  <2>3. cfg' = cfg
    BY <1>2 DEF LockPorts
  <2> QED BY <2>1, <2>2, <2>3
<1>3. CASE ~\E n \in Names : BindSsh(n) \/ LockPorts(n)
  <2>1. \A k \in Names : Reserved(k)' \subseteq Reserved(k)
    BY <1>3, ReservedShrinks
  <2>2. \A k \in Names : \A m \in before'[k] :
          m \in before[k] /\ cfg'[m] = cfg[m]
    <3> DEFINE Kept == \A k \in Names : \A m \in before'[k] :
                     m \in before[k] /\ cfg'[m] = cfg[m]
    <3>1. ASSUME NEW n \in Names, Create(n) PROVE Kept
      BY <3>1 DEF Create
    <3>2. ASSUME NEW n \in Names, ScanOne(n) PROVE Kept
      BY <3>2 DEF ScanOne
    <3>3. ASSUME NEW n \in Names, ScanDone(n) PROVE Kept
      BY <3>3 DEF ScanDone
    <3>4. ASSUME NEW n \in Names, BindForward(n) PROVE Kept
      BY <3>4 DEF BindForward
    <3>5. ASSUME NEW n \in Names, ForwardUnavailable(n) PROVE Kept
      BY <3>5 DEF ForwardUnavailable, Abandon
    <3>6. ASSUME NEW n \in Names, NoPortLeft(n) PROVE Kept
      BY <3>6 DEF NoPortLeft, Abandon
    <3>7. ASSUME NEW n \in Names, ValidateForwards(n) PROVE Kept
      <4>1. CASE Abandon(n)
        BY <4>1 DEF Abandon
      <4>2. CASE UNCHANGED <<cfg, before>>
        BY <4>2
      <4> QED BY <3>7, <4>1, <4>2 DEF ValidateForwards
    <3>8. ASSUME NEW n \in Names, EnsureDir(n) PROVE Kept
      <4>1. before' = before /\ cfg' = cfg
        BY <3>8 DEF EnsureDir
      <4> QED BY <4>1
    <3>9. ASSUME NEW n \in Names, WriteConfig(n) PROVE Kept
      BY ZenonT(30), <3>9 DEF WriteConfig
    <3>10. ASSUME NEW n \in Names, DropReservation(n) PROVE Kept
      BY <3>10 DEF DropReservation
    <3>11. ASSUME NEW n \in Names, CreateFails(n) PROVE Kept
      BY <3>11 DEF CreateFails, Abandon
    <3>12. ASSUME NEW n \in Names, Start(n) PROVE Kept
      BY <3>12 DEF Start
    <3>13. ASSUME NEW n \in Names, WritePid(n) PROVE Kept
      BY <3>13 DEF WritePid
    <3>14. ASSUME NEW n \in Names, BindHostfwd(n) PROVE Kept
      BY <3>14 DEF BindHostfwd
    <3>15. ASSUME NEW n \in Names, Boot(n) PROVE Kept
      BY <3>15 DEF Boot
    <3>16. ASSUME NEW n \in Names, Close(n) PROVE Kept
      BY <3>16 DEF Close
    <3>17. ASSUME NEW n \in Names, Stop(n) PROVE Kept
      BY <3>17 DEF Stop
    <3>18. ASSUME NEW n \in Names, Delete(n) PROVE Kept
      BY <3>18 DEF Delete
    <3> QED BY <1>3, <3>1, <3>2, <3>3, <3>4, <3>5, <3>6, <3>7, <3>8, <3>9,
      <3>10, <3>11, <3>12, <3>13, <3>14, <3>15, <3>16, <3>17, <3>18 DEF Next,
      CreateStep
  <2> QED BY <2>1, <2>2
<1> QED BY <1>1, <1>2, <1>3

(* Only a validated choice is written. *)
LEMMA DistinctPreserved ==
  ASSUME TypeOK, ConfigsOfPlaces, Validated, ForwardsDistinct, Next
  PROVE  ForwardsDistinct'
<1> USE PortAssumption DEF TypeOK, ConfigsOfPlaces, Validated,
  ForwardsDistinct, Created, Qemu, At, Goto
<1>1. ASSUME NEW n \in Names, Create(n) PROVE ForwardsDistinct'
  BY <1>1 DEF Create
<1>2. ASSUME NEW n \in Names, LockPorts(n) PROVE ForwardsDistinct'
  BY <1>2 DEF LockPorts
<1>3. ASSUME NEW n \in Names, ScanOne(n) PROVE ForwardsDistinct'
  BY <1>3 DEF ScanOne
<1>4. ASSUME NEW n \in Names, ScanDone(n) PROVE ForwardsDistinct'
  BY <1>4 DEF ScanDone
<1>5. ASSUME NEW n \in Names, BindForward(n) PROVE ForwardsDistinct'
  BY <1>5 DEF BindForward
<1>6. ASSUME NEW n \in Names, ForwardUnavailable(n) PROVE ForwardsDistinct'
  BY <1>6 DEF ForwardUnavailable, Abandon
<1>7. ASSUME NEW n \in Names, BindSsh(n) PROVE ForwardsDistinct'
  BY <1>7 DEF BindSsh
<1>8. ASSUME NEW n \in Names, NoPortLeft(n) PROVE ForwardsDistinct'
  BY <1>8 DEF NoPortLeft, Abandon
<1>9. ASSUME NEW n \in Names, ValidateForwards(n) PROVE ForwardsDistinct'
  BY <1>9 DEF ValidateForwards, Abandon
<1>10. ASSUME NEW n \in Names, EnsureDir(n) PROVE ForwardsDistinct'
  BY <1>10 DEF EnsureDir
<1>11. ASSUME NEW n \in Names, WriteConfig(n) PROVE ForwardsDistinct'
  BY <1>11 DEF WriteConfig
<1>12. ASSUME NEW n \in Names, DropReservation(n) PROVE ForwardsDistinct'
  BY <1>12 DEF DropReservation
<1>13. ASSUME NEW n \in Names, CreateFails(n) PROVE ForwardsDistinct'
  BY <1>13 DEF CreateFails, Abandon
<1>14. ASSUME NEW n \in Names, Start(n) PROVE ForwardsDistinct'
  BY <1>14 DEF Start
<1>15. ASSUME NEW n \in Names, WritePid(n) PROVE ForwardsDistinct'
  BY <1>15 DEF WritePid
<1>16. ASSUME NEW n \in Names, BindHostfwd(n) PROVE ForwardsDistinct'
  BY <1>16 DEF BindHostfwd
<1>17. ASSUME NEW n \in Names, Boot(n) PROVE ForwardsDistinct'
  BY <1>17 DEF Boot
<1>18. ASSUME NEW n \in Names, Close(n) PROVE ForwardsDistinct'
  BY <1>18 DEF Close
<1>19. ASSUME NEW n \in Names, Stop(n) PROVE ForwardsDistinct'
  BY <1>19 DEF Stop
<1>20. ASSUME NEW n \in Names, Delete(n) PROVE ForwardsDistinct'
  BY <1>20 DEF Delete
<1> QED BY <1>1, <1>2, <1>3, <1>4, <1>5, <1>6, <1>7, <1>8, <1>9, <1>10, <1>11,
  <1>12, <1>13, <1>14, <1>15, <1>16, <1>17, <1>18, <1>19, <1>20 DEF Next,
  CreateStep

(* So does a stuttering step. *)
LEMMA StutterInd == IndInv /\ UNCHANGED vars => IndInv'
<1> SUFFICES ASSUME IndInv, UNCHANGED vars
             PROVE  IndInv'
  OBVIOUS
<1>1. TypeOK' /\ ConfigsOfPlaces'
  BY DEF IndInv, TypeOK, ConfigsOfPlaces, Chosen, Created, Qemu, vars
<1>2. ScanFound'
  BY DEF IndInv, ScanFound, Reserving, vars
<1>3. \A n \in Names : Reserved(n)' = Reserved(n)
  BY DEF Reserved, vars
<1>4. Listening' /\ OwnPorts' /\ Validated'
  BY <1>3 DEF IndInv, Listening, OwnPorts, Validated, Chosen, Qemu, vars
<1>5. NeverTaken' /\ ForwardsDistinct'
  BY <1>3 DEF IndInv, NeverTaken, ForwardsDistinct, vars
<1> QED BY <1>1, <1>2, <1>4, <1>5 DEF IndInv

(* Every step keeps the inductive invariant. *)
LEMMA StepInd == IndInv /\ [Next]_vars => IndInv'
<1>1. IndInv /\ Next => IndInv'
  BY TypePreserved, PlacesPreserved, ScanPreserved, ListeningPreserved,
    OwnPortsPreserved, ValidatedPreserved, TakenPreserved, DistinctPreserved
    DEF IndInv
<1> QED BY <1>1, StutterInd

(* What each step of every reservation has found and holds. *)
THEOREM IndInvariant == Spec => []IndInv
BY InitInd, StepInd, PTL DEF Spec

(* No reservation is left half made when a create has failed. *)
THEOREM TypeCorrect == Spec => []TypeOK
<1>1. IndInv => TypeOK
  BY DEF IndInv
<1> QED BY <1>1, IndInvariant, PTL

(* No VM gets a port of a VM that was there when its reservation began. *)
THEOREM NeverTakenHolds == Spec => []NeverTaken
<1>1. IndInv => NeverTaken
  BY DEF IndInv
<1> QED BY <1>1, IndInvariant, PTL

(* Within one VM every host port is forwarded once. *)
THEOREM ForwardsDistinctHolds == Spec => []ForwardsDistinct
<1>1. IndInv => ForwardsDistinct
  BY DEF IndInv
<1> QED BY <1>1, IndInvariant, PTL

(* Two creates that hold reservations hold different ports. *)
THEOREM ConcurrentlyDistinctHolds == Spec => []ConcurrentlyDistinct
<1>1. IndInv => ConcurrentlyDistinct
  <2> SUFFICES ASSUME IndInv, NEW n \in Names, NEW m \in Names, n # m,
                      pc[n] \in Chosen, pc[m] \in Chosen
               PROVE  Reserved(n) \cap Reserved(m) \subseteq {0}
    BY DEF ConcurrentlyDistinct, Chosen
  <2>1. /\ Reserved(n) \ {0} \subseteq listening[n]
        /\ Reserved(m) \ {0} \subseteq listening[m]
        /\ listening[n] \cap listening[m] = {}
    BY DEF IndInv, Listening
  <2> QED BY <2>1
<1> QED BY <1>1, IndInvariant, PTL
=============================================================================
