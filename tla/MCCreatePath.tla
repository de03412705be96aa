---------------------------- MODULE MCCreatePath ----------------------------
(* Small instances of CreatePath for TLC: one plain key that two creates     *)
(* share, or a key whose file name has a dot beside one that has none.       *)
EXTENDS CreatePath, TLC

CONSTANTS id, idWork, idPub, idWorkPub

PlainPub  == (id :> idPub)
DottedGen == (id :> idPub) @@ (idWork :> idWorkPub)
DottedPub == (id :> idPub) @@ (idWork :> idPub)

(* A Mac with every tool, and one that lacks ssh-keygen and the firmware; a  *)
(* Linux host without KVM.                                                   *)
Mac == [os |-> "macos", arch |-> "arm64", tools |-> Tools, firmware |-> TRUE,
        kvm |-> FALSE]
Bare == [Mac EXCEPT !.tools = Tools \ {"ssh-keygen"}, !.firmware = FALSE]
Linux == [os |-> "linux", arch |-> "amd64", tools |-> Tools \ {"brew"},
          firmware |-> FALSE, kvm |-> FALSE]
MCMachines == {Mac, Bare, Linux}

Arg(arch, accel, k, o) ==
  [arch |-> arch, accel |-> accel, key |-> k, override |-> Map(o)]

(* One for hardpass's user, with growpart replaced; one with users of its    *)
(* own and a setting inside growpart.                                        *)
MCArgs ==
  {Arg("arm64", "auto", id, [growpart |-> Leaf(<<"off">>)]),
   Arg("amd64", "tcg", id,
       [users |-> Leaf(<<"root", 0>>),
        growpart |-> Map([mode |-> Leaf(<<"off">>)])])}

DottedArgs == {Arg("arm64", "auto", k, <<>>) : k \in {id, idWork}}
DottedMachines == {Mac}
=============================================================================
