----------------------------- MODULE HostTools -----------------------------
(***************************************************************************)
(* What hardpass asks of the host: the tools and firmware that doctor,     *)
(* create and start look for, each from a list of its own, and how the     *)
(* acceleration mode of a VM is chosen.                                    *)
(***************************************************************************)

Archs == {"amd64", "arm64"}
Accels == {"auto", "hvf", "kvm", "tcg"}

(* GuestArch::qemu_binary. *)
QemuSystem(arch) ==
  IF arch = "amd64" THEN "qemu-system-x86_64" ELSE "qemu-system-aarch64"

QemuTools == {"qemu-img"} \cup {QemuSystem(a) : a \in Archs}
Tools == QemuTools \cup {"ssh", "ssh-keygen", "brew"}

(* A host: "firmware" is what discover_aarch64_firmware finds, "kvm" whether *)
(* there is a /dev/kvm.                                                      *)
Hosts == [os : {"macos", "linux"}, arch : Archs, tools : SUBSET Tools,
          firmware : BOOLEAN, kvm : BOOLEAN]

Firmware == "aarch64-firmware"

FirmwareMissing(host, arch) ==
  IF arch = "arm64" /\ ~host.firmware THEN {Firmware} ELSE {}

(* Mutant: doctor does not look for ssh-keygen. *)
DoctorWithoutKeygen(host) ==
  /\ {"qemu-img", QemuSystem(host.arch), "ssh"} \subseteq host.tools
  /\ FirmwareMissing(host, host.arch) = {}

(* doctor: nothing is missing for guests of the host's own architecture. *)
DoctorOk(host) ==
  /\ {"qemu-img", QemuSystem(host.arch), "ssh", "ssh-keygen"}
       \subseteq host.tools
  /\ FirmwareMissing(host, host.arch) = {}

(* "warn  kvm": the exit status stays 0. *)
DoctorWarns(host) == host.os = "linux" /\ ~host.kvm

(* collect_create_missing_dependencies. *)
CreateMissing(host, arch) ==
  ({"qemu-img", QemuSystem(arch), "ssh-keygen"} \ host.tools)
    \cup FirmwareMissing(host, arch)

(* collect_start_missing_dependencies: a running VM needs only ssh. *)
StartMissing(host, arch, launch) ==
  ({"ssh"} \ host.tools)
    \cup IF launch THEN ({QemuSystem(arch)} \ host.tools)
                          \cup FirmwareMissing(host, arch)
                   ELSE {}

(* should_offer_brew_install, in a terminal. *)
OffersBrew(host, missing) ==
  /\ host.os = "macos"
  /\ "brew" \in host.tools
  /\ missing \cap (QemuTools \cup {Firmware}) # {}

(* brew install qemu. *)
WithQemu(host) ==
  [host EXCEPT !.tools = @ \cup QemuTools, !.firmware = TRUE]

(* validate_arch_accel_combo: other architectures are emulated. *)
ComboOk(host, arch, accel) == arch = host.arch \/ accel = "tcg"

(* resolve_accel_for_env: whether there is one. *)
AccelResolves(host, accel) ==
  \/ accel = "tcg"
  \/ accel \in {"auto", "hvf"} /\ host.os = "macos"
  \/ accel \in {"auto", "kvm"} /\ host.os = "linux" /\ host.kvm
=============================================================================
