---------------------------- MODULE MCInstallerRun ----------------------------
(* InstallerRun on a few machines, on the images and image families that   *)
(* the repository's tests and comments name, and on network plans that     *)
(* validate.go and components.go admit.                                    *)
EXTENDS InstallerRun

Part(role, label) == [role |-> role, label |-> label]
OldOs == [label |-> "distro", kind |-> "gpt", part |-> "old"]
OldMbr == [label |-> "distro", kind |-> "mbr", part |-> "old"]
Ours == [label |-> "metalkit", kind |-> "gpt", part |-> "image"]
OtherDisk == [label |-> "other", kind |-> "gpt", part |-> "elsewhere"]
Pxe == [label |-> "other", kind |-> "no disk", part |-> "elsewhere"]

Machine(uefi, raid, name, activated, nvram) ==
  [uefi |-> uefi, raid |-> raid, disk |-> name, holders |-> activated, entries |-> nvram]
Sda == <<"sda">>
MCHosts == {
  Machine(TRUE, FALSE, Sda, {"mount", "vg"}, {OldOs, Pxe}),
  Machine(TRUE, TRUE, Sda, {"swap", "md"}, {OldMbr, Ours, OtherDisk}),
  Machine(TRUE, FALSE, Sda, {"md", "vg on md"}, {Pxe}),
  Machine(FALSE, TRUE, Sda, {"mount"}, {}),
  Machine(TRUE, FALSE, <<"nvme0n", "1">>, {}, {Pxe})}

Debian == [table |-> "gpt", parts |-> <<Part("root", "none")>>, fs |-> "ext4", esp |-> "typed", espAt |-> "/boot/efi",
           bootAt |-> FALSE, tree |-> "none", fallback |-> TRUE, bios |-> TRUE, loader |-> "host", kernels |-> {"stripped"}]
Noble == [Debian EXCEPT !.parts = <<Part("root", "root"), Part("boot", "boot")>>, !.bootAt = TRUE, !.kernels = {"full"}]
Rocky == [Debian EXCEPT !.parts = <<Part("boot", "none"), Part("root", "none")>>, !.fs = "xfs", !.bootAt = TRUE,
                        !.tree = "flat", !.loader = "chroot"]
OpenEuler == [Debian EXCEPT !.table = "dos", !.esp = "mistyped", !.espAt = "/boot", !.tree = "nested",
                            !.loader = "chroot", !.kernels = {"full"}]
CentOS7 == [Debian EXCEPT !.table = "dos", !.fs = "xfs", !.esp = "none", !.espAt = "none", !.fallback = FALSE,
                          !.kernels = {"full"}]
BiosOnlyGpt == [Debian EXCEPT !.esp = "none", !.espAt = "none", !.fallback = FALSE]
NoFstabEsp == [Debian EXCEPT !.esp = "mistyped", !.espAt = "none", !.fallback = FALSE]
OwnBoot == [CentOS7 EXCEPT !.bootAt = TRUE, !.parts = <<Part("boot", "none"), Part("root", "none")>>]
MCImages == {Debian, Noble, Rocky, OpenEuler, CentOS7, BiosOnlyGpt, NoFstabEsp, OwnBoot}

-----------------------------------------------------------------------------
Port(mac, name, renamed, virtual, link) ==
  [mac |-> mac, name |-> name, renamed |-> renamed, virtual |-> virtual, link |-> link]

(* Kept names; net.ifnames=0 with the BMC's port first; the first port has *)
(* no cable; a name the globs for stale files miss.                        *)
Kept == <<Port("m1", "eno1", "eno1", FALSE, TRUE), Port("m2", "eno2", "eno2", FALSE, TRUE)>>
Renamed == <<Port("m3", "idrac", "eth0", TRUE, TRUE), Port("m1", "eno1", "eth1", FALSE, FALSE), Port("m2", "eno2", "eth2", FALSE, TRUE)>>

(* The renderers components.go offers per family.                          *)
Families == [renderer : {"netplan", "eni"}, rhel : {FALSE}, enforcing : {FALSE}, shipped : {{}}]
  \cup [renderer : {"network-manager", "sysconfig", "netplan"}, rhel : {TRUE}, enforcing : BOOLEAN,
        shipped : {{}, {<<"ifcfg", "eth0">>}, {<<"keyfile", "eno1">>}, {<<"ifcfg", "enp3s0">>, <<"keyfile", "enp3s0">>}}]
  \cup [renderer : {"wicked", "network-manager"}, rhel : {FALSE}, enforcing : {FALSE}, shipped : {{}}]

(* Profile and binding, as validate.go admits them.                        *)
Selectors == {<<"auto">>, <<"mac", "m2">>, <<"name", "eno2">>, <<"name", "m2">>}
Bonds == {<<"m1", "m2">>, <<"m2", "m1">>, <<"eno1", "eno2">>}
Networks == [selector : Selectors, ports : {<<>>}, vlan : BOOLEAN] \cup [selector : {<<"auto">>}, ports : Bonds, vlan : BOOLEAN]

PlanOf(nics, f, n, cloudInit, keys) ==
  [nics |-> nics, selector |-> n.selector, ports |-> n.ports, vlan |-> n.vlan, keys |-> keys, renderer |-> f.renderer,
   rhel |-> f.rhel, enforcing |-> f.enforcing, cloudInit |-> cloudInit, shipped |-> f.shipped]
MCPlans == {PlanOf(nics, f, n, cloudInit, TRUE) :
              nics \in {Kept, Renamed}, f \in Families, n \in Networks, cloudInit \in BOOLEAN}
MCMacs == {"m1", "m2", "m3"}
MCNames == {"eno1", "eno2", "idrac", "eth0", "eth1", "eth2", "enp3s0"}
MCGlobbed == {"eno1", "eno2", "eth0", "eth1", "eth2"}

(* Every machine and image with one plan; every plan on one of each.       *)
UsualPlan == PlanOf(Kept, [renderer |-> "netplan", rhel |-> FALSE, enforcing |-> FALSE, shipped |-> {}],
                    [selector |-> <<"auto">>, ports |-> <<>>, vlan |-> FALSE], TRUE, TRUE)
MCDiskFaultPlans == {UsualPlan}
PlainHost == Machine(FALSE, TRUE, Sda, {"mount"}, {})
MCInstalls == (MCHosts \X MCImages \X {UsualPlan}) \cup ({PlainHost} \X {Debian} \X MCPlans)
=============================================================================
