----------------------------- MODULE Bootloader -----------------------------
(***************************************************************************)
(* What internal/installer/grub.go does to the installed system: which     *)
(* kernels it has, which of them carry the storage drivers, what the boot  *)
(* menu lists and which entry it starts.  Every command may fail; the      *)
(* commands that did are the set bad, and most failures are only logged.   *)
(***************************************************************************)
EXTENDS Naturals, FiniteSets

Kernels == {"stripped", "full"}        \* a cloud kernel, and the standard one
NoKernel == "none"

(* modules: directories of /lib/modules; images: kernels in /boot;         *)
(* complete: kernels with the RAID drivers; initrd: kernels whose initrd   *)
(* carries them; menu: kernels grub.cfg lists; default: the pinned entry;  *)
(* hidden: /boot is a partition that is not mounted.                       *)
System == [modules : SUBSET Kernels, images : SUBSET Kernels, complete : SUBSET Kernels,
           initrd : SUBSET Kernels, menu : SUBSET (Kernels \cup {"live"}),
           default : Kernels \cup {NoKernel}, hidden : BOOLEAN]

Shipped(kernels, hidden) ==
  LET drivers == kernels \cap {"full"} IN
  [modules |-> kernels, images |-> kernels, complete |-> drivers, initrd |-> drivers,
   menu |-> kernels, default |-> NoKernel, hidden |-> hidden]

-----------------------------------------------------------------------------
(* The menu is generated from the kernels of /boot, as far as it is seen.  *)
UpdateGrub(os, failed) ==
  IF failed THEN os ELSE [os EXCEPT !.menu = IF os.hidden THEN {} ELSE os.images]

(* The chain of generators: those of the target, then the live system's,   *)
(* which describes the live system's kernels.                              *)
GenerateMenu(os, bad) ==
  IF "chroot mkconfig" \notin bad THEN UpdateGrub(os, FALSE)
  ELSE IF "host mkconfig" \notin bad THEN [os EXCEPT !.menu = {"live"}] ELSE os

(* The kernel with the most drivers, the newer one of equals.              *)
BestKernel(os) == IF os.modules \cap os.complete # {}
                    THEN IF "full" \in os.modules \cap os.complete THEN "full" ELSE "stripped"
                    ELSE IF "full" \in os.modules THEN "full"
                    ELSE IF os.modules # {} THEN "stripped" ELSE NoKernel

-----------------------------------------------------------------------------
(* Debian and Ubuntu.                                                      *)

AptInstall(os) ==      \* the package's own scripts build the initrd
  [os EXCEPT !.modules = @ \cup {"full"}, !.images = @ \cup {"full"},
             !.complete = @ \cup {"full"}, !.initrd = @ \cup {"full"}]

(* purgeCloudKernelDebian: only next to a kernel that has every driver.    *)
PurgeCloudKernel(os, bad) ==
  LET doomed == os.modules \ os.complete
      left == [os EXCEPT !.images = @ \ doomed,
                         !.modules = IF "rm modules" \in bad THEN @ ELSE @ \ doomed] IN
  IF Cardinality(os.modules) <= 1 \/ doomed = {} \/ doomed = os.modules THEN os
  ELSE UpdateGrub(left, "update-grub after purge" \in bad)

(* findMenuentryIDForKernel: the menu has an entry for the kernel.         *)
HasEntry(os, kernel) == kernel \in os.menu

(* pinDebianDefaultKernel: the entry must be in the menu to be pinned.     *)
PinDefaultKernel(os, bad) ==
  LET best == BestKernel(os)
      once == UpdateGrub(os, "update-grub to pin" \in bad)
      again == UpdateGrub(once, "update-grub for saved" \in bad) IN
  IF best = NoKernel THEN os
  ELSE IF HasEntry(again, best) /\ ~({"grub-set-default", "grubenv"} \subseteq bad)
    THEN [again EXCEPT !.default = best]
    ELSE again

RegenerateInitramfsDebian(os, bad) ==
  IF os.modules \subseteq os.complete \/ "apt-get install" \in bad THEN os
  ELSE PinDefaultKernel(PurgeCloudKernel(AptInstall(os), bad), bad)

-----------------------------------------------------------------------------
(* The RHEL family.                                                        *)

(* ensureKernelModulesInstalled: only behind a RAID controller, and only   *)
(* if no kernel at all has the driver.  With one kernel its own modules    *)
(* are tried first; without a version a newer kernel comes along.          *)
NeedsModules(os, raid) == raid /\ os.modules \cap os.complete = {}
ModulesInstalled(os, raid, bad) ==
  /\ NeedsModules(os, raid)
  /\ ~(Cardinality(os.modules) = 1 /\ {"dnf pinned", "dnf"} \subseteq bad)
  /\ ~(Cardinality(os.modules) # 1 /\ "dnf" \in bad)
WithModules(os, bad) ==
  IF Cardinality(os.modules) = 1 /\ "dnf pinned" \notin bad
    THEN [os EXCEPT !.complete = @ \cup os.modules]
    ELSE [os EXCEPT !.modules = @ \cup {"full"}, !.images = @ \cup {"full"},
                    !.complete = @ \cup {"full"}, !.menu = @ \cup {"full"}]

(* regenerateInitramfsRHEL: dracut, then mkinitrd, for every kernel.       *)
RebuildInitrds(os, bad) ==
  IF {"dracut", "mkinitrd"} \subseteq bad THEN os
  ELSE [os EXCEPT !.initrd = os.modules \cap os.complete]

(* setDefaultBootKernelToDriverComplete: grubby, else a grubenv that names *)
(* a version, which is no entry of the menu.                               *)
SetDefaultKernel(os, bad) ==
  IF BestKernel(os) = NoKernel THEN os
  ELSE [os EXCEPT !.default = IF "grubby" \in bad THEN NoKernel ELSE BestKernel(os)]

AfterInstallRHEL(os, raid, bad) ==
  LET menu == GenerateMenu(os, bad) IN
  IF ModulesInstalled(menu, raid, bad)
    THEN SetDefaultKernel(RebuildInitrds(WithModules(menu, bad), bad), bad)
    ELSE menu

AfterInstallDebian(os, bad) == RegenerateInitramfsDebian(GenerateMenu(os, bad), bad)

-----------------------------------------------------------------------------
(* The entry the loader starts, and whether it can mount the root: behind  *)
(* a RAID controller the kernel and its initrd need the drivers.           *)
Started(os) == IF os.default \in os.menu THEN {os.default} ELSE os.menu
KernelStarts(os, raid) ==
  /\ Started(os) # {}
  /\ \A k \in Started(os) : k \in os.images /\ (raid => k \in os.complete \cap os.initrd)

HostCommands == {"chroot mkconfig", "host mkconfig", "apt-get install", "rm modules",
  "update-grub after purge", "update-grub to pin", "update-grub for saved", "grub-set-default", "grubenv"}
ChrootCommands == {"chroot mkconfig", "host mkconfig", "dnf pinned", "dnf", "dracut", "mkinitrd", "grubby"}

(* The failures that may leave a system that does not start, although the  *)
(* install is reported as a success; every other failure must be harmless. *)
KernelBlame == {{"chroot mkconfig"}, {"apt-get install"}, {"dnf pinned", "dnf"}, {"dracut", "mkinitrd"},
  {"dnf pinned", "grubby"}, {"update-grub after purge", "update-grub to pin", "update-grub for saved"}}
=============================================================================
