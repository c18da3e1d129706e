----------------------------- MODULE DiskInstall -----------------------------
(***************************************************************************)
(* internal/installer: one run of the install pipeline on a machine, and   *)
(* the next one in the same live session if it fails.  The pipeline is a   *)
(* sequential process whose commands may fail: each stage is an action     *)
(* that chooses the set bad of its commands that fail.  A fatal one ends   *)
(* the run, any other is logged and the stage goes on without its effect.  *)
(***************************************************************************)
EXTENDS Bootloader, Sequences

CONSTANTS
  Hosts,                     \* machines, see Host
  Images,                    \* disk images, see Image
  MaxFaults,                 \* bound on the commands that fail, over all runs
  MaxRuns,                   \* bound on the runs
  Nil

ASSUME InstallBounds == MaxFaults \in 0..2 /\ MaxRuns \in Nat \ {0}

(* uefi: the live system has efivars; disk: the target's device name;      *)
(* holders: what the live system activated on it; entries: boot entries.   *)
Holders == {"mount", "swap", "vg", "md", "vg on md"}
Entry == {e \in [label : {"metalkit", "distro", "other"}, kind : {"gpt", "mbr", "no disk"},
                 part : {"old", "image", "new", "elsewhere"}] : e.kind = "no disk" => e.part = "elsewhere"}
Host == [uefi : BOOLEAN, raid : BOOLEAN, disk : {<<"sda">>, <<"nvme0n", "1">>},
         holders : SUBSET Holders, entries : SUBSET Entry]

(* parts: its Linux partitions in order; espAt and bootAt: its fstab;      *)
(* tree: the distribution's loader on its ESP; bios: it has boot code.     *)
Image == [table : {"gpt", "dos"}, parts : Seq([role : {"root", "boot"}, label : {"root", "boot", "none"}]),
          fs : {"ext4", "xfs"}, esp : {"none", "typed", "mistyped"}, espAt : {"none", "/boot", "/boot/efi"},
          bootAt : BOOLEAN, tree : {"none", "flat", "nested"}, fallback : BOOLEAN, bios : BOOLEAN,
          loader : {"host", "chroot"}, kernels : (SUBSET Kernels) \ {{}}]

ASSUME InstallData == Hosts \subseteq Host /\ Images \subseteq Image

VARIABLES
  host, image,               \* chosen once
  run, pc,                   \* the run and its stage
  failures,                  \* history: the commands that failed, per run
  held,                      \* what holds the target's partitions
  seen,                      \* the partitions the kernel shows: none, old, current
  disk,                      \* the target as it is
  esp,                       \* the target's EFI partition
  entries,                   \* NVRAM
  mounts, tracked, leaked,   \* mounted below rootfs, what cleanup knows of, left by earlier runs
  os,                        \* the installed system
  outcome                    \* what was reported

vars == <<host, image, run, pc, failures, held, seen, disk, esp, entries, mounts, tracked, leaked, os, outcome>>
machine == <<host, image, run>>

NoEsp == [part |-> "none", typed |-> FALSE, files |-> {}]
Points == {"/", "/boot", "/boot/efi", "binds", "efivars"}
Nested(a, b) ==            \* a is mounted below b
  \/ b = "/" /\ a # "/"
  \/ a = "/boot/efi" /\ b = "/boot"
  \/ a = "efivars" /\ b = "binds"

InstallTypeOK ==
  /\ host \in Hosts /\ image \in Images
  /\ run \in 1..MaxRuns
  /\ pc \in {"prepare", "release", "wipe", "write", "reread", "esp", "grow", "mount", "seed",
             "grub", "prune", "umount", "succeed", "unwind", "ended"}
  /\ held \in SUBSET Holders
  /\ seen \in {"none", "old", "current"}
  /\ disk \in [table : {"old", "none", "gpt", "dos", "lost"}, data : {"old", "torn", "image"}]
  /\ esp.part \in {"none", "old", "image", "new"} /\ esp.typed \in BOOLEAN
  /\ esp.files \in SUBSET {"metalkit", "distro", "nested", "fallback", "nested fallback"}
  /\ entries \in SUBSET Entry
  /\ {mounts, leaked} \subseteq SUBSET Points /\ tracked \in SUBSET Points
  /\ os = Nil \/ os \in System
  /\ outcome \in {"none", "succeeded", "failed"}

InstallInit ==
  /\ host \in Hosts /\ image \in Images
  /\ run = 1 /\ pc = "prepare" /\ failures = {}
  /\ held = host.holders /\ seen = "old"
  /\ disk = [table |-> "old", data |-> "old"]
  /\ esp = NoEsp /\ entries = host.entries
  /\ mounts = {} /\ tracked = {} /\ leaked = {}
  /\ os = Nil /\ outcome = "none"

-----------------------------------------------------------------------------
(* Failing commands.                                                       *)

(* The sets of commands that may fail: as many as the bound still allows.  *)
Failing(commands) ==
  LET left == MaxFaults - Cardinality(failures) IN
  {{}} \cup (IF left < 1 THEN {} ELSE {{c} : c \in commands})
       \cup (IF left < 2 THEN {} ELSE {{c, d} : c, d \in commands})
Log(bad) == failures' = failures \cup {<<run, c>> : c \in bad}
FailedNow == {f[2] : f \in {g \in failures : g[1] = run}}

(* Run returns an error: its deferred cleanup, if Mount had handed one     *)
(* out, then Reporter.Fail.                                                *)
Abort ==
  IF tracked # {} THEN pc' = "unwind" /\ UNCHANGED outcome
  ELSE pc' = "ended" /\ outcome' = "failed"
Proceed(next) == pc' = next /\ UNCHANGED outcome

-----------------------------------------------------------------------------
(* Before the write.                                                       *)

Prepare(bad) ==
  /\ pc = "prepare"
  /\ Log(bad)
  /\ IF bad = {} THEN Proceed("release") ELSE Abort
  /\ UNCHANGED <<machine, held, seen, disk, esp, entries, mounts, tracked, leaked, os>>

(* releaseDisk: volume groups are looked up by physical volumes whose name *)
(* begins with the disk's, so one on an md array is not found, and stops   *)
(* its array from being stopped.                                           *)
ReleaseCommands == {"umount", "swapoff", "vgchange", "mdadm"}
KeepMounts(bad) ==         \* wrong on purpose: file systems are not unmounted
  {h \in held : \/ h = "mount"
                \/ h = "swap" /\ "swapoff" \in bad
                \/ h = "vg" /\ "vgchange" \in bad
                \/ h = "md" /\ ("mdadm" \in bad \/ "vg on md" \in held)
                \/ h = "vg on md"}
StillHeld(bad) ==
  {h \in held : \/ h = "mount" /\ "umount" \in bad
                \/ h = "swap" /\ "swapoff" \in bad
                \/ h = "vg" /\ "vgchange" \in bad
                \/ h = "md" /\ ("mdadm" \in bad \/ "vg on md" \in held)
                \/ h = "vg on md"}
Release(bad) ==
  /\ held' = StillHeld(bad)
  /\ leaked' = IF "mount" \in held' THEN leaked ELSE {}

PreRelease(bad) ==
  /\ pc = "release"
  /\ Log(bad)
  /\ Release(bad)
  /\ Proceed("wipe")
  /\ UNCHANGED <<machine, seen, disk, esp, entries, mounts, tracked, os>>

(* sgdisk -Z, best-effort; then the image is asked for.                    *)
Wipe(bad) ==
  /\ pc = "wipe"
  /\ Log(bad)
  /\ IF "sgdisk -Z" \in bad THEN UNCHANGED <<disk, esp, seen>>
     ELSE /\ disk' = [disk EXCEPT !.table = "none"]
          /\ esp' = NoEsp
          /\ seen' = IF held = {} THEN "none" ELSE seen
  /\ IF "download" \in bad THEN Abort ELSE Proceed("write")
  /\ UNCHANGED <<machine, held, entries, mounts, tracked, leaked, os>>

-----------------------------------------------------------------------------
(* The write, and what the kernel makes of it.                             *)

ImageEsp ==
  [part |-> IF image.esp = "none" THEN "none" ELSE "image",
   typed |-> image.esp = "typed",
   files |-> (IF image.tree = "flat" THEN {"distro"} ELSE IF image.tree = "nested" THEN {"nested"} ELSE {})
     \cup (IF ~image.fallback THEN {} ELSE IF image.tree = "nested" THEN {"nested fallback"} ELSE {"fallback"})]

WriteImage(bad) ==
  /\ pc = "write"
  /\ Log(bad)
  /\ \/ "spool" \in bad /\ UNCHANGED <<disk, esp, seen>>
     \/ /\ "spool" \notin bad
        /\ seen' = IF seen = "current" THEN "old" ELSE seen
        /\ IF "qemu-img" \in bad
             THEN disk' = [table |-> "lost", data |-> "torn"] /\ esp' = NoEsp
             ELSE disk' = [table |-> image.table, data |-> "image"] /\ esp' = ImageEsp
  /\ IF bad # {} THEN Abort ELSE Proceed("reread")
  /\ UNCHANGED <<machine, held, entries, mounts, tracked, leaked, os>>

(* partprobe, with a release and a second try; blockdev; partx.  While     *)
(* something holds a partition only partx can succeed.                     *)
Reread(bad) ==
  LET probed == held = {} /\ "partprobe" \notin bad
      again == ~probed /\ held' = {} /\ "partprobe again" \notin bad
      blockdev == held' = {} /\ "blockdev" \notin bad
      partx == ~blockdev /\ "partx" \notin bad IN
  /\ pc = "reread"
  /\ Log(bad)
  /\ IF probed THEN UNCHANGED <<held, leaked>> ELSE Release(bad)
  /\ seen' = IF probed \/ again \/ blockdev \/ partx THEN "current" ELSE seen
  /\ Proceed("esp")
  /\ UNCHANGED <<machine, disk, esp, entries, mounts, tracked, os>>

Digits == {"1", "2", "3"}
(* parentDiskOf: trailing digits go, and a p before them.                  *)
ParentDiskOf(name) ==
  LET stem == SubSeq(name, 1, Len(name) - 1) IN
  IF name[Len(name)] \notin Digits THEN name
  ELSE IF stem[Len(stem)] = "p" THEN SubSeq(stem, 1, Len(stem) - 1) ELSE stem

FixOnGPT(bad) ==           \* wrong on purpose: a dos table has no partition types to fix
  /\ esp' = [esp EXCEPT !.typed = @ \/ (disk.table = "gpt" /\ "sfdisk set" \notin bad)]
  /\ UNCHANGED <<disk, seen>>
(* fixESPTypeIfWrong, best-effort; sgdisk -t is of no use on a dos table.  *)
FixEspType(bad) ==
  LET read == {"sfdisk -d", "sfdisk read"} \cap bad = {}
      set == "sfdisk set" \notin bad \/ (disk.table = "gpt" /\ "sgdisk -t" \notin bad) IN
  /\ esp' = [esp EXCEPT !.typed = @ \/ (read /\ set)]
  /\ UNCHANGED <<disk, seen>>

(* No EFI partition is seen: what is left of a GPT is zapped, even the one *)
(* just written, and a dos table becomes a GPT.                            *)
MakeEsp(bad) ==
  LET zapped == disk.table = "gpt" /\ "sgdisk -z" \notin bad
      made == "sgdisk -p" \notin bad /\ "sgdisk -n" \notin bad /\ ~(disk.table = "dos" /\ "sgdisk -g" \in bad)
      visible == held = {} /\ "partprobe esp" \notin bad IN
  /\ disk' = [disk EXCEPT !.table = IF zapped THEN "lost" ELSE IF made THEN "gpt" ELSE @]
  /\ esp' = IF zapped \/ ~made THEN NoEsp
            ELSE IF esp.part = "none" THEN [part |-> "new", typed |-> TRUE, files |-> {}]
            ELSE [esp EXCEPT !.part = "new"]             \* overlooked: it stays the first one
  /\ seen' = IF made /\ visible THEN "current" ELSE seen
  /\ IF made /\ visible /\ "mkfs.fat" \notin bad THEN Proceed("grow") ELSE Abort

EspCommands == {"lsblk", "blkid esp", "sfdisk -d", "sfdisk read", "sfdisk set", "sgdisk -t",
                "sgdisk -z", "sgdisk -p", "sgdisk -g", "sgdisk -n", "partprobe esp", "mkfs.fat"}

(* findESP: a FAT partition among those the kernel shows.                  *)
EspSeen(bad) == seen = "current" /\ esp.part # "none" /\ "blkid esp" \notin bad

(* createESPIfMissing.                                                     *)
CreateEspIfMissing(bad) ==
  LET listed == ParentDiskOf(host.disk) = host.disk /\ "lsblk" \notin bad
      found == EspSeen(bad) IN
  /\ pc = "esp"
  /\ Log(bad)
  /\ CASE ~listed -> Abort /\ UNCHANGED <<disk, esp, seen>>
       [] listed /\ found /\ host.uefi -> FixEspType(bad) /\ Proceed("grow")
       [] listed /\ ~found /\ host.uefi -> MakeEsp(bad)
       [] listed /\ ~host.uefi -> Proceed("grow") /\ UNCHANGED <<disk, esp, seen>>
  /\ UNCHANGED <<machine, held, entries, mounts, tracked, leaked, os>>

-----------------------------------------------------------------------------
(* rootPartitionOf: the first partition labelled as a root, else the last  *)
(* one not labelled as something else, else the last.                      *)
RootPartition ==
  LET parts == image.parts
      labelled == {i \in DOMAIN parts : parts[i].label = "root"}
      plain == {i \in DOMAIN parts : parts[i].label # "boot"} IN
  CHOOSE i \in DOMAIN parts :
    IF labelled # {} THEN i \in labelled /\ \A j \in labelled : i <= j
    ELSE IF plain # {} THEN i \in plain /\ \A j \in plain : j <= i
    ELSE i = Len(parts)
RootFound == image.parts[RootPartition].role = "root"

(* GrowLastPartition.  A kernel that shows no partitions is made to look   *)
(* again once; one that shows the old ones finds no root in them.          *)
Grow(bad) ==
  LET retry == seen = "none"
      looks == held' = {} /\ ~({"partprobe grow", "blockdev grow"} \subseteq bad)
      ok == seen' = "current" /\ disk.table \notin {"none", "lost"}
            /\ {"growpart", "resize2fs"} \cap bad = {} IN
  /\ pc = "grow"
  /\ Log(bad)
  /\ image.fs = "xfs" => "resize2fs" \notin bad
  /\ IF retry THEN Release(bad) ELSE UNCHANGED <<held, leaked>>
  /\ seen' = IF retry /\ looks THEN "current" ELSE seen
  /\ IF ok THEN Proceed("mount") ELSE Abort
  /\ UNCHANGED <<machine, disk, esp, entries, mounts, tracked, os>>
-----------------------------------------------------------------------------
(* Mounting and unmounting.                                                *)

(* What stays mounted when the known points are unmounted in turn: what is *)
(* not known, what fails, and everything such a mount is nested in.        *)
Stuck(known, bad) ==
  LET stays == {m \in mounts : m \notin known \/ m \in bad} IN
  stays \cup {m \in mounts : \E n \in stays : Nested(n, m)}

(* The entries of the image's fstab, parents first; one whose source       *)
(* blkid does not find is passed over.                                     *)
FstabOrder == IF RootFound
  THEN (IF image.bootAt THEN <<"/boot">> ELSE <<>>) \o (IF image.espAt # "none" THEN <<image.espAt>> ELSE <<>>)
  ELSE <<>>
Resolved(bad) == {FstabOrder[i] : i \in DOMAIN FstabOrder} \ (IF "blkid fstab" \in bad THEN {"/boot"} ELSE {})
MountOf(point) == IF point = "/boot" THEN "mount /boot" ELSE "mount /boot/efi"
FstabFails(bad) == \E point \in Resolved(bad) : MountOf(point) \in bad
BeforeFailure(bad) == IF "mount /boot" \in bad THEN {} ELSE {"/boot"} \cap (Resolved(bad) \ {image.espAt})

(* Where the pipeline believes the EFI partition to be: the last of /boot  *)
(* and /boot/efi that fstab declares, whatever is on it.                   *)
EspMount(points) == IF "/boot/efi" \in points THEN "/boot/efi" ELSE IF "/boot" \in points THEN "/boot" ELSE "none"

RollBackAll(done, lost, bad) ==    \* wrong on purpose: the root is not unmounted again
  mounts' = done \cap ({"/"} \cup lost \cup bad)
RollBack(done, lost, bad) ==
  LET stays == {m \in done : m \in lost \/ m \in bad} IN
  mounts' = stays \cup {m \in done : \E n \in stays : Nested(n, m)}

MountCommands == {"mount /", "blkid fstab", "mount /boot", "mount /boot/efi", "blkid esp again", "mount esp", "bind", "mount efivars"}

(* Mount.  The mounts made from fstab are not known to the rollback when   *)
(* one of them fails.                                                      *)
Mount(bad) ==
  LET fstab == Resolved(bad)
      find == EspMount(fstab) = "none" /\ esp.part # "none" /\ "blkid esp again" \notin bad
      withEsp == {"/"} \cup fstab \cup (IF find THEN {"/boot/efi"} ELSE {})
      espFails == find /\ "mount esp" \in bad
      efivars == EspMount(withEsp) # "none" /\ host.uefi /\ "mount efivars" \notin bad IN
  /\ pc = "mount"
  /\ Log(bad)
  /\ \/ "mount /" \in bad /\ mounts' = {} /\ UNCHANGED tracked /\ Abort
     \/ /\ "mount /" \notin bad /\ FstabFails(bad)
        /\ RollBack({"/"} \cup BeforeFailure(bad), BeforeFailure(bad), bad)
        /\ UNCHANGED tracked /\ Abort
     \/ /\ "mount /" \notin bad /\ ~FstabFails(bad) /\ espFails
        /\ RollBack({"/"} \cup fstab, {}, bad)
        /\ UNCHANGED tracked /\ Abort
     \/ /\ "mount /" \notin bad /\ ~FstabFails(bad) /\ ~espFails /\ "bind" \in bad
        /\ RollBack(withEsp, {}, bad)
        /\ UNCHANGED tracked /\ Abort
     \/ /\ {"mount /", "bind"} \cap bad = {} /\ ~FstabFails(bad) /\ ~espFails
        /\ mounts' = withEsp \cup {"binds"} \cup (IF efivars THEN {"efivars"} ELSE {})
        /\ tracked' = mounts'
        /\ Proceed("seed")
  /\ UNCHANGED <<machine, held, seen, disk, esp, entries, leaked, os>>

(* xfs_growfs, the cloud-init seed and the monitor: all of it is fatal.    *)
Seed(bad) ==
  /\ pc = "seed"
  /\ Log(bad)
  /\ image.fs # "xfs" => "xfs_growfs" \notin bad
  /\ os' = Shipped(image.kernels, (image.bootAt \/ image.espAt = "/boot") /\ "/boot" \notin mounts)
  /\ IF bad = {} THEN Proceed("grub") ELSE Abort
  /\ UNCHANGED <<machine, held, seen, disk, esp, entries, mounts, tracked, leaked>>

-----------------------------------------------------------------------------
(* The loader.                                                             *)

DiskLabel == disk.table    \* wrong on purpose: the partition table's name, not the entry's

At == EspMount(mounts)
EspIsThere == At = "/boot" => image.espAt = "/boot"
Kind == IF disk.table = "gpt" THEN "gpt" ELSE "mbr"
Registered(label) == {e \in entries : e.label # label} \cup {[label |-> label, kind |-> Kind, part |-> esp.part]}

(* installGRUBHostDebian, and installGRUBHostFallback.  grub-install       *)
(* itself makes the boot entry; without efivars it may also refuse.        *)
GrubHost(bad) ==
  LET works == "grub-install" \notin bad /\ IF At = "none" THEN image.bios ELSE EspIsThere IN
  /\ pc = "grub" /\ image.loader = "host"
  /\ Log(bad)
  /\ IF works
       THEN /\ os' = AfterInstallDebian(os, bad)
            /\ esp' = IF At = "none" THEN esp ELSE [esp EXCEPT !.files = @ \cup {"metalkit"}]
            /\ entries' = IF At # "none" /\ host.uefi THEN Registered("metalkit") ELSE entries
            /\ Proceed("prune")
       ELSE Abort /\ UNCHANGED <<os, esp, entries>>
  /\ UNCHANGED <<machine, held, seen, disk, mounts, tracked, leaked>>

(* registerEFIBootEntryRHEL: the loader the image ships.                   *)
TreeFound == \/ At = "/boot/efi" /\ "distro" \in esp.files
             \/ At = "/boot" /\ {"distro", "nested"} \cap esp.files # {}
RegisterEFI(bad) == EspIsThere /\ TreeFound /\ host.uefi /\ "efibootmgr create" \notin bad

(* normalizeESPLayout: a tree below efi/ is copied to where the firmware   *)
(* looks, and with it the fallback.                                        *)
Normalised(files, bad) ==
  IF "distro" \in files \/ "nested" \notin files \/ "cp" \in bad THEN files
  ELSE files \cup {"distro"} \cup (IF "nested fallback" \in files THEN {"fallback"} ELSE {})

(* installGRUBChrootRHEL.  If the entry cannot be made, grub2-install puts *)
(* a loader on the EFI partition without one.                              *)
GrubChroot(bad) ==
  LET written == IF RegisterEFI(bad) THEN esp.files ELSE esp.files \cup {"distro"}
      works == IF At = "none" THEN "grub2-install" \notin bad /\ image.bios
               ELSE RegisterEFI(bad) \/ ("grub2-install" \notin bad /\ EspIsThere) IN
  /\ pc = "grub" /\ image.loader = "chroot"
  /\ Log(bad)
  /\ IF works
       THEN /\ os' = AfterInstallRHEL(os, host.raid, bad)
            /\ esp' = IF At = "none" THEN esp ELSE [esp EXCEPT !.files = Normalised(written, bad)]
            /\ entries' = IF RegisterEFI(bad) THEN Registered("distro") ELSE entries
            /\ Proceed("prune")
       ELSE Abort /\ UNCHANGED <<os, esp, entries>>
  /\ UNCHANGED <<machine, held, seen, disk, mounts, tracked, leaked>>

(* pruneStaleNVRAM, best-effort: every entry of an MBR disk, and every one *)
(* of a GPT partition that the target does not have, of other disks too.   *)
StaleMbr(e, listed) == e.kind = "mbr"    \* wrong on purpose: GPT entries are never stale
Stale(e, listed) == e.kind = "mbr" \/ (listed /\ e.kind = "gpt" /\ e.part # esp.part)
Prune(bad) ==
  LET skipped == ~host.uefi \/ {"efibootmgr list", "efibootmgr delete"} \cap bad # {} IN
  /\ pc = "prune"
  /\ Log(bad)
  /\ entries' = IF skipped THEN entries ELSE {e \in entries : ~Stale(e, "lsblk partuuid" \notin bad)}
  /\ Proceed("umount")
  /\ UNCHANGED <<machine, held, seen, disk, esp, mounts, tracked, leaked, os>>

-----------------------------------------------------------------------------
(* The end of a run.                                                       *)

(* The explicit cleanup.  One that fails is tried again on the way out.    *)
Unmount(bad) ==
  /\ pc = "umount"
  /\ Log(bad)
  /\ mounts' = Stuck(tracked, bad)
  /\ IF mounts' = {} THEN tracked' = {} /\ Proceed("succeed") ELSE UNCHANGED tracked /\ Abort
  /\ UNCHANGED <<machine, held, seen, disk, esp, entries, leaked, os>>

Unwind(bad) ==
  /\ pc = "unwind"
  /\ Log(bad)
  /\ mounts' = Stuck(tracked, bad)
  /\ tracked' = {}
  /\ pc' = "ended" /\ outcome' = "failed"
  /\ UNCHANGED <<machine, held, seen, disk, esp, entries, leaked, os>>

Succeed(bad) ==
  /\ pc = "succeed"
  /\ Log(bad)
  /\ pc' = "ended"
  /\ outcome' = IF bad = {} THEN "succeeded" ELSE "failed"
  /\ UNCHANGED <<machine, held, seen, disk, esp, entries, mounts, tracked, leaked, os>>

(* The operator starts the install again, without a reboot in between.     *)
NextRun ==
  /\ pc = "ended" /\ outcome = "failed"
  /\ run < MaxRuns
  /\ run' = run + 1
  /\ pc' = "prepare" /\ outcome' = "none"
  /\ leaked' = leaked \cup mounts /\ mounts' = {}
  /\ held' = held \cup (IF leaked' = {} THEN {} ELSE {"mount"})
  /\ os' = Nil
  /\ UNCHANGED <<host, image, failures, seen, disk, esp, entries, tracked>>

Stage ==
  \/ \E bad \in Failing({"stage", "list disks"}) : Prepare(bad)
  \/ \E bad \in Failing(ReleaseCommands) : PreRelease(bad)
  \/ \E bad \in Failing({"sgdisk -Z", "download"}) : Wipe(bad)
  \/ \E bad \in Failing({"spool", "qemu-img", "sync"}) : WriteImage(bad)
  \/ \E bad \in Failing({"partprobe", "partprobe again", "blockdev", "partx"} \cup ReleaseCommands) : Reread(bad)
  \/ \E bad \in Failing(EspCommands) : CreateEspIfMissing(bad)
  \/ \E bad \in Failing({"partprobe grow", "blockdev grow", "growpart", "resize2fs"} \cup ReleaseCommands) : Grow(bad)
  \/ \E bad \in Failing(MountCommands \cup Points) : Mount(bad)
  \/ \E bad \in Failing({"xfs_growfs", "write seed", "implant"}) : Seed(bad)
  \/ \E bad \in Failing({"grub-install"} \cup HostCommands) : GrubHost(bad)
  \/ \E bad \in Failing({"efibootmgr create", "grub2-install", "cp"} \cup ChrootCommands) : GrubChroot(bad)
  \/ \E bad \in Failing({"lsblk partuuid", "efibootmgr list", "efibootmgr delete"}) : Prune(bad)
  \/ \E bad \in Failing(Points) : Unmount(bad)
  \/ \E bad \in Failing(Points) : Unwind(bad)
  \/ \E bad \in Failing({"report"}) : Succeed(bad)

InstallNext == Stage \/ NextRun
InstallSpec == InstallInit /\ [][InstallNext]_vars

-----------------------------------------------------------------------------
(* What the installed machine does.                                        *)

FirmwareStarts ==
  IF ~host.uefi THEN image.bios
  ELSE /\ esp.part # "none" /\ esp.typed
       /\ \/ "fallback" \in esp.files
          \/ \E e \in entries : e.part = esp.part /\ e.kind = Kind /\ e.label \in esp.files
Boots == FirmwareStarts /\ RootFound /\ ~os.hidden /\ KernelStarts(os, host.raid)

(* The machines and images the pipeline is able to install.  It cannot     *)
(* find the disk of an NVMe target, release a volume group on an md array, *)
(* put an EFI partition on a GPT image, tell a /boot of its own from an    *)
(* EFI partition, boot an MBR disk by a boot entry (pruned at once) or by  *)
(* a fallback below efi/ that only the RHEL path copies, or choose, behind *)
(* a RAID controller, among a RHEL image's kernels the one with drivers.   *)
Supported ==
  /\ ParentDiskOf(host.disk) = host.disk
  /\ "vg on md" \notin host.holders
  /\ RootFound
  /\ image.bootAt => image.espAt = "/boot/efi"
  /\ ~host.uefi => image.bios
  /\ host.raid /\ image.loader = "chroot" => image.kernels # Kernels
  /\ host.uefi =>
       /\ image.esp = "none" => image.table = "dos" /\ image.loader = "host"
       /\ image.esp # "none" /\ image.table = "dos" =>
            image.fallback /\ (image.tree = "nested" => image.loader = "chroot")
       /\ image.loader = "chroot" => (image.tree = "flat" \/ (image.tree = "nested" /\ image.espAt = "/boot"))

-----------------------------------------------------------------------------
(* Properties.                                                             *)

Blame == KernelBlame \cup {{"blkid fstab"}, {"blkid esp again"}, {"blkid esp"},
  {"sfdisk -d"}, {"sfdisk read"}, {"sfdisk set"}, {"efibootmgr create"}, {"cp"}}

(* A machine whose install was reported as a success boots what was        *)
(* installed, unless one of a few commands failed: of all the failures     *)
(* that are only logged, no other may leave a machine that does not boot.  *)
BootsUnlessBlamed ==
  (outcome = "succeeded" /\ Supported) => Boots \/ \E b \in Blame : b \subseteq FailedNow

(* A run in which no command fails succeeds, whatever an earlier run left  *)
(* mounted, half written or in NVRAM.                                      *)
CleanRunSucceeds == (outcome = "failed" /\ Supported) => FailedNow # {}

(* A run that is over has nothing mounted, unless an unmount failed, or    *)
(* the image's /boot/efi did not mount over its /boot.                     *)
NothingLeftMounted ==
  (pc = "ended" /\ mounts # {}) => FailedNow \cap (Points \cup {"mount /boot/efi"}) # {}

(* After a success no boot entry is left for a partition the write has     *)
(* destroyed, unless the listing or a deletion failed.                     *)
StaleEntriesGone ==
  (outcome = "succeeded" /\ host.uefi) =>
    \/ \A e \in entries : e.part # "old"
    \/ FailedNow \cap {"lsblk partuuid", "efibootmgr list", "efibootmgr delete"} # {}
=============================================================================
