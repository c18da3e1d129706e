------------------------- MODULE InstallerRun_proofs --------------------------
(***************************************************************************)
(* Proofs about a run of the installer and the attempts after it, for any  *)
(* machines, images and network plans of the stated kinds.                 *)
(*                                                                         *)
(* A step of the whole run is a step of DiskInstall or leaves its state    *)
(* alone, and the same holds of NetworkSeed: what is left mounted, stale   *)
(* NVRAM entries and the disk the machine boots are about the stages of    *)
(* the first, labels, types and the network about the writes of the other. *)
(***************************************************************************)
EXTENDS InstallerRun, FiniteSetTheorems, TLAPS

-----------------------------------------------------------------------------
(* The stages and the commands that fail in them.                          *)

StageOf(bad) ==
  \/ Prepare(bad) \/ PreRelease(bad) \/ Wipe(bad) \/ WriteImage(bad) \/ Reread(bad)
  \/ CreateEspIfMissing(bad) \/ Grow(bad) \/ Mount(bad) \/ Seed(bad) \/ GrubHost(bad)
  \/ GrubChroot(bad) \/ Prune(bad) \/ Unmount(bad) \/ Unwind(bad) \/ Succeed(bad)

LEMMA RunIsInstall == [Next]_runVars => [InstallNext]_vars
  BY DEF Next, WriteSeed, RunStage, RunAgain, InstallNext, runVars

LEMMA SpecIsInstall == Spec => InstallSpec
  <1>1. Init => InstallInit
    BY DEF Init
  <1> QED
    BY <1>1, RunIsInstall, PTL DEF Spec, InstallSpec

LEMMA FewFail ==
  ASSUME NEW commands, NEW bad \in Failing(commands)
  PROVE  /\ bad \subseteq commands
         /\ \A c, d \in bad : c # d => ~(MaxFaults - Cardinality(failures) < 2)
         /\ \A c, d, e \in bad : c = d \/ d = e \/ c = e
  <1> DEFINE left == MaxFaults - Cardinality(failures)
  <1>1. \/ bad = {}
        \/ \E c \in commands : bad = {c}
        \/ ~(left < 2) /\ \E c, d \in commands : bad = {c, d}
    BY DEF Failing
  <1> QED
    BY <1>1

LEMMA Logged ==
  ASSUME NEW bad, Log(bad), run' = run
  PROVE  FailedNow' = FailedNow \cup bad
  <1>1. ASSUME NEW x PROVE x \in FailedNow' <=> x \in FailedNow \/ x \in bad
    <2>1. x \in FailedNow' <=> \E g \in failures' : g[1] = run /\ x = g[2]
      BY DEF FailedNow
    <2>2. x \in FailedNow <=> \E g \in failures : g[1] = run /\ x = g[2]
      BY DEF FailedNow
    <2>3. (\E g \in failures' : g[1] = run /\ x = g[2])
            <=> (\E g \in failures : g[1] = run /\ x = g[2]) \/ (\E c \in bad : x = c)
      <3>1. failures' = failures \cup {<<run, c>> : c \in bad}
        BY DEF Log
      <3>2. \A c : <<run, c>>[1] = run /\ <<run, c>>[2] = c
        OBVIOUS
      <3> QED
        BY <3>1, <3>2
    <2> QED
      BY <2>1, <2>2, <2>3
  <1> QED
    BY <1>1

-----------------------------------------------------------------------------
(* Where the run is, and what failed so far.                               *)

PCs == {"prepare", "release", "wipe", "write", "reread", "esp", "grow", "mount", "seed",
        "grub", "prune", "umount", "succeed", "unwind", "ended"}

(* Nothing is reported before the run is over, and no command of a later   *)
(* run has failed yet.                                                     *)
Progress ==
  /\ host \in Hosts /\ image \in Images
  /\ run \in 1..MaxRuns /\ pc \in PCs
  /\ outcome \in {"none", "succeeded", "failed"}
  /\ outcome # "none" <=> pc = "ended"
  /\ IsFiniteSet(failures) /\ \A f \in failures : f[1] \in 1..run

LEMMA AbortsOrProceeds ==
  ASSUME Progress, pc # "ended", Abort \/ \E next \in PCs \ {"ended"} : Proceed(next)
  PROVE  /\ pc' \in PCs /\ outcome' \in {"none", "succeeded", "failed"}
         /\ outcome' # "none" <=> pc' = "ended"
  BY DEF Progress, Abort, Proceed, PCs

LEMMA StageProgress ==
  ASSUME Progress, NEW bad, StageOf(bad)
  PROVE  /\ UNCHANGED <<host, image, run>> /\ Log(bad) /\ pc # "ended"
         /\ pc' \in PCs /\ outcome' \in {"none", "succeeded", "failed"}
         /\ outcome' # "none" <=> pc' = "ended"
  <1> DEFINE Moves == Abort \/ \E next \in PCs \ {"ended"} : Proceed(next)
  <1>1. CASE Prepare(bad) \/ PreRelease(bad) \/ Wipe(bad) \/ WriteImage(bad) \/ Reread(bad)
    <2>1. pc # "ended" /\ Moves /\ Log(bad) /\ UNCHANGED machine
      BY <1>1 DEF Prepare, PreRelease, Wipe, WriteImage, Reread, PCs
    <2> QED
      BY <2>1, AbortsOrProceeds DEF machine
  <1>2. CASE CreateEspIfMissing(bad) \/ Grow(bad)
    <2>1. pc # "ended" /\ Moves /\ Log(bad) /\ UNCHANGED machine
      BY <1>2 DEF CreateEspIfMissing, Grow, MakeEsp, PCs
    <2> QED
      BY <2>1, AbortsOrProceeds DEF machine
  <1>3. CASE Mount(bad) \/ Seed(bad)
    <2>1. pc # "ended" /\ Moves /\ Log(bad) /\ UNCHANGED machine
      BY <1>3 DEF Mount, Seed, PCs
    <2> QED
      BY <2>1, AbortsOrProceeds DEF machine
  <1>4. CASE GrubHost(bad) \/ GrubChroot(bad) \/ Prune(bad) \/ Unmount(bad)
    <2>1. pc # "ended" /\ Moves /\ Log(bad) /\ UNCHANGED machine
      BY <1>4 DEF GrubHost, GrubChroot, Prune, Unmount, PCs
    <2> QED
      BY <2>1, AbortsOrProceeds DEF machine
  <1>5. CASE Unwind(bad) \/ Succeed(bad)
    BY <1>5 DEF Unwind, Succeed, PCs, machine
  <1> QED
    BY <1>1, <1>2, <1>3, <1>4, <1>5 DEF StageOf

(* A step of the installer, once for all: a stage that did not get some    *)
(* commands through, or the start of another run.                          *)
Failed(bad) ==
  /\ StageOf(bad)
  /\ UNCHANGED <<host, image, run>>
  /\ failures' = failures \cup {<<run, c>> : c \in bad}
  /\ FailedNow' = FailedNow \cup bad
  /\ \A c, d \in bad : c # d => ~(MaxFaults - Cardinality(failures) < 2)
  /\ \A c, d, e \in bad : c = d \/ d = e \/ c = e

LEMMA StepCases ==
  ASSUME Progress, [InstallNext]_vars
  PROVE  (\E bad : Failed(bad)) \/ NextRun \/ UNCHANGED vars
  <1>1. ASSUME NEW commands, NEW bad \in Failing(commands), StageOf(bad) PROVE Failed(bad)
    BY <1>1, FewFail, Logged, StageProgress DEF Failed, Log
  <1>2. CASE Stage
    <2>1. \E commands : \E bad \in Failing(commands) : StageOf(bad)
      BY <1>2 DEF Stage, StageOf
    <2> QED
      BY <1>1, <2>1
  <1> QED
    BY <1>2 DEF InstallNext

LEMMA ProgressStep == Progress /\ [InstallNext]_vars => Progress'
  <1> SUFFICES ASSUME Progress, [InstallNext]_vars PROVE Progress'
    OBVIOUS
  <1>1. ASSUME NEW bad, Failed(bad) PROVE Progress'
    <2>1. IsFiniteSet({}) /\ \A f, g : IsFiniteSet({f, g})
      <3>1. ASSUME NEW f, NEW g PROVE IsFiniteSet({f, g})
        <4>1. IsFiniteSet({f}) /\ IsFiniteSet({g})
          BY FS_Singleton
        <4>2. IsFiniteSet({f} \cup {g})
          BY <4>1, FS_Union
        <4>3. {f, g} = {f} \cup {g}
          OBVIOUS
        <4> QED
          BY <4>2, <4>3
      <3> QED
        BY <3>1, FS_EmptySet
    <2>2. IsFiniteSet({<<run, c>> : c \in bad})
      <3> DEFINE new == {<<run, c>> : c \in bad}
      <3>1. CASE bad = {}
        <4>1. new = {}
          BY <3>1
        <4> QED
          BY <2>1, <4>1
      <3>2. ASSUME NEW c \in bad PROVE IsFiniteSet(new)
        <4>1. ASSUME NEW d \in bad, \A e \in bad : e = c \/ e = d PROVE IsFiniteSet(new)
          <5>1. new = {<<run, c>>, <<run, d>>}
            BY <4>1
          <5> QED
            BY <2>1, <5>1
        <4>2. CASE \A e \in bad : e = c
          BY <4>1, <4>2
        <4>3. ASSUME NEW d \in bad, d # c PROVE IsFiniteSet(new)
          <5>1. \A e \in bad : e = c \/ e = d
            BY <1>1, <4>3 DEF Failed
          <5> QED
            BY <4>1, <5>1
        <4> QED
          BY <4>2, <4>3
      <3> QED
        BY <3>1, <3>2
    <2>3. IsFiniteSet(failures')
      <3>1. failures' = failures \cup {<<run, c>> : c \in bad} /\ IsFiniteSet(failures)
        BY <1>1 DEF Failed, Progress
      <3> QED
        BY <2>2, <3>1, FS_Union
    <2>4. \A f \in failures' : f[1] \in 1..run
      BY <1>1 DEF Failed, Progress
    <2> QED
      BY <1>1, <2>3, <2>4, StageProgress DEF Failed, Progress
  <1>2. CASE NextRun
    BY <1>2, InstallBounds DEF NextRun, Progress, PCs
  <1>3. CASE UNCHANGED vars
    BY <1>3 DEF vars, Progress
  <1> QED
    BY <1>1, <1>2, <1>3, StepCases

LEMMA ProgressInit == InstallInit => Progress
  BY FS_EmptySet, InstallBounds DEF InstallInit, Progress, PCs

-----------------------------------------------------------------------------
(* Mounts.                                                                 *)

Early == {"prepare", "release", "wipe", "write", "reread", "esp", "grow", "mount"}
Late == {"seed", "grub", "prune", "umount", "unwind"}

(* While the cleanup is needed it knows every mount; when it is not there  *)
(* yet, or has been used, nothing is mounted that it should know.          *)
MountInv ==
  /\ mounts \subseteq Points /\ tracked \subseteq Points
  /\ pc \in Early => mounts = {} /\ tracked = {}
  /\ pc \in Late => mounts \subseteq tracked
  /\ pc = "succeed" => mounts = {}
  /\ pc \in {"succeed", "ended"} => tracked = {}
  /\ NothingLeftMounted

LEMMA FstabPoints ==
  ASSUME Progress, NEW bad
  PROVE  Resolved(bad) \subseteq {"/boot", "/boot/efi"}
  <1>1. image.espAt \in {"none", "/boot", "/boot/efi"}
    BY InstallData DEF Progress, Image
  <1> DEFINE boot == IF image.bootAt THEN <<"/boot">> ELSE <<>>
             efi == IF image.espAt # "none" THEN <<image.espAt>> ELSE <<>>
  <1>2. boot \in Seq({"/boot", "/boot/efi"}) /\ efi \in Seq({"/boot", "/boot/efi"})
    <2>1. \A x \in {"/boot", "/boot/efi"} : <<x>> \in Seq({"/boot", "/boot/efi"})
      OBVIOUS
    <2>2. <<>> \in Seq({"/boot", "/boot/efi"})
      OBVIOUS
    <2>3. image.espAt # "none" => image.espAt \in {"/boot", "/boot/efi"}
      BY <1>1
    <2>4. boot \in Seq({"/boot", "/boot/efi"})
      BY <2>1, <2>2
    <2>5. efi \in Seq({"/boot", "/boot/efi"})
      BY <2>1, <2>2, <2>3
    <2> QED
      BY <2>4, <2>5
  <1>3. boot \o efi \in Seq({"/boot", "/boot/efi"})
    BY <1>2
  <1>4. FstabOrder \in Seq({"/boot", "/boot/efi"})
    BY <1>3 DEF FstabOrder
  <1>5. \A i \in DOMAIN FstabOrder : FstabOrder[i] \in {"/boot", "/boot/efi"}
    BY <1>4
  <1> QED
    BY <1>5 DEF Resolved

(* What a rollback leaves was not known to it or failed.                   *)
LEMMA RolledBack ==
  ASSUME NEW done \in SUBSET Points, NEW known, NEW bad, RollBack(done, known, bad)
  PROVE  /\ mounts' \subseteq done
         /\ mounts' # {} => \E m \in done : m \in known \/ m \in bad
  BY DEF RollBack

LEMMA MountsMounted ==
  ASSUME Progress, MountInv, NEW bad, Mount(bad), FailedNow' = FailedNow \cup bad
  PROVE  MountInv'
  <1>1. mounts = {} /\ tracked = {} /\ Resolved(bad) \subseteq Points /\ BeforeFailure(bad) \subseteq Points
    BY FstabPoints DEF Mount, MountInv, Early, Points, BeforeFailure
  <1>2. ASSUME NEW done \in SUBSET Points, NEW known, RollBack(done, known, bad), UNCHANGED tracked, Abort,
               known # {} => "mount /boot/efi" \in bad
        PROVE  MountInv'
    <2>1. pc' = "ended" /\ tracked' = {}
      BY <1>1, <1>2 DEF Abort
    <2>2. mounts' \subseteq Points
      BY <1>2, RolledBack
    <2>3. mounts' # {} => bad \cap (Points \cup {"mount /boot/efi"}) # {}
      BY <1>2, RolledBack
    <2> QED
      BY <2>1, <2>2, <2>3 DEF MountInv, NothingLeftMounted, Early, Late
  <1>3. CASE mounts' = {} /\ UNCHANGED tracked /\ Abort
    BY <1>1, <1>3 DEF Abort, MountInv, NothingLeftMounted, Early, Late, Points
  <1>4. CASE FstabFails(bad) /\ RollBack({"/"} \cup BeforeFailure(bad), BeforeFailure(bad), bad) /\ UNCHANGED tracked /\ Abort
    <2>1. {"/"} \cup BeforeFailure(bad) \in SUBSET Points
      BY <1>1 DEF Points
    <2>2. BeforeFailure(bad) # {} => "mount /boot/efi" \in bad
      BY <1>4 DEF BeforeFailure, FstabFails, MountOf
    <2> QED
      BY <1>2, <1>4, <2>1, <2>2
  <1>5. ASSUME NEW done \in SUBSET Points, RollBack(done, {}, bad), UNCHANGED tracked, Abort PROVE MountInv'
    BY <1>2, <1>5
  <1>6. ASSUME NEW done \in SUBSET Points, mounts' = done, tracked' = mounts', Proceed("seed") PROVE MountInv'
    BY <1>6 DEF Proceed, MountInv, NothingLeftMounted, Early, Late
  <1> DEFINE fstab == Resolved(bad)
             find == EspMount(fstab) = "none" /\ esp.part # "none" /\ "blkid esp again" \notin bad
             withEsp == {"/"} \cup fstab \cup (IF find THEN {"/boot/efi"} ELSE {})
             efivars == EspMount(withEsp) # "none" /\ host.uefi /\ "mount efivars" \notin bad
             all == withEsp \cup {"binds"} \cup (IF efivars THEN {"efivars"} ELSE {})
  <1>7. {"/"} \cup fstab \in SUBSET Points /\ withEsp \in SUBSET Points /\ all \in SUBSET Points
    BY <1>1 DEF Points
  <1>8. \/ mounts' = {} /\ UNCHANGED tracked /\ Abort
        \/ FstabFails(bad) /\ RollBack({"/"} \cup BeforeFailure(bad), BeforeFailure(bad), bad) /\ UNCHANGED tracked /\ Abort
        \/ RollBack({"/"} \cup fstab, {}, bad) /\ UNCHANGED tracked /\ Abort
        \/ RollBack(withEsp, {}, bad) /\ UNCHANGED tracked /\ Abort
        \/ mounts' = all /\ tracked' = mounts' /\ Proceed("seed")
    BY Zenon DEF Mount
  <1> HIDE DEF withEsp, all, fstab
  <1> QED
    BY <1>3, <1>4, <1>5, <1>6, <1>7, <1>8

LEMMA MountStep == Progress /\ MountInv /\ [InstallNext]_vars => MountInv'
  <1> SUFFICES ASSUME Progress, MountInv, [InstallNext]_vars PROVE MountInv'
    OBVIOUS
  <1> USE DEF MountInv, NothingLeftMounted, Early, Late
  <1>1. ASSUME NEW bad, Failed(bad) PROVE MountInv'
    <2>1. FailedNow' = FailedNow \cup bad
      BY <1>1 DEF Failed
    <2>2. CASE Prepare(bad) \/ PreRelease(bad) \/ Wipe(bad) \/ WriteImage(bad) \/ Reread(bad) \/ Grow(bad)
      <3>1. UNCHANGED <<mounts, tracked>> /\ pc \in Early
        BY <2>2 DEF Prepare, PreRelease, Wipe, WriteImage, Reread, Grow
      <3>2. pc' \in Early \cup {"ended"}
        BY <2>2, <3>1 DEF Prepare, PreRelease, Wipe, WriteImage, Reread, Grow, Proceed, Abort
      <3> QED
        BY <3>1, <3>2
    <2>3. CASE CreateEspIfMissing(bad)
      <3>1. UNCHANGED <<mounts, tracked>> /\ pc \in Early
        BY <2>3 DEF CreateEspIfMissing
      <3>2. Proceed("grow") \/ Abort
        BY <2>3 DEF CreateEspIfMissing, MakeEsp
      <3>3. pc' \in Early \cup {"ended"}
        BY <3>1, <3>2 DEF Proceed, Abort
      <3> QED
        BY <3>1, <3>3
    <2>4. CASE Mount(bad)
      BY <2>1, <2>4, MountsMounted
    <2>5. CASE Seed(bad) \/ GrubHost(bad) \/ GrubChroot(bad) \/ Prune(bad)
      <3>1. UNCHANGED <<mounts, tracked>> /\ pc \in {"seed", "grub", "prune"}
        BY <2>5 DEF Seed, GrubHost, GrubChroot, Prune
      <3>2. Abort \/ pc' \in Late
        BY <2>5 DEF Seed, GrubHost, GrubChroot, Prune, Proceed
      <3>3. (pc' = "ended" /\ tracked = {}) \/ pc' \in Late
        BY <3>2 DEF Abort
      <3> QED
        BY <3>1, <3>3
    <2>6. CASE Unmount(bad)
      <3>1. mounts' \subseteq mounts
        BY <2>6 DEF Unmount, Stuck
      <3>2. CASE mounts' = {}
        BY <2>6, <3>2 DEF Unmount, Proceed, Points
      <3>3. CASE mounts' # {}
        BY <2>6, <3>1, <3>3 DEF Unmount, Abort
      <3> QED
        BY <3>2, <3>3
    <2>7. CASE Unwind(bad)
      <3>1. pc = "unwind" /\ pc' = "ended" /\ tracked' = {} /\ mounts' = Stuck(tracked, bad)
        BY <2>7 DEF Unwind
      <3>2. mounts' \subseteq Points /\ (mounts' # {} => bad \cap Points # {})
        BY <3>1 DEF Stuck
      <3> QED
        BY <2>1, <3>1, <3>2
    <2>8. CASE Succeed(bad)
      BY <2>8 DEF Succeed
    <2> QED
      BY <1>1, <2>2, <2>3, <2>4, <2>5, <2>6, <2>7, <2>8 DEF Failed, StageOf
  <1>2. CASE NextRun
    BY <1>2 DEF NextRun, Points
  <1>3. CASE UNCHANGED vars
    BY <1>3 DEF vars, FailedNow
  <1> QED
    BY <1>1, <1>2, <1>3, StepCases

(* A run that is over has nothing mounted under the target's root unless   *)
(* an unmount failed or /boot/efi did not mount over /boot: mount.go hands *)
(* the cleanup every mount it made, or takes them back itself.             *)
THEOREM NothingIsLeftMounted == Spec => []NothingLeftMounted
  <1>1. InstallInit => Progress /\ MountInv
    BY ProgressInit DEF InstallInit, MountInv, NothingLeftMounted, Points, Early, Late
  <1>2. Progress /\ MountInv /\ [InstallNext]_vars => (Progress /\ MountInv)'
    BY ProgressStep, MountStep
  <1>3. MountInv => NothingLeftMounted
    BY DEF MountInv
  <1> QED
    BY <1>1, <1>2, <1>3, SpecIsInstall, PTL DEF InstallSpec

-----------------------------------------------------------------------------
(* The target, its EFI partition and the boot entries.                     *)

EspFiles == {"metalkit", "distro", "nested", "fallback", "nested fallback"}
Installed == {"grub", "prune", "umount", "succeed"}

(* On a machine that boots by EFI the pipeline does not get past the disk  *)
(* without an EFI partition that the write or createESPIfMissing made.     *)
TargetInv ==
  /\ held \subseteq Holders /\ seen \in {"none", "old", "current"}
  /\ disk \in [table : {"old", "none", "gpt", "dos", "lost"}, data : {"old", "torn", "image"}]
  /\ esp \in [part : {"none", "image", "new"}, typed : BOOLEAN, files : SUBSET EspFiles]
  /\ entries \subseteq Entry /\ leaked \subseteq Points
  /\ os \in System \/ (os = Nil /\ pc \notin Installed)
  /\ host.uefi /\ pc = "grow" => esp.part # "none" \/ disk.table = "lost"
  /\ host.uefi /\ pc \in Installed \cup {"mount", "seed"} => esp.part # "none"

LEMMA ImageTyped ==
  ASSUME Progress
  PROVE  /\ host \in Host /\ image \in Image
         /\ image.table \in {"gpt", "dos"} /\ image.kernels \in (SUBSET Kernels) \ {{}}
         /\ image.espAt \in {"none", "/boot", "/boot/efi"} /\ image.tree \in {"none", "flat", "nested"}
         /\ image.bootAt \in BOOLEAN
  BY InstallData DEF Progress, Image

LEMMA NoEspTyped == NoEsp \in [part : {"none", "image", "new"}, typed : BOOLEAN, files : SUBSET EspFiles]
  BY DEF NoEsp

LEMMA ImageEspTyped ==
  ASSUME Progress
  PROVE  ImageEsp \in [part : {"none", "image", "new"}, typed : BOOLEAN, files : SUBSET EspFiles]
  BY DEF ImageEsp, EspFiles

LEMMA ReleaseTyped ==
  ASSUME TargetInv, NEW bad, Release(bad)
  PROVE  held' \subseteq Holders /\ leaked' \subseteq Points
  BY DEF TargetInv, Release, StillHeld

LEMMA EspMade ==
  ASSUME Progress, TargetInv, NEW bad, MakeEsp(bad), pc = "esp", tracked = {}
  PROVE  /\ esp' \in [part : {"none", "image", "new"}, typed : BOOLEAN, files : SUBSET EspFiles]
         /\ disk' \in [table : {"old", "none", "gpt", "dos", "lost"}, data : {"old", "torn", "image"}]
         /\ seen' \in {"none", "old", "current"}
         /\ pc' = "ended" \/ (pc' = "grow" /\ (esp'.part # "none" \/ disk'.table = "lost"))
  <1> DEFINE zapped == disk.table = "gpt" /\ "sgdisk -z" \notin bad
             made == "sgdisk -p" \notin bad /\ "sgdisk -n" \notin bad /\ ~(disk.table = "dos" /\ "sgdisk -g" \in bad)
             visible == held = {} /\ "partprobe esp" \notin bad
  <1>1. /\ disk' = [disk EXCEPT !.table = IF zapped THEN "lost" ELSE IF made THEN "gpt" ELSE disk.table]
        /\ esp' = IF zapped \/ ~made THEN NoEsp
                  ELSE IF esp.part = "none" THEN [part |-> "new", typed |-> TRUE, files |-> {}]
                  ELSE [esp EXCEPT !.part = "new"]
        /\ seen' = IF made /\ visible THEN "current" ELSE seen
        /\ IF made /\ visible /\ "mkfs.fat" \notin bad THEN Proceed("grow") ELSE Abort
    BY DEF MakeEsp
  <1> HIDE DEF zapped, made, visible
  <1>2. disk' \in [table : {"old", "none", "gpt", "dos", "lost"}, data : {"old", "torn", "image"}]
    BY <1>1 DEF TargetInv
  <1>3. esp' \in [part : {"none", "image", "new"}, typed : BOOLEAN, files : SUBSET EspFiles]
    BY <1>1, NoEspTyped DEF TargetInv
  <1>4. pc' = "ended" \/ (pc' = "grow" /\ made)
    BY <1>1 DEF Proceed, Abort
  <1>5. made => esp'.part # "none" \/ disk'.table = "lost"
    BY <1>1 DEF TargetInv
  <1> QED
    BY <1>1, <1>2, <1>3, <1>4, <1>5 DEF TargetInv

LEMMA ShippedTyped ==
  ASSUME NEW kernels \in SUBSET Kernels, NEW hidden \in BOOLEAN
  PROVE  Shipped(kernels, hidden) \in System
  BY DEF Shipped, System, Kernels, NoKernel

LEMMA UpdateGrubTyped ==
  ASSUME NEW s \in System, NEW failed
  PROVE  UpdateGrub(s, failed) \in System
  BY DEF UpdateGrub, System

LEMMA MenuTyped ==
  ASSUME NEW s \in System, NEW bad
  PROVE  GenerateMenu(s, bad) \in System
  BY UpdateGrubTyped DEF GenerateMenu, System

LEMMA BestTyped ==
  ASSUME NEW s \in System
  PROVE  BestKernel(s) \in Kernels \cup {NoKernel}
  BY DEF BestKernel, Kernels

LEMMA PurgeTyped ==
  ASSUME NEW s \in System, NEW bad
  PROVE  PurgeCloudKernel(s, bad) \in System
  <1> DEFINE doomed == s.modules \ s.complete
             left == [s EXCEPT !.images = s.images \ doomed,
                               !.modules = IF "rm modules" \in bad THEN s.modules ELSE s.modules \ doomed]
  <1>1. left \in System
    BY DEF System
  <1>2. PurgeCloudKernel(s, bad) \in {s, UpdateGrub(left, "update-grub after purge" \in bad)}
    BY DEF PurgeCloudKernel
  <1> QED
    BY <1>1, <1>2, UpdateGrubTyped

LEMMA PinTyped ==
  ASSUME NEW s \in System, NEW bad
  PROVE  PinDefaultKernel(s, bad) \in System
  <1> DEFINE once == UpdateGrub(s, "update-grub to pin" \in bad)
             again == UpdateGrub(once, "update-grub for saved" \in bad)
  <1>1. again \in System
    BY UpdateGrubTyped
  <1>2. BestKernel(s) # NoKernel => [again EXCEPT !.default = BestKernel(s)] \in System
    BY <1>1, BestTyped DEF System
  <1>3. PinDefaultKernel(s, bad) \in {s, again} \/
        (BestKernel(s) # NoKernel /\ PinDefaultKernel(s, bad) = [again EXCEPT !.default = BestKernel(s)])
    BY DEF PinDefaultKernel
  <1> QED
    BY <1>1, <1>2, <1>3

LEMMA DebianTyped ==
  ASSUME NEW s \in System, NEW bad
  PROVE  AfterInstallDebian(s, bad) \in System
  <1>1. GenerateMenu(s, bad) \in System
    BY MenuTyped
  <1>2. ASSUME NEW m \in System PROVE AptInstall(m) \in System
    BY DEF AptInstall, System, Kernels
  <1>3. ASSUME NEW m \in System PROVE RegenerateInitramfsDebian(m, bad) \in System
    <2>1. PinDefaultKernel(PurgeCloudKernel(AptInstall(m), bad), bad) \in System
      BY <1>2, PurgeTyped, PinTyped
    <2> QED
      BY <2>1 DEF RegenerateInitramfsDebian
  <1> QED
    BY <1>1, <1>3 DEF AfterInstallDebian

LEMMA RHELTyped ==
  ASSUME NEW s \in System, NEW raid, NEW bad
  PROVE  AfterInstallRHEL(s, raid, bad) \in System
  <1>1. GenerateMenu(s, bad) \in System
    BY MenuTyped
  <1>2. ASSUME NEW m \in System PROVE WithModules(m, bad) \in System
    BY DEF WithModules, System, Kernels
  <1>3. ASSUME NEW m \in System PROVE RebuildInitrds(m, bad) \in System
    BY DEF RebuildInitrds, System
  <1>4. ASSUME NEW m \in System PROVE SetDefaultKernel(m, bad) \in System
    <2>1. [m EXCEPT !.default = IF "grubby" \in bad THEN NoKernel ELSE BestKernel(m)] \in System
      BY BestTyped DEF System
    <2> QED
      BY <2>1 DEF SetDefaultKernel
  <1> QED
    BY <1>1, <1>2, <1>3, <1>4 DEF AfterInstallRHEL

LEMMA TargetStep == Progress /\ MountInv /\ TargetInv /\ [InstallNext]_vars => TargetInv'
  <1> SUFFICES ASSUME Progress, MountInv, TargetInv, [InstallNext]_vars PROVE TargetInv'
    OBVIOUS
  <1> DEFINE EspT == [part : {"none", "image", "new"}, typed : BOOLEAN, files : SUBSET EspFiles]
             DiskT == [table : {"old", "none", "gpt", "dos", "lost"}, data : {"old", "torn", "image"}]
             Soon == {"release", "wipe", "write", "reread", "esp", "ended", "unwind"}
  <1>1. ASSUME NEW bad, Failed(bad) PROVE TargetInv'
    <2>1. UNCHANGED <<host, image>>
      BY <1>1 DEF Failed
    <2>2. CASE Prepare(bad) \/ PreRelease(bad)
      <3>1. UNCHANGED <<seen, disk, esp, entries, os>> /\ held' \subseteq Holders /\ leaked' \subseteq Points
        BY <2>2, ReleaseTyped DEF Prepare, PreRelease, TargetInv
      <3>2. pc' \in Soon /\ pc \notin Installed
        BY <2>2 DEF Prepare, PreRelease, Proceed, Abort, Installed
      <3> QED
        BY <2>1, <3>1, <3>2 DEF TargetInv, Installed
    <2>3. CASE Wipe(bad)
      <3>1. UNCHANGED <<held, entries, leaked, os>> /\ pc' \in Soon /\ pc \notin Installed
        BY <2>3 DEF Wipe, Proceed, Abort, Installed
      <3>2. esp' \in EspT /\ disk' \in DiskT /\ seen' \in {"none", "old", "current"}
        BY <2>3, NoEspTyped DEF Wipe, TargetInv
      <3> QED
        BY <2>1, <3>1, <3>2 DEF TargetInv, Installed
    <2>4. CASE WriteImage(bad)
      <3>1. UNCHANGED <<held, entries, leaked, os>> /\ pc' \in Soon /\ pc \notin Installed
        BY <2>4 DEF WriteImage, Proceed, Abort, Installed
      <3>2. esp' \in EspT /\ disk' \in DiskT /\ seen' \in {"none", "old", "current"}
        <4>1. image.table \in {"gpt", "dos"}
          BY ImageTyped
        <4> QED
          BY <2>4, <4>1, NoEspTyped, ImageEspTyped DEF WriteImage, TargetInv
      <3> QED
        BY <2>1, <3>1, <3>2 DEF TargetInv, Installed
    <2>5. CASE Reread(bad)
      <3>1. UNCHANGED <<disk, esp, entries, os>> /\ pc' \in Soon /\ pc \notin Installed
        BY <2>5 DEF Reread, Proceed, Installed
      <3>2. held' \subseteq Holders /\ leaked' \subseteq Points /\ seen' \in {"none", "old", "current"}
        <4>1. (UNCHANGED <<held, leaked>>) \/ Release(bad)
          BY <2>5 DEF Reread
        <4>2. seen' \in {seen, "current"}
          BY <2>5 DEF Reread
        <4> QED
          BY <4>1, <4>2, ReleaseTyped DEF TargetInv
      <3> QED
        BY <2>1, <3>1, <3>2 DEF TargetInv, Installed
    <2>6. CASE CreateEspIfMissing(bad)
      <3>1. UNCHANGED <<held, entries, leaked, os>> /\ pc \notin Installed /\ tracked = {}
        BY <2>6 DEF CreateEspIfMissing, Installed, MountInv, Early
      <3>2. \/ Abort /\ UNCHANGED <<disk, esp, seen>>
            \/ EspSeen(bad) /\ FixEspType(bad) /\ Proceed("grow")
            \/ MakeEsp(bad)
            \/ ~host.uefi /\ Proceed("grow") /\ UNCHANGED <<disk, esp, seen>>
        BY <2>6 DEF CreateEspIfMissing
      <3>3. CASE Abort /\ UNCHANGED <<disk, esp, seen>>
        BY <2>1, <3>1, <3>3 DEF Abort, TargetInv, Installed
      <3>4. CASE EspSeen(bad) /\ FixEspType(bad) /\ Proceed("grow")
        <4>1. esp' \in EspT /\ esp'.part # "none" /\ UNCHANGED <<disk, seen>>
          <5>1. esp \in EspT /\ esp.part # "none" /\ UNCHANGED <<disk, seen>>
            BY <3>4 DEF EspSeen, FixEspType, TargetInv
          <5>2. \E b \in BOOLEAN : esp' = [esp EXCEPT !.typed = b]
            BY <3>4, <5>1 DEF FixEspType
          <5> QED
            BY <5>1, <5>2
        <4> QED
          BY <2>1, <3>1, <3>4, <4>1 DEF Proceed, TargetInv, Installed
      <3>5. CASE MakeEsp(bad)
        <4>1. pc = "esp"
          BY <2>6 DEF CreateEspIfMissing
        <4> QED
          BY <2>1, <3>1, <3>5, <4>1, EspMade DEF TargetInv, Installed
      <3>6. CASE ~host.uefi /\ Proceed("grow") /\ UNCHANGED <<disk, esp, seen>>
        BY <2>1, <3>1, <3>6 DEF Proceed, TargetInv, Installed
      <3> QED
        BY <3>2, <3>3, <3>4, <3>5, <3>6
    <2>7. CASE Grow(bad)
      <3>1. UNCHANGED <<disk, esp, entries, os>> /\ pc = "grow" /\ pc \notin Installed
        BY <2>7 DEF Grow, Installed
      <3>2. held' \subseteq Holders /\ leaked' \subseteq Points /\ seen' \in {"none", "old", "current"}
        <4>1. (UNCHANGED <<held, leaked>>) \/ Release(bad)
          BY <2>7 DEF Grow
        <4>2. seen' \in {seen, "current"}
          BY <2>7 DEF Grow
        <4> QED
          BY <4>1, <4>2, ReleaseTyped DEF TargetInv
      <3>3. pc' = "ended" \/ pc' = "unwind" \/ (pc' = "mount" /\ disk.table # "lost")
        BY <2>7 DEF Grow, Proceed, Abort
      <3> QED
        BY <2>1, <3>1, <3>2, <3>3 DEF TargetInv, Installed
    <2>8. CASE Mount(bad)
      <3>1. UNCHANGED <<held, seen, disk, esp, entries, leaked, os>> /\ pc = "mount"
        BY <2>8 DEF Mount
      <3>2. pc' \in {"ended", "unwind", "seed"}
        BY <2>8 DEF Mount, Proceed, Abort
      <3> QED
        BY <2>1, <3>1, <3>2 DEF TargetInv, Installed
    <2>9. CASE Seed(bad)
      <3>1. UNCHANGED <<held, seen, disk, esp, entries, leaked>> /\ pc = "seed" /\ pc' \in {"ended", "unwind", "grub"}
        BY <2>9 DEF Seed, Proceed, Abort
      <3>2. os' \in System
        <4>1. image.kernels \in SUBSET Kernels /\ image.bootAt \in BOOLEAN
          BY ImageTyped
        <4>2. ((image.bootAt \/ image.espAt = "/boot") /\ "/boot" \notin mounts) \in BOOLEAN
          BY <4>1
        <4> QED
          BY <2>9, <4>1, <4>2, ShippedTyped DEF Seed
      <3> QED
        BY <2>1, <3>1, <3>2 DEF TargetInv, Installed
    <2>10. CASE GrubHost(bad) \/ GrubChroot(bad)
      <3>1. UNCHANGED <<held, seen, disk, leaked>> /\ pc = "grub" /\ pc' \in {"ended", "unwind", "prune"}
        BY <2>10 DEF GrubHost, GrubChroot, Proceed, Abort
      <3>2. os \in System /\ (host.uefi => esp.part # "none") /\ esp \in EspT /\ entries \subseteq Entry
        BY <3>1 DEF TargetInv, Installed
      <3>3. os' \in System
        BY <2>10, <3>2, DebianTyped, RHELTyped DEF GrubHost, GrubChroot
      <3>4. \E new \in SUBSET EspFiles : esp' \in {esp, [esp EXCEPT !.files = new]}
        <4>1. CASE GrubHost(bad)
          <5>1. esp' = esp \/ esp' = [esp EXCEPT !.files = esp.files \cup {"metalkit"}]
            BY <4>1 DEF GrubHost
          <5> QED
            BY <3>2, <5>1 DEF EspFiles
        <4>2. CASE GrubChroot(bad)
          <5> DEFINE made == IF RegisterEFI(bad) THEN esp.files ELSE esp.files \cup {"distro"}
          <5>1. esp' = esp \/ esp' = [esp EXCEPT !.files = Normalised(made, bad)]
            BY <4>2 DEF GrubChroot
          <5>2. made \subseteq EspFiles
            BY <3>2 DEF EspFiles
          <5>3. Normalised(made, bad) \subseteq EspFiles
            BY <5>2 DEF Normalised, EspFiles
          <5> QED
            BY <3>2, <5>1, <5>3
        <4> QED
          BY <2>10, <4>1, <4>2
      <3>5. esp' \in EspT /\ esp'.part = esp.part
        BY <3>2, <3>4
      <3>6. entries' \subseteq Entry
        <4>1. \/ UNCHANGED entries
              \/ host.uefi /\ \E label \in {"metalkit", "distro"} : entries' = Registered(label)
          BY <2>10 DEF GrubHost, GrubChroot, RegisterEFI
        <4>2. ASSUME host.uefi, NEW label \in {"metalkit", "distro"} PROVE Registered(label) \subseteq Entry
          <5>1. [label |-> label, kind |-> Kind, part |-> esp.part] \in Entry
            BY <3>2, <4>2 DEF Entry, Kind
          <5> QED
            BY <3>2, <5>1 DEF Registered
        <4> QED
          BY <3>2, <4>1, <4>2
      <3> QED
        BY <2>1, <3>1, <3>2, <3>3, <3>5, <3>6 DEF TargetInv, Installed
    <2>11. CASE Prune(bad)
      <3>1. UNCHANGED <<held, seen, disk, esp, leaked, os>> /\ entries' \subseteq entries /\ pc = "prune" /\ pc' = "umount"
        BY <2>11 DEF Prune, Proceed
      <3> QED
        BY <2>1, <3>1 DEF TargetInv, Installed
    <2>12. CASE Unmount(bad) \/ Unwind(bad) \/ Succeed(bad)
      <3>1. UNCHANGED <<held, seen, disk, esp, entries, leaked, os>>
        BY <2>12 DEF Unmount, Unwind, Succeed
      <3>2. pc' \in {"ended", "unwind"} \/ (pc = "umount" /\ pc' = "succeed")
        BY <2>12 DEF Unmount, Unwind, Succeed, Proceed, Abort
      <3> QED
        BY <2>1, <3>1, <3>2 DEF TargetInv, Installed
    <2> QED
      BY <1>1, <2>2, <2>3, <2>4, <2>5, <2>6, <2>7, <2>8, <2>9, <2>10, <2>11, <2>12 DEF Failed, StageOf
  <1>2. CASE NextRun
    <2>1. held' \subseteq Holders /\ leaked' \subseteq Points
      BY <1>2 DEF NextRun, TargetInv, MountInv, Holders
    <2> QED
      BY <1>2, <2>1 DEF NextRun, TargetInv, Installed
  <1>3. CASE UNCHANGED vars
    BY <1>3 DEF vars, TargetInv
  <1> QED
    BY <1>1, <1>2, <1>3, StepCases

LEMMA TargetInit == InstallInit => TargetInv
  <1> SUFFICES ASSUME InstallInit PROVE TargetInv
    OBVIOUS
  <1>1. host \in Host
    BY InstallData DEF InstallInit
  <1>2. host.holders \subseteq Holders /\ host.entries \subseteq Entry
    BY <1>1 DEF Host
  <1> QED
    BY <1>2, NoEspTyped DEF InstallInit, TargetInv, Installed

(* What the three stages before the loader, and then the loader, do to the *)
(* boot entries is undone by the prune alone, which looks only at the disk *)
(* and at the EFI partition that is there now.                             *)
PruneFails == {"lsblk partuuid", "efibootmgr list", "efibootmgr delete"}
Pruned == host.uefi => (\A e \in entries : e.part # "old") \/ FailedNow \cap PruneFails # {}
StaleInv == pc \in {"umount", "succeed"} \/ outcome = "succeeded" => Pruned

LEMMA StaleStep == Progress /\ TargetInv /\ StaleInv /\ [InstallNext]_vars => StaleInv'
  <1> SUFFICES ASSUME Progress, TargetInv, StaleInv, [InstallNext]_vars PROVE StaleInv'
    OBVIOUS
  <1>1. ASSUME NEW bad, Failed(bad) PROVE StaleInv'
    <2>1. FailedNow' = FailedNow \cup bad /\ UNCHANGED host /\ outcome = "none"
      BY <1>1, StageProgress DEF Failed, Progress
    <2>2. CASE Prepare(bad) \/ PreRelease(bad) \/ Wipe(bad) \/ WriteImage(bad) \/ Reread(bad) \/ Grow(bad)
      BY <2>1, <2>2 DEF Prepare, PreRelease, Wipe, WriteImage, Reread, Grow, Proceed, Abort, StaleInv
    <2>3. CASE CreateEspIfMissing(bad)
      BY <2>1, <2>3 DEF CreateEspIfMissing, MakeEsp, Proceed, Abort, StaleInv
    <2>4. CASE Mount(bad)
      <3>1. Abort \/ Proceed("seed")
        BY <2>4 DEF Mount
      <3> QED
        BY <2>1, <3>1 DEF Proceed, Abort, StaleInv
    <2>5. CASE Seed(bad) \/ GrubHost(bad) \/ GrubChroot(bad)
      <3>1. Abort \/ \E next \in {"grub", "prune"} : Proceed(next)
        BY <2>5 DEF Seed, GrubHost, GrubChroot
      <3> QED
        BY <2>1, <3>1 DEF Proceed, Abort, StaleInv
    <2>6. CASE Prune(bad)
      <3>1. CASE host.uefi /\ bad \cap PruneFails = {}
        <4>1. entries' = {e \in entries : ~Stale(e, TRUE)}
          BY <2>6, <3>1 DEF Prune, PruneFails
        <4>2. \A e \in entries' : e.part # "old"
          BY <4>1 DEF Stale, TargetInv, Entry
        <4> QED
          BY <2>1, <4>2 DEF StaleInv, Pruned
      <3>2. CASE ~host.uefi \/ bad \cap PruneFails # {}
        BY <2>1, <3>2 DEF StaleInv, Pruned
      <3> QED
        BY <3>1, <3>2
    <2>7. CASE Unmount(bad) \/ Unwind(bad) \/ Succeed(bad)
      <3>1. UNCHANGED entries
        BY <2>7 DEF Unmount, Unwind, Succeed
      <3>2. CASE Unwind(bad)
        BY <2>1, <3>2 DEF Unwind, StaleInv
      <3>3. CASE Unmount(bad) \/ Succeed(bad)
        <4>1. Pruned
          BY <3>3 DEF Unmount, Succeed, StaleInv
        <4>2. Pruned'
          BY <2>1, <3>1, <4>1 DEF Pruned
        <4> QED
          BY <4>2 DEF StaleInv
      <3> QED
        BY <2>7, <3>2, <3>3
    <2> QED
      BY <1>1, <2>2, <2>3, <2>4, <2>5, <2>6, <2>7 DEF Failed, StageOf
  <1>2. CASE NextRun
    BY <1>2 DEF NextRun, StaleInv
  <1>3. CASE UNCHANGED vars
    BY <1>3 DEF vars, StaleInv, Pruned, FailedNow
  <1> QED
    BY <1>1, <1>2, <1>3, StepCases

(* After a success no boot entry of a partition that the write destroyed   *)
(* is left, unless the listing or a deletion failed: pruneStaleNVRAM of    *)
(* grub.go needs no more than the partition table it sees at the end.      *)
THEOREM StaleEntriesAreGone == Spec => []StaleEntriesGone
  <1>1. InstallInit => Progress /\ MountInv /\ TargetInv /\ StaleInv
    <2>1. InstallInit => MountInv /\ StaleInv
      BY DEF InstallInit, MountInv, NothingLeftMounted, Points, Early, Late, StaleInv
    <2> QED
      BY <2>1, ProgressInit, TargetInit
  <1>2. Progress /\ MountInv /\ TargetInv /\ StaleInv /\ [InstallNext]_vars => (Progress /\ MountInv /\ TargetInv /\ StaleInv)'
    BY ProgressStep, MountStep, TargetStep, StaleStep
  <1>3. StaleInv => StaleEntriesGone
    BY DEF StaleInv, Pruned, PruneFails, StaleEntriesGone
  <1> QED
    BY <1>1, <1>2, <1>3, SpecIsInstall, PTL DEF InstallSpec

-----------------------------------------------------------------------------
(* The seed: one write after the other, in the order of buildSeedCommon.   *)

UpToRelabel == {"data", "clean", "network", "renderer", "datasource", "keys", "relabel"}
AfterRelabel == {"direct", "vt init", "done"}

(* Until the relabel everything is written where it will reach; after it,  *)
(* with cloud-init, nothing is written but the console service.            *)
SeedInv ==
  /\ plan \in Plans /\ step \in S!Steps
  /\ step \in UpToRelabel => \A path \in unlabelled : path[1] \in S!Relabelled
  /\ step \in {"relabel"} \cup AfterRelabel /\ plan.keys => S!Keys \in written
  /\ step \in AfterRelabel /\ plan.rhel /\ plan.enforcing /\ plan.cloudInit =>
       \/ \A path \in unlabelled : path[1] = "systemd"
       \/ S!Autorelabel \in written \cup lost

LEMMA BondPaths ==
  ASSUME NEW dir
  PROVE  \A f \in S!BondOf(dir) : f.path[1] = dir
  BY DEF S!BondOf, S!Stanza

LEMMA ConfigPaths ==
  ASSUME NEW path, NEW f \in S!NetworkConfig(path)
  PROVE  f.path = path
  <1> DEFINE port(p) == IF S!MacOfPort(p) # S!None THEN S!OnMac(path, "port", S!MacOfPort(p), FALSE) ELSE S!OnName(path, "port", p, FALSE)
  <1>1. ASSUME NEW p PROVE port(p).path = path
    BY DEF S!OnMac, S!OnName, S!Stanza
  <1>2. \/ \E kind, mac, b : f = S!OnMac(path, kind, mac, b)
        \/ \E kind, name, b : f = S!OnName(path, kind, name, b)
        \/ \E p : f = port(p)
        \/ \E g \in S!BondOf("seed") : f = [g EXCEPT !.path = path]
    BY DEF S!NetworkConfig
  <1>3. ASSUME NEW g \in S!BondOf("seed") PROVE [g EXCEPT !.path = path].path = path
    BY DEF S!BondOf, S!Stanza
  <1>4. CASE \E g \in S!BondOf("seed") : f = [g EXCEPT !.path = path]
    BY <1>3, <1>4
  <1>5. CASE \E p : f = port(p)
    BY <1>1, <1>5
  <1>6. CASE \/ \E kind, mac, b : f = S!OnMac(path, kind, mac, b)
            \/ \E kind, name, b : f = S!OnName(path, kind, name, b)
    BY <1>6 DEF S!OnMac, S!OnName, S!Stanza
  <1> QED
    BY <1>2, <1>4, <1>5, <1>6

LEMMA FilePaths ==
  /\ \A f \in S!Keyfiles : f.path[1] = "keyfile"
  /\ \A f \in S!Ifcfg : f.path[1] = "ifcfg"
  /\ \A f \in S!Interfaces : f.path[1] = "interfaces"
  /\ \A f \in S!Wicked : f.path[1] = "wicked"
  <1>1. ASSUME NEW f \in S!Keyfiles PROVE f.path[1] = "keyfile"
    <2>1. \/ f \in S!BondOf("keyfile")
          \/ \E kind, mac, b, file : f = S!OnMac(<<"keyfile", file>>, kind, mac, b)
      BY DEF S!Keyfiles
    <2> QED
      BY <2>1, BondPaths DEF S!OnMac, S!OnName, S!Stanza
  <1>2. ASSUME NEW f \in S!Ifcfg PROVE f.path[1] = "ifcfg"
    <2>1. \/ f \in S!BondOf("ifcfg")
          \/ \E kind, mac, b, file : f = S!OnMac(<<"ifcfg", file>>, kind, mac, b)
          \/ \E kind, name, b, file : f = S!OnName(<<"ifcfg", file>>, kind, name, b)
      BY DEF S!Ifcfg
    <2> QED
      BY <2>1, BondPaths DEF S!OnMac, S!OnName, S!Stanza
  <1>3. ASSUME NEW f \in S!Interfaces PROVE f.path[1] = "interfaces"
    <2>1. \/ \E g \in S!BondOf("interfaces") : f = [g EXCEPT !.path = <<"interfaces", "file">>]
          \/ \E kind, name, b : f = S!OnName(<<"interfaces", "file">>, kind, name, b)
      BY DEF S!Interfaces
    <2>2. ASSUME NEW g \in S!BondOf("interfaces"), NEW path PROVE [g EXCEPT !.path = path].path = path
      BY DEF S!BondOf, S!Stanza
    <2>3. CASE \E g \in S!BondOf("interfaces") : f = [g EXCEPT !.path = <<"interfaces", "file">>]
      BY <2>2, <2>3
    <2>4. CASE \E kind, name, b : f = S!OnName(<<"interfaces", "file">>, kind, name, b)
      BY <2>4 DEF S!OnName, S!Stanza
    <2> QED
      BY <2>1, <2>3, <2>4
  <1>4. ASSUME NEW f \in S!Wicked PROVE f.path[1] = "wicked"
    <2>1. \/ f \in S!BondOf("wicked")
          \/ \E kind, name, b, file : f = S!OnName(<<"wicked", file>>, kind, name, b)
      BY DEF S!Wicked
    <2> QED
      BY <2>1, BondPaths DEF S!OnMac, S!OnName, S!Stanza
  <1> QED
    BY <1>1, <1>2, <1>3, <1>4

LEMMA RendererDirs ==
  ASSUME plan \in Plans
  PROVE  /\ \A path \in S!PathsOf(S!SeedNetwork) : path[1] = "seed"
         /\ \A path \in S!PathsOf(S!RendererStanzas) \cup S!RendererPaths :
              path[1] \in {"keyfile", "ifcfg", "interfaces", "wicked", "cloud.cfg.d"}
  <1>1. plan.renderer \in {"netplan", "network-manager", "sysconfig", "eni", "wicked"}
    BY PlanData DEF S!Plan
  <1>2. \A f \in S!SeedNetwork : f.path[1] = "seed"
    BY ConfigPaths DEF S!SeedNetwork
  <1>3. \A f \in S!RendererStanzas : f.path[1] \in {"keyfile", "ifcfg", "interfaces", "wicked"}
    BY <1>1, FilePaths DEF S!RendererStanzas
  <1>4. \A path \in S!RendererPaths : path[1] = "cloud.cfg.d"
    <2>1. S!NoNetwork[1] = "cloud.cfg.d" /\ S!Pin[1] = "cloud.cfg.d"
      BY DEF S!NoNetwork, S!Pin
    <2>2. S!RendererPaths \subseteq {S!NoNetwork, S!Pin}
      BY DEF S!RendererPaths
    <2> QED
      BY <2>1, <2>2
  <1> QED
    BY <1>2, <1>3, <1>4 DEF S!PathsOf

(* What a step writes is all that it adds to the unlabelled paths.         *)
LEMMA PutAdds ==
  ASSUME NEW stanzas, NEW paths, NEW bad, S!Put(stanzas, paths, bad)
  PROVE  /\ unlabelled' \subseteq unlabelled \cup S!PathsOf(stanzas) \cup paths
         /\ written \subseteq written' /\ paths \ bad \subseteq written' /\ lost' = lost \cup bad
  BY DEF S!Put

LEMMA PlainPaths ==
  /\ S!PathsOf({}) = {} /\ S!Keys[1] = "ssh keys" /\ S!Datasource[1] = "cloud.cfg.d"
  /\ <<"systemd", "file">>[1] = "systemd" /\ \A path \in S!SeedData : path[1] = "seed"
  <1>1. <<"seed", "user-data">>[1] = "seed" /\ <<"seed", "meta-data">>[1] = "seed"
    OBVIOUS
  <1>2. \A path \in S!SeedData : path[1] = "seed"
    BY <1>1 DEF S!SeedData
  <1> QED
    BY <1>2 DEF S!PathsOf, S!Keys, S!Datasource

LEMMA SeedWrites ==
  ASSUME SeedInv, S!Next
  PROVE  SeedInv'
  <1> DEFINE Dirs(paths) == \A path \in paths : path[1] \in S!Relabelled
  <1>1. UNCHANGED plan /\ plan \in Plans
    BY DEF S!Next, S!WriteData, S!CleanStaleNetworkConfig, S!WriteNetworkConfig, S!WriteRenderer, S!WriteDatasource,
           S!WriteAuthorizedKeys, S!Relabel, S!WriteDirect, S!WriteVTInitService, SeedInv
  <1>2. ASSUME NEW stanzas, NEW paths, NEW bad, S!Put(stanzas, paths, bad), step \in UpToRelabel \ {"relabel"},
               Dirs(S!PathsOf(stanzas) \cup paths), step' \in UpToRelabel \cup {"failed"},
               step' = "relabel" /\ plan.keys => S!Keys \in paths \ bad
        PROVE  SeedInv'
    <2>1. \A path \in unlabelled' : path[1] \in S!Relabelled
      BY <1>2, PutAdds DEF SeedInv
    <2>2. step' = "relabel" /\ plan.keys => S!Keys \in written'
      BY <1>2, PutAdds
    <2> QED
      BY <1>1, <1>2, <2>1, <2>2 DEF SeedInv, UpToRelabel, AfterRelabel, S!Steps
  <1>3. ASSUME NEW bad, S!WriteData(bad) PROVE SeedInv'
    <2>1. S!Put({}, S!SeedData, bad) /\ step \in UpToRelabel \ {"relabel"} /\ step' \in {"clean", "failed"}
      BY <1>3 DEF S!WriteData, S!Fatal, S!After, UpToRelabel
    <2>2. Dirs(S!PathsOf({}) \cup S!SeedData)
      BY PlainPaths DEF S!Relabelled
    <2> QED
      BY <1>2, <2>1, <2>2 DEF UpToRelabel
  <1>4. ASSUME NEW bad, S!CleanStaleNetworkConfig(bad) PROVE SeedInv'
    BY <1>1, <1>4 DEF S!CleanStaleNetworkConfig, S!Ignored, S!After, SeedInv, UpToRelabel, AfterRelabel, S!Steps
  <1>5. ASSUME NEW bad, S!WriteNetworkConfig(bad) PROVE SeedInv'
    <2>1. S!Put(S!SeedNetwork, {}, bad) /\ step \in UpToRelabel \ {"relabel"} /\ step' \in {"renderer", "failed"}
      BY <1>5 DEF S!WriteNetworkConfig, S!Fatal, S!After, UpToRelabel
    <2>2. Dirs(S!PathsOf(S!SeedNetwork) \cup {})
      BY <1>1, RendererDirs DEF S!Relabelled
    <2> QED
      BY <1>2, <2>1, <2>2 DEF UpToRelabel
  <1>6. ASSUME NEW bad, S!WriteRenderer(bad) PROVE SeedInv'
    <2>1. S!Put(S!RendererStanzas, S!RendererPaths, bad) /\ step \in UpToRelabel \ {"relabel"} /\ step' = "datasource"
      BY <1>6 DEF S!WriteRenderer, S!Ignored, S!After, UpToRelabel
    <2>2. Dirs(S!PathsOf(S!RendererStanzas) \cup S!RendererPaths)
      BY <1>1, RendererDirs DEF S!Relabelled
    <2> QED
      BY <1>2, <2>1, <2>2 DEF UpToRelabel
  <1>7. ASSUME NEW bad, S!WriteDatasource(bad) PROVE SeedInv'
    <2>1. S!Put({}, {S!Datasource}, bad) /\ step \in UpToRelabel \ {"relabel"} /\ step' \in {"keys", "failed"}
      BY <1>7 DEF S!WriteDatasource, S!Fatal, S!After, UpToRelabel
    <2>2. Dirs(S!PathsOf({}) \cup {S!Datasource})
      BY PlainPaths DEF S!Relabelled
    <2> QED
      BY <1>2, <2>1, <2>2 DEF UpToRelabel
  <1>8. ASSUME NEW bad, S!WriteAuthorizedKeys(bad) PROVE SeedInv'
    <2> DEFINE paths == IF plan.keys THEN {S!Keys} ELSE {}
    <2>1. S!Put({}, paths, bad) /\ step \in UpToRelabel \ {"relabel"} /\ step' = IF bad = {} THEN "relabel" ELSE "failed"
      BY <1>8 DEF S!WriteAuthorizedKeys, S!Fatal, S!After, UpToRelabel
    <2>2. Dirs(S!PathsOf({}) \cup paths)
      BY PlainPaths DEF S!Relabelled
    <2>3. step' = "relabel" /\ plan.keys => S!Keys \in paths \ bad
      BY <2>1
    <2> HIDE DEF paths
    <2> QED
      BY <1>2, <2>1, <2>2, <2>3 DEF UpToRelabel
  <1>9. ASSUME NEW bad, S!Relabel(bad) PROVE SeedInv'
    <2>1. step = "relabel" /\ step' = "direct" /\ lost' = lost \cup bad
      BY <1>9 DEF S!Relabel, S!Ignored, S!After
    <2>2. written \subseteq written'
      BY <1>9 DEF S!Relabel
    <2>3. plan.rhel /\ plan.enforcing =>
            \/ \A path \in unlabelled' : path[1] = "systemd"
            \/ S!Autorelabel \in written' \cup lost'
      <3>1. CASE plan.rhel /\ plan.enforcing /\ S!Restorecon \notin bad
        <4>1. unlabelled' = {path \in unlabelled : path[1] \notin S!Relabelled}
          BY <1>9, <3>1 DEF S!Relabel
        <4> QED
          BY <2>1, <4>1 DEF SeedInv, UpToRelabel
      <3>2. CASE plan.rhel /\ plan.enforcing /\ S!Restorecon \in bad
        BY <1>9, <2>1, <3>2 DEF S!Relabel
      <3> QED
        BY <3>1, <3>2
    <2> QED
      BY <1>1, <2>1, <2>2, <2>3 DEF SeedInv, UpToRelabel, AfterRelabel, S!Steps
  <1>10. ASSUME NEW bad, S!WriteDirect(bad) PROVE SeedInv'
    <2>1. step = "direct" /\ step' = "vt init"
      BY <1>10 DEF S!WriteDirect, S!Ignored, S!After
    <2>2. written \subseteq written' /\ lost \subseteq lost'
      BY <1>10, PutAdds DEF S!WriteDirect
    <2>3. plan.cloudInit => unlabelled' \subseteq unlabelled
      BY <1>10 DEF S!WriteDirect, S!Put, S!PathsOf
    <2> QED
      BY <1>1, <2>1, <2>2, <2>3 DEF SeedInv, UpToRelabel, AfterRelabel, S!Steps
  <1>11. ASSUME NEW bad, S!WriteVTInitService(bad) PROVE SeedInv'
    <2>1. step = "vt init" /\ step' = "done" /\ S!Put({}, {<<"systemd", "file">>}, bad)
      BY <1>11 DEF S!WriteVTInitService, S!Ignored, S!After
    <2>2. written \subseteq written' /\ lost \subseteq lost'
      BY <2>1, PutAdds
    <2>3. \A path \in unlabelled' : path \in unlabelled \/ path[1] = "systemd"
      <3>1. unlabelled' \subseteq unlabelled \cup S!PathsOf({}) \cup {<<"systemd", "file">>}
        BY <2>1, PutAdds
      <3>2. S!PathsOf({}) = {} /\ <<"systemd", "file">>[1] = "systemd"
        BY PlainPaths
      <3> QED
        BY <3>1, <3>2
    <2> QED
      BY <1>1, <2>1, <2>2, <2>3 DEF SeedInv, UpToRelabel, AfterRelabel, S!Steps
  <1> QED
    BY <1>3, <1>4, <1>5, <1>6, <1>7, <1>8, <1>9, <1>10, <1>11 DEF S!Next

(* A fatal write of the seed fails the stage, so that the run goes on only *)
(* when all of them have been made.                                        *)
SeedStage ==
  /\ pc \in Early \cup {"seed"} => <<run, "write seed">> \notin failures
  /\ pc \in Installed \/ outcome = "succeeded" => step = "done"

LEMMA SeedFails == Stage => \E bad : StageOf(bad) /\ ("write seed" \in bad => pc = "seed")
  <1> SUFFICES ASSUME Stage PROVE \E bad : StageOf(bad) /\ ("write seed" \in bad => pc = "seed")
    OBVIOUS
  <1> DEFINE Goal == \E bad : StageOf(bad) /\ ("write seed" \in bad => pc = "seed")
  <1>1. ASSUME NEW commands, NEW bad \in Failing(commands), StageOf(bad), pc # "seed" => "write seed" \notin commands PROVE Goal
    BY <1>1, FewFail
  <1>2. CASE \/ \E bad \in Failing({"stage", "list disks"}) : Prepare(bad)
             \/ \E bad \in Failing(ReleaseCommands) : PreRelease(bad)
             \/ \E bad \in Failing({"sgdisk -Z", "download"}) : Wipe(bad)
             \/ \E bad \in Failing({"spool", "qemu-img", "sync"}) : WriteImage(bad)
    <2>1. \E commands : "write seed" \notin commands /\ \E bad \in Failing(commands) : StageOf(bad)
      BY <1>2 DEF StageOf, ReleaseCommands
    <2> QED
      BY <1>1, <2>1
  <1>3. CASE \/ \E bad \in Failing({"partprobe", "partprobe again", "blockdev", "partx"} \cup ReleaseCommands) : Reread(bad)
             \/ \E bad \in Failing(EspCommands) : CreateEspIfMissing(bad)
             \/ \E bad \in Failing({"partprobe grow", "blockdev grow", "growpart", "resize2fs"} \cup ReleaseCommands) : Grow(bad)
             \/ \E bad \in Failing(MountCommands \cup Points) : Mount(bad)
    <2>1. \E commands : "write seed" \notin commands /\ \E bad \in Failing(commands) : StageOf(bad)
      BY <1>3 DEF StageOf, ReleaseCommands, EspCommands, MountCommands, Points
    <2> QED
      BY <1>1, <2>1
  <1>4. CASE \E bad \in Failing({"xfs_growfs", "write seed", "implant"}) : Seed(bad)
    BY <1>4 DEF Seed, StageOf
  <1>5. CASE \/ \E bad \in Failing({"grub-install"} \cup HostCommands) : GrubHost(bad)
             \/ \E bad \in Failing({"efibootmgr create", "grub2-install", "cp"} \cup ChrootCommands) : GrubChroot(bad)
             \/ \E bad \in Failing({"lsblk partuuid", "efibootmgr list", "efibootmgr delete"}) : Prune(bad)
    <2>1. \E commands : "write seed" \notin commands /\ \E bad \in Failing(commands) : StageOf(bad)
      BY <1>5 DEF StageOf, HostCommands, ChrootCommands
    <2> QED
      BY <1>1, <2>1
  <1>6. CASE \/ \E bad \in Failing(Points) : Unmount(bad)
             \/ \E bad \in Failing(Points) : Unwind(bad)
             \/ \E bad \in Failing({"report"}) : Succeed(bad)
    <2>1. \E commands : "write seed" \notin commands /\ \E bad \in Failing(commands) : StageOf(bad)
      BY <1>6 DEF StageOf, Points
    <2> QED
      BY <1>1, <2>1
  <1> QED
    BY <1>2, <1>3, <1>4, <1>5, <1>6 DEF Stage

(* The stages come in order.                                               *)
LEMMA StageOrder ==
  ASSUME NEW bad, StageOf(bad)
  PROVE  /\ pc' \in Early \cup {"seed"} => pc \in Early
         /\ pc' \in Installed => pc \in Installed \/ (pc = "seed" /\ bad = {})
         /\ outcome' = "succeeded" => pc \in Installed \/ outcome = "succeeded"
  <1> DEFINE Goal == /\ pc' \in Early \cup {"seed"} => pc \in Early
                     /\ pc' \in Installed => pc \in Installed \/ (pc = "seed" /\ bad = {})
                     /\ outcome' = "succeeded" => pc \in Installed \/ outcome = "succeeded"
  <1> USE DEF Early, Installed, Proceed
  <1>1. Abort => pc' \in {"unwind", "ended"} /\ outcome' \in {outcome, "failed"}
    BY DEF Abort
  <1>2. CASE Prepare(bad) \/ PreRelease(bad) \/ Wipe(bad) \/ WriteImage(bad) \/ Reread(bad) \/ Grow(bad)
    BY <1>1, <1>2 DEF Prepare, PreRelease, Wipe, WriteImage, Reread, Grow
  <1>3. CASE CreateEspIfMissing(bad)
    BY <1>1, <1>3 DEF CreateEspIfMissing, MakeEsp
  <1>4. CASE Mount(bad)
    <2>1. pc = "mount" /\ (Abort \/ Proceed("seed"))
      BY <1>4 DEF Mount
    <2> QED
      BY <1>1, <2>1
  <1>5. CASE Seed(bad)
    BY <1>1, <1>5 DEF Seed
  <1>6. CASE GrubHost(bad) \/ GrubChroot(bad)
    <2>1. pc = "grub" /\ (Abort \/ Proceed("prune"))
      BY <1>6 DEF GrubHost, GrubChroot
    <2> QED
      BY <1>1, <2>1
  <1>7. CASE Prune(bad) \/ Unmount(bad)
    <2>1. pc \in {"prune", "umount"} /\ (Abort \/ \E next \in {"umount", "succeed"} : Proceed(next))
      BY <1>7 DEF Prune, Unmount
    <2> QED
      BY <1>1, <2>1
  <1>8. CASE Unwind(bad) \/ Succeed(bad)
    BY <1>8 DEF Unwind, Succeed
  <1> QED
    BY <1>2, <1>3, <1>4, <1>5, <1>6, <1>7, <1>8 DEF StageOf

LEMMA SeedStageStep == Progress /\ SeedInv /\ SeedStage /\ [Next]_runVars => (SeedInv /\ SeedStage)'
  <1> SUFFICES ASSUME Progress, SeedInv, SeedStage, [Next]_runVars PROVE (SeedInv /\ SeedStage)'
    OBVIOUS
  <1>1. CASE WriteSeed
    <2>1. SeedInv'
      BY <1>1, SeedWrites DEF WriteSeed
    <2>2. UNCHANGED vars /\ pc = "seed"
      BY <1>1 DEF WriteSeed
    <2> QED
      BY <2>1, <2>2 DEF SeedStage, Progress, vars, Installed
  <1>2. CASE RunStage
    <2>1. SeedInv'
      BY <1>2 DEF RunStage, seedVars, SeedInv
    <2>2. PICK bad : StageOf(bad) /\ ("write seed" \in bad => pc = "seed")
      BY <1>2, SeedFails DEF RunStage
    <2>3. UNCHANGED <<run, step>> /\ failures' = failures \cup {<<run, c>> : c \in bad}
      BY <1>2, <2>2, StageProgress DEF RunStage, seedVars, Log
    <2>4. pc' \in Early \cup {"seed"} => <<run, "write seed">> \notin failures'
      <3>1. pc' \in Early \cup {"seed"} => pc \in Early
        BY <2>2, StageOrder
      <3>2. pc' \in Early \cup {"seed"} => "write seed" \notin bad
        BY <2>2, <3>1 DEF Early
      <3> QED
        BY <2>3, <3>1, <3>2 DEF SeedStage
    <2>5. pc = "seed" /\ bad = {} => step = "done"
      <3> SUFFICES ASSUME pc = "seed", bad = {} PROVE step = "done"
        OBVIOUS
      <3>1. <<run, "write seed">> \notin failures'
        BY <2>3 DEF SeedStage
      <3> QED
        BY <1>2, <3>1 DEF RunStage
    <2> QED
      BY <2>1, <2>2, <2>3, <2>4, <2>5, StageOrder DEF SeedStage
  <1>3. CASE RunAgain
    <2>1. SeedInv'
      BY <1>3 DEF RunAgain, SeedInv, UpToRelabel, AfterRelabel, S!Steps
    <2>2. <<run', "write seed">> \notin failures'
      <3>1. run \in Nat /\ run' = run + 1 /\ failures' = failures /\ \A f \in failures : f[1] \in 1..run
        BY <1>3, InstallBounds DEF RunAgain, NextRun, Progress
      <3>2. <<run', "write seed">>[1] \notin 1..run
        BY <3>1
      <3> QED
        BY <3>1, <3>2
    <2> QED
      BY <1>3, <2>1, <2>2 DEF RunAgain, NextRun, SeedStage, Installed
  <1>4. CASE UNCHANGED runVars
    BY <1>4 DEF runVars, vars, seedVars, SeedInv, SeedStage
  <1> QED
    BY <1>1, <1>2, <1>3, <1>4 DEF Next

(* After a success every fatal write of the seed was made, and where       *)
(* SELinux is enforced what a login depends on is labelled, the keys       *)
(* included, or a relabel of everything was asked for: the order of        *)
(* buildSeedCommon leaves nothing of it behind the restorecon.             *)
THEOREM LoginIsLabelled == Spec => []((outcome = "succeeded" => step = "done") /\ LoginLabelled)
  <1>1. Init => Progress /\ SeedInv /\ SeedStage
    <2>1. Init => InstallInit /\ Progress
      BY ProgressInit DEF Init
    <2>2. Init => SeedInv /\ SeedStage
      BY <2>1 DEF Init, InstallInit, S!Init, SeedInv, SeedStage, UpToRelabel, AfterRelabel, Installed, S!Steps
    <2> QED
      BY <2>1, <2>2
  <1>2. Progress /\ SeedInv /\ SeedStage /\ [Next]_runVars => (Progress /\ SeedInv /\ SeedStage)'
    BY RunIsInstall, ProgressStep, SeedStageStep
  <1>3. SeedInv /\ SeedStage => (outcome = "succeeded" => step = "done") /\ LoginLabelled
    BY DEF SeedInv, SeedStage, LoginLabelled, S!LoginLabelled, AfterRelabel
  <1> QED
    BY <1>1, <1>2, <1>3, PTL DEF Spec

-----------------------------------------------------------------------------
(* A run on a machine and image that the pipeline supports.                *)

Blamed == \E b \in Blame : b \subseteq FailedNow

(* What createESPIfMissing leaves, if nothing to blame failed.             *)
EspAsMade ==
  IF host.uefi /\ image.esp = "none"
    THEN disk.table = "gpt" /\ esp.part = "new" /\ esp.typed /\ esp.files = {}
    ELSE disk.table = image.table /\ esp.part = ImageEsp.part /\ esp.files = ImageEsp.files /\ (host.uefi => esp.typed)

(* Where Mount then finds the EFI partition.                               *)
EspPlace == IF image.espAt # "none" THEN image.espAt ELSE IF esp.part # "none" THEN "/boot/efi" ELSE "none"

BeforeRelease == {"prepare", "release", "ended"}

(* What holds the target is what the machine came with or an earlier run   *)
(* left mounted; past the release only what a failed command kept.         *)
HeldInv ==
  /\ held \subseteq host.holders \cup {"mount"}
  /\ Supported /\ pc \notin BeforeRelease /\ held # {} => FailedNow # {}

(* The firmware finds a loader that the prune does not take away.          *)
LoaderIsFound ==
  IF host.uefi
    THEN /\ esp.part # "none" /\ esp.typed
         /\ \/ "fallback" \in esp.files
            \/ disk.table = "gpt" /\ \E e \in entries : e.part = esp.part /\ e.kind = "gpt" /\ e.label \in esp.files
    ELSE image.bios

(* The pipeline is on its way to a machine that boots.                     *)
OnCourse ==
  /\ pc \in {"reread", "esp"} => disk.table = image.table /\ esp = ImageEsp
  /\ pc = "esp" => seen = "current"
  /\ pc \in {"grow", "mount", "seed", "grub"} => EspAsMade
  /\ pc \in {"seed", "grub"} => At = EspPlace /\ (image.bootAt \/ image.espAt = "/boot" => "/boot" \in mounts)
  /\ pc = "grub" => os = Shipped(image.kernels, FALSE)
  /\ pc = "prune" => LoaderIsFound
  /\ pc \in {"prune", "umount", "succeed"} \/ outcome = "succeeded" => Boots

(* A run in which nothing failed has not been given up.                    *)
Clean ==
  /\ pc # "unwind" /\ outcome # "failed"
  /\ pc \in {"esp", "grow"} => seen = "current"

CourseInv ==
  /\ HeldInv
  /\ Supported /\ ~Blamed => OnCourse
  /\ Supported /\ FailedNow = {} => Clean

(* The kernels: what the loader starts can mount the root.                 *)

LEMMA KernelSets ==
  ASSUME NEW kernels \in (SUBSET Kernels) \ {{}}
  PROVE  /\ kernels \in {{"stripped"}, {"full"}, {"stripped", "full"}}
         /\ Cardinality({"stripped"}) = 1 /\ Cardinality({"stripped", "full"}) = 2
  <1>1. kernels \in {{"stripped"}, {"full"}, {"stripped", "full"}}
    BY DEF Kernels
  <1>2. IsFiniteSet({"stripped"}) /\ Cardinality({"stripped"}) = 1
    BY FS_Singleton
  <1>3. Cardinality({"stripped"} \cup {"full"}) = Cardinality({"stripped"}) + 1
    BY <1>2, FS_AddElement
  <1>4. {"stripped"} \cup {"full"} = {"stripped", "full"}
    OBVIOUS
  <1> QED
    BY <1>1, <1>2, <1>3, <1>4

(* A system with one kernel, whose initrd carries the drivers; the menu    *)
(* may still list others.                                                  *)
Sound(s) ==
  /\ s \in System /\ s.images = {"full"} /\ "full" \in s.modules
  /\ s.complete = {"full"} /\ s.initrd = {"full"} /\ ~s.hidden

LEMMA SoundUpdates ==
  ASSUME NEW s, Sound(s), NEW failed
  PROVE  LET u == UpdateGrub(s, failed) IN
         Sound(u) /\ u.default = s.default /\ u.menu = IF failed THEN s.menu ELSE {"full"}
  BY DEF UpdateGrub, Sound, System

LEMMA SoundStarts ==
  ASSUME NEW s, Sound(s), s.menu = {"full"}, NEW raid
  PROVE  ~s.hidden /\ KernelStarts(s, raid)
  BY DEF KernelStarts, Started, Sound

LEMMA ShippedFields ==
  ASSUME NEW kernels \in SUBSET Kernels
  PROVE  LET s == Shipped(kernels, FALSE) IN
         /\ s \in System /\ s.modules = kernels /\ s.images = kernels /\ s.menu = kernels
         /\ s.complete = kernels \cap {"full"} /\ s.initrd = kernels \cap {"full"}
         /\ s.default = NoKernel /\ ~s.hidden
  <1>1. FALSE \in BOOLEAN
    OBVIOUS
  <1>2. Shipped(kernels, FALSE) \in System
    BY <1>1, ShippedTyped
  <1> QED
    BY <1>2 DEF Shipped

(* What is left of a stock image once its menu has been generated.         *)
Stock(s, kernels) ==
  /\ s \in System /\ s.modules = kernels /\ s.images = kernels /\ s.menu = kernels
  /\ s.complete = kernels \cap {"full"} /\ s.initrd = kernels \cap {"full"}
  /\ s.default = NoKernel /\ ~s.hidden

LEMMA StockMenu ==
  ASSUME NEW kernels \in SUBSET Kernels, NEW bad, "chroot mkconfig" \notin bad
  PROVE  Stock(GenerateMenu(Shipped(kernels, FALSE), bad), kernels)
  <1> DEFINE s == Shipped(kernels, FALSE)
  <1>1. Stock(s, kernels)
    BY ShippedFields DEF Stock
  <1> HIDE DEF s
  <1>2. GenerateMenu(s, bad) = [s EXCEPT !.menu = s.images]
    BY <1>1 DEF GenerateMenu, UpdateGrub, Stock
  <1>3. Stock([s EXCEPT !.menu = s.images], kernels)
    BY <1>1 DEF Stock, System
  <1> QED
    BY <1>2, <1>3 DEF s

LEMMA DebianStarts ==
  ASSUME NEW kernels \in (SUBSET Kernels) \ {{}}, NEW raid, NEW bad,
         \A b \in KernelBlame : ~(b \subseteq bad)
  PROVE  LET s == AfterInstallDebian(Shipped(kernels, FALSE), bad) IN ~s.hidden /\ KernelStarts(s, raid)
  <1> DEFINE m == GenerateMenu(Shipped(kernels, FALSE), bad)
             both == {"stripped", "full"}
  <1>1. /\ "chroot mkconfig" \notin bad /\ "apt-get install" \notin bad
        /\ ~({"update-grub after purge", "update-grub to pin", "update-grub for saved"} \subseteq bad)
    BY DEF KernelBlame
  <1>2. Stock(m, kernels)
    BY <1>1, StockMenu
  <1> HIDE DEF m
  <1>3. CASE kernels = {"full"}
    <2>1. Sound(m) /\ m.menu = {"full"} /\ m.modules \subseteq m.complete
      BY <1>2, <1>3 DEF Stock, Sound
    <2>2. RegenerateInitramfsDebian(m, bad) = m
      BY <2>1 DEF RegenerateInitramfsDebian
    <2> QED
      BY <2>1, <2>2, SoundStarts DEF AfterInstallDebian, m
  <1>4. CASE kernels \in {{"stripped"}, both}
    <2> DEFINE a == AptInstall(m)
               p == PurgeCloudKernel(a, bad)
               f == PinDefaultKernel(p, bad)
    <2>1. /\ a \in System /\ a.modules = both /\ a.images = both /\ a.complete = {"full"} /\ a.initrd = {"full"}
          /\ ~a.hidden /\ a.menu = kernels
      <3>1. kernels \cup {"full"} = both /\ (kernels \cap {"full"}) \cup {"full"} = {"full"}
        BY <1>4
      <3> QED
        BY <1>2, <3>1 DEF AptInstall, Stock, System, Kernels
    <2>2. RegenerateInitramfsDebian(m, bad) = f
      <3>1. ~(m.modules \subseteq m.complete)
        BY <1>2, <1>4 DEF Stock
      <3> QED
        BY <1>1, <3>1 DEF RegenerateInitramfsDebian
    <2> HIDE DEF a
    <2>3. Sound(p) /\ ("update-grub after purge" \notin bad => p.menu = {"full"})
      <3> DEFINE left == [a EXCEPT !.images = a.images \ (a.modules \ a.complete),
                                   !.modules = IF "rm modules" \in bad THEN a.modules ELSE a.modules \ (a.modules \ a.complete)]
      <3>1. a.modules \ a.complete = {"stripped"} /\ a.images \ {"stripped"} = {"full"} /\ a.modules \ {"stripped"} = {"full"}
        BY <2>1
      <3>2. Sound(left)
        BY <2>1, <3>1 DEF Sound, System, Kernels
      <3>3. Cardinality(a.modules) = 2
        BY <2>1, KernelSets
      <3>4. p = UpdateGrub(left, "update-grub after purge" \in bad)
        <4>1. ~(Cardinality(a.modules) <= 1 \/ a.modules \ a.complete = {} \/ a.modules \ a.complete = a.modules)
          BY <2>1, <3>1, <3>3
        <4> QED
          BY <4>1, Zenon DEF PurgeCloudKernel
      <3> HIDE DEF left, p
      <3> QED
        BY <3>2, <3>4, SoundUpdates
    <2> HIDE DEF p
    <2>4. Sound(f) /\ f.menu = {"full"}
      <3> DEFINE once == UpdateGrub(p, "update-grub to pin" \in bad)
                 again == UpdateGrub(once, "update-grub for saved" \in bad)
      <3>1. BestKernel(p) = "full" /\ "full" # NoKernel
        BY <2>3 DEF BestKernel, NoKernel, Sound
      <3>2. Sound(once) /\ (once.menu = {"full"} \/ ("update-grub to pin" \in bad /\ once.menu = p.menu))
        BY <2>3, SoundUpdates
      <3>3. f = again \/ f = [again EXCEPT !.default = "full"]
        BY <3>1 DEF PinDefaultKernel
      <3> HIDE DEF once, f
      <3>4. Sound(again) /\ (again.menu = {"full"} \/ ("update-grub for saved" \in bad /\ again.menu = once.menu))
        BY <3>2, SoundUpdates
      <3> HIDE DEF again
      <3>5. again.menu = {"full"}
        BY <1>1, <2>3, <3>2, <3>4
      <3>6. Sound([again EXCEPT !.default = "full"]) /\ [again EXCEPT !.default = "full"].menu = {"full"}
        BY <3>4, <3>5 DEF Sound, System, Kernels
      <3> QED
        BY <3>3, <3>4, <3>5, <3>6
    <2> HIDE DEF f
    <2> QED
      BY <2>2, <2>4, SoundStarts DEF AfterInstallDebian, m
  <1> QED
    BY <1>3, <1>4, KernelSets

(* One kernel without drivers, behind a RAID controller: what the packages *)
(* bring, and what the generators then make of it.                         *)
LEMMA RHELStarts ==
  ASSUME NEW kernels \in (SUBSET Kernels) \ {{}}, NEW raid \in BOOLEAN, raid => kernels # Kernels, NEW bad,
         \A b \in KernelBlame : ~(b \subseteq bad)
  PROVE  LET s == AfterInstallRHEL(Shipped(kernels, FALSE), raid, bad) IN ~s.hidden /\ KernelStarts(s, raid)
  <1> DEFINE m == GenerateMenu(Shipped(kernels, FALSE), bad)
             both == {"stripped", "full"}
  <1>1. /\ "chroot mkconfig" \notin bad /\ ~({"dnf pinned", "dnf"} \subseteq bad)
        /\ ~({"dracut", "mkinitrd"} \subseteq bad) /\ ~({"dnf pinned", "grubby"} \subseteq bad)
    BY DEF KernelBlame
  <1>2. Stock(m, kernels)
    BY <1>1, StockMenu
  <1> HIDE DEF m
  <1>3. CASE raid /\ kernels = {"stripped"}
    <2> DEFINE w == WithModules(m, bad)
               r == RebuildInitrds(w, bad)
               f == SetDefaultKernel(r, bad)
    <2>1. Cardinality(m.modules) = 1 /\ m.modules = {"stripped"} /\ m.modules \cap m.complete = {}
      BY <1>2, <1>3, KernelSets DEF Stock
    <2>2. AfterInstallRHEL(Shipped(kernels, FALSE), raid, bad) = f
      <3>1. ModulesInstalled(m, raid, bad)
        BY <1>1, <1>3, <2>1 DEF ModulesInstalled, NeedsModules
      <3> QED
        BY <3>1 DEF AfterInstallRHEL, m
    <2>3. /\ w \in System /\ ~w.hidden /\ w.menu = w.images
          /\ \/ w.modules = {"stripped"} /\ w.images = {"stripped"} /\ w.complete = {"stripped"}
             \/ "dnf pinned" \in bad /\ w.modules = both /\ w.images = both /\ w.complete = {"full"}
      <3>1. m \in System /\ ~m.hidden /\ m.menu = {"stripped"} /\ m.images = {"stripped"} /\ m.complete = {}
        BY <1>2, <1>3 DEF Stock
      <3>2. CASE "dnf pinned" \notin bad
        <4>1. w = [m EXCEPT !.complete = m.complete \cup m.modules]
          BY <2>1, <3>2 DEF WithModules
        <4>2. m.complete \cup m.modules = {"stripped"}
          BY <2>1, <3>1
        <4> QED
          BY <2>1, <3>1, <4>1, <4>2 DEF System, Kernels
      <3>3. CASE "dnf pinned" \in bad
        <4>1. w = [m EXCEPT !.modules = m.modules \cup {"full"}, !.images = m.images \cup {"full"},
                            !.complete = m.complete \cup {"full"}, !.menu = m.menu \cup {"full"}]
          BY <3>3 DEF WithModules
        <4>2. /\ m.modules \cup {"full"} = both /\ m.images \cup {"full"} = both
              /\ m.complete \cup {"full"} = {"full"} /\ m.menu \cup {"full"} = both
          BY <2>1, <3>1
        <4> QED
          <5>1. w = [m EXCEPT !.modules = both, !.images = both, !.complete = {"full"}, !.menu = both]
            BY <4>1, <4>2
          <5> HIDE DEF w
          <5>2. w \in System
            BY <3>1, <5>1 DEF System, Kernels
          <5>3. w.modules = both /\ w.images = both /\ w.complete = {"full"} /\ w.menu = both /\ w.hidden = m.hidden
            BY <3>1, <5>1 DEF System
          <5> QED
            BY <3>1, <3>3, <5>2, <5>3
      <3> QED
        BY <3>2, <3>3
    <2> HIDE DEF w
    <2>4. /\ r \in System /\ ~r.hidden /\ r.menu = w.menu /\ r.images = w.images /\ r.complete = w.complete
          /\ r.modules = w.modules /\ r.initrd = w.modules \cap w.complete
      BY <1>1, <2>3 DEF RebuildInitrds, System, Kernels
    <2> HIDE DEF r
    <2>5. BestKernel(r) = (IF w.modules = both THEN "full" ELSE "stripped") /\ BestKernel(r) # NoKernel
      BY <2>3, <2>4 DEF BestKernel, NoKernel
    <2>6. /\ f.hidden = r.hidden /\ f.menu = r.menu /\ f.images = r.images /\ f.complete = r.complete /\ f.initrd = r.initrd
          /\ f.default = IF "grubby" \in bad THEN NoKernel ELSE BestKernel(r)
      BY <2>4, <2>5 DEF SetDefaultKernel, System
    <2> HIDE DEF f
    <2>7. CASE w.modules = {"stripped"} /\ w.images = {"stripped"} /\ w.complete = {"stripped"}
      <3>1. Started(f) = {"stripped"} /\ f.images = {"stripped"} /\ f.complete \cap f.initrd = {"stripped"} /\ ~f.hidden
        BY <2>3, <2>4, <2>5, <2>6, <2>7 DEF Started, NoKernel
      <3> QED
        BY <2>2, <3>1 DEF KernelStarts
    <2>8. CASE "dnf pinned" \in bad /\ w.modules = both /\ w.images = both /\ w.complete = {"full"}
      <3>1. "grubby" \notin bad
        BY <1>1, <2>8
      <3>2. Started(f) = {"full"} /\ f.images = both /\ f.complete \cap f.initrd = {"full"} /\ ~f.hidden
        BY <2>3, <2>4, <2>5, <2>6, <2>8, <3>1 DEF Started
      <3> QED
        BY <2>2, <3>2 DEF KernelStarts
    <2> QED
      BY <2>3, <2>7, <2>8
  <1>4. CASE ~raid \/ kernels = {"full"}
    <2>1. ~ModulesInstalled(m, raid, bad)
      BY <1>2, <1>4 DEF ModulesInstalled, NeedsModules, Stock
    <2>2. AfterInstallRHEL(Shipped(kernels, FALSE), raid, bad) = m
      BY <2>1 DEF AfterInstallRHEL, m
    <2>3. NoKernel \notin kernels /\ kernels # {}
      BY DEF Kernels, NoKernel
    <2>4. ~m.hidden /\ KernelStarts(m, raid)
      BY <1>2, <1>4, <2>3 DEF KernelStarts, Started, Stock
    <2> QED
      BY <2>2, <2>4
  <1>5. raid => kernels \in {{"stripped"}, {"full"}}
    BY KernelSets DEF Kernels
  <1> QED
    BY <1>3, <1>4, <1>5

(* What does not change with the machine and its image.                    *)
LEMMA SameMachine ==
  ASSUME UNCHANGED <<host, image>>
  PROVE  (Supported' <=> Supported) /\ (RootFound' <=> RootFound) /\ ImageEsp' = ImageEsp
  <1>1. RootPartition' = RootPartition
    BY DEF RootPartition
  <1>2. RootFound' = RootFound
    BY <1>1 DEF RootFound
  <1>3. ImageEsp' = ImageEsp
    BY DEF ImageEsp
  <1> QED
    BY <1>2, <1>3 DEF Supported

LEMMA Innocent ==
  ASSUME NEW bad, Failed(bad), ~Blamed'
  PROVE  ~Blamed /\ \A b \in Blame : ~(b \subseteq bad)
  <1>1. FailedNow' = FailedNow \cup bad
    BY DEF Failed
  <1>2. Blame' = Blame
    BY DEF Blame, KernelBlame
  <1> QED
    BY <1>1, <1>2 DEF Blamed

(* Two commands of a stage fail only if nothing failed before.             *)
LEMMA OneLeft ==
  ASSUME Progress, NEW bad, Failed(bad), FailedNow # {}, NEW c \in bad, NEW d \in bad
  PROVE  c = d
  <1> SUFFICES ASSUME c # d PROVE FALSE
    OBVIOUS
  <1>1. failures # {}
    BY DEF FailedNow
  <1>2. Cardinality(failures) \in Nat /\ Cardinality(failures) # 0
    BY <1>1, FS_CardinalityType, FS_EmptySet DEF Progress
  <1>3. ~(MaxFaults - Cardinality(failures) < 2)
    BY DEF Failed
  <1>4. MaxFaults \in 0..2
    BY InstallBounds
  <1> QED
    BY <1>2, <1>3, <1>4

LEMMA ReleaseKeeps ==
  ASSUME NEW bad, Release(bad)
  PROVE  /\ held' \subseteq held
         /\ "vg on md" \notin held /\ held' # {} => \E c \in bad : c \in ReleaseCommands
  BY DEF Release, StillHeld, ReleaseCommands

LEMMA HeldStep == Progress /\ MountInv /\ HeldInv /\ [InstallNext]_vars => HeldInv'
  <1> SUFFICES ASSUME Progress, MountInv, HeldInv, [InstallNext]_vars PROVE HeldInv'
    OBVIOUS
  <1>1. ASSUME NEW bad, Failed(bad) PROVE HeldInv'
    <2>1. UNCHANGED <<host, image>> /\ (Supported' <=> Supported) /\ FailedNow' = FailedNow \cup bad
      BY <1>1, SameMachine DEF Failed
    <2>2. Supported => "vg on md" \notin held
      BY DEF Supported, HeldInv
    <2>3. CASE UNCHANGED held /\ (pc \in BeforeRelease => pc' \in BeforeRelease \/ bad # {})
      BY <2>1, <2>3 DEF HeldInv
    <2>4. CASE Release(bad)
      <3>1. held' \subseteq held /\ (Supported /\ held' # {} => bad # {})
        BY <2>2, <2>4, ReleaseKeeps
      <3> QED
        BY <2>1, <3>1 DEF HeldInv
    <2>5. CASE Prepare(bad) \/ Wipe(bad) \/ WriteImage(bad)
      <3>1. UNCHANGED held /\ (pc \in BeforeRelease => pc' \in BeforeRelease \/ bad # {})
        BY <2>5 DEF Prepare, Wipe, WriteImage, Proceed, BeforeRelease
      <3> QED
        BY <2>3, <3>1
    <2>6. CASE PreRelease(bad)
      BY <2>4, <2>6 DEF PreRelease
    <2>7. CASE Reread(bad) \/ Grow(bad)
      <3>1. UNCHANGED held \/ Release(bad)
        BY <2>7 DEF Reread, Grow
      <3>2. pc \notin BeforeRelease
        BY <2>7 DEF Reread, Grow, BeforeRelease
      <3> QED
        BY <2>3, <2>4, <3>1, <3>2
    <2>8. CASE CreateEspIfMissing(bad) \/ Mount(bad) \/ Seed(bad) \/ GrubHost(bad) \/ GrubChroot(bad)
      <3>1. UNCHANGED held
        BY <2>8 DEF CreateEspIfMissing, Mount, Seed, GrubHost, GrubChroot
      <3>2. pc \notin BeforeRelease
        BY <2>8 DEF CreateEspIfMissing, Mount, Seed, GrubHost, GrubChroot, BeforeRelease
      <3> QED
        BY <2>3, <3>1, <3>2
    <2>9. CASE Prune(bad) \/ Unmount(bad) \/ Unwind(bad) \/ Succeed(bad)
      <3>1. UNCHANGED held /\ pc \notin BeforeRelease
        BY <2>9 DEF Prune, Unmount, Unwind, Succeed, BeforeRelease
      <3> QED
        BY <2>3, <3>1
    <2> QED
      BY <1>1, <2>5, <2>6, <2>7, <2>8, <2>9 DEF Failed, StageOf
  <1>2. CASE NextRun
    BY <1>2 DEF NextRun, HeldInv, BeforeRelease
  <1>3. CASE UNCHANGED vars
    <2>1. Supported' <=> Supported
      BY <1>3, SameMachine DEF vars
    <2> QED
      BY <1>3, <2>1 DEF vars, HeldInv, FailedNow
  <1> QED
    BY <1>1, <1>2, <1>3, StepCases

(* The kernel is made to look at the new partitions: all the ways to do so *)
(* are more than can fail, and more than one of those that can fail is     *)
(* needed to keep it from looking.                                         *)
LEMMA PartitionsSeen ==
  ASSUME Progress, HeldInv, Supported, NEW bad, Failed(bad), Reread(bad)
  PROVE  seen' = "current"
  <1> SUFFICES ASSUME seen' # "current" PROVE FALSE
    OBVIOUS
  <1> DEFINE probed == held = {} /\ "partprobe" \notin bad
             again == ~probed /\ held' = {} /\ "partprobe again" \notin bad
             blockdev == held' = {} /\ "blockdev" \notin bad
             partx == ~blockdev /\ "partx" \notin bad
  <1>1. /\ ~probed /\ ~again /\ ~blockdev /\ ~partx /\ Release(bad)
    BY DEF Reread
  <1>2. "partx" \in bad
    BY <1>1
  <1>3. "vg on md" \notin held
    BY DEF Supported, HeldInv
  <1>4. CASE held' = {}
    <2>1. "partprobe again" \in bad /\ "blockdev" \in bad
      BY <1>1, <1>4
    <2> QED
      BY <1>2, <2>1 DEF Failed
  <1>5. CASE held' # {}
    <2>1. PICK c \in bad : c \in ReleaseCommands
      BY <1>1, <1>3, <1>5, ReleaseKeeps
    <2>2. c # "partx"
      BY <2>1 DEF ReleaseCommands
    <2>3. held # {}
      BY <1>1, <1>5, ReleaseKeeps
    <2>4. FailedNow # {}
      BY <2>3 DEF HeldInv, BeforeRelease, Reread
    <2> QED
      BY <1>2, <2>1, <2>2, <2>4, OneLeft
  <1> QED
    BY <1>4, <1>5

LEMMA EspIsMade ==
  ASSUME Progress, MountInv, Supported, OnCourse, NEW bad, Failed(bad), ~Blamed', CreateEspIfMissing(bad)
  PROVE  OnCourse'
  <1>1. /\ pc = "esp" /\ tracked = {} /\ outcome = "none" /\ UNCHANGED <<host, image>>
        /\ disk.table = image.table /\ esp = ImageEsp /\ seen = "current"
    BY DEF CreateEspIfMissing, MountInv, Early, OnCourse, Failed, Progress
  <1>2. \A b \in Blame : ~(b \subseteq bad)
    BY Innocent
  <1>3. "blkid esp" \notin bad /\ {"sfdisk -d", "sfdisk read", "sfdisk set"} \cap bad = {}
    <2>1. {"blkid esp"} \in Blame /\ {"sfdisk -d"} \in Blame /\ {"sfdisk read"} \in Blame /\ {"sfdisk set"} \in Blame
      BY DEF Blame
    <2> QED
      BY <1>2, <2>1
  <1>4. /\ ImageEsp.part = (IF image.esp = "none" THEN "none" ELSE "image")
        /\ ImageEsp.typed = (image.esp = "typed")
    BY DEF ImageEsp
  <1>5. CASE Abort
    <2>1. pc' = "ended" /\ outcome' = "failed"
      BY <1>1, <1>5 DEF Abort
    <2> QED
      BY <2>1 DEF OnCourse
  <1>6. CASE Proceed("grow")
    <2>1. pc' = "grow" /\ outcome' = "none"
      BY <1>1, <1>6 DEF Proceed
    <2>2. EspAsMade'
      <3>1. \/ EspSeen(bad) /\ host.uefi /\ FixEspType(bad)
            \/ ~EspSeen(bad) /\ host.uefi /\ MakeEsp(bad)
            \/ ~host.uefi /\ UNCHANGED <<disk, esp, seen>>
        <4>1. ~Abort
          BY <2>1 DEF Abort
        <4> QED
          BY <4>1 DEF CreateEspIfMissing
      <3>2. CASE EspSeen(bad) /\ host.uefi /\ FixEspType(bad)
        <4>1. image.esp # "none" /\ disk' = disk
          BY <1>1, <1>4, <3>2 DEF EspSeen, FixEspType
        <4>2. esp' = [ImageEsp EXCEPT !.typed = ImageEsp.typed \/ TRUE]
          BY <1>1, <1>3, <3>2 DEF FixEspType
        <4>3. esp'.part = ImageEsp.part /\ esp'.files = ImageEsp.files /\ esp'.typed
          BY <4>2 DEF ImageEsp
        <4> QED
          BY <1>1, <3>2, <4>1, <4>3, SameMachine DEF EspAsMade
      <3>3. CASE ~EspSeen(bad) /\ host.uefi /\ MakeEsp(bad)
        <4>1. esp.part = "none" /\ image.esp = "none"
          BY <1>1, <1>3, <1>4, <3>3 DEF EspSeen
        <4>2. disk.table = "dos"
          BY <1>1, <3>3, <4>1 DEF Supported
        <4>3. Proceed("grow") /\ ~Abort
          BY <1>6, <2>1 DEF Abort
        <4>4. disk' = [disk EXCEPT !.table = "gpt"] /\ esp' = [part |-> "new", typed |-> TRUE, files |-> {}]
          BY <3>3, <4>1, <4>2, <4>3 DEF MakeEsp
        <4>5. disk'.table = "gpt"
          BY <1>1, <4>2, <4>4
        <4> QED
          BY <1>1, <3>3, <4>1, <4>4, <4>5 DEF EspAsMade
      <3>4. CASE ~host.uefi /\ UNCHANGED <<disk, esp, seen>>
        BY <1>1, <3>4, SameMachine DEF EspAsMade
      <3> QED
        BY <3>1, <3>2, <3>3, <3>4
    <2> QED
      BY <2>1, <2>2 DEF OnCourse
  <1> QED
    BY <1>5, <1>6 DEF CreateEspIfMissing, MakeEsp

(* With nothing to blame the EFI partition is mounted where the loader     *)
(* will look for it, and no kernel hides below the mount point of /boot.   *)
LEMMA EspIsMounted ==
  ASSUME Progress, MountInv, Supported, OnCourse, NEW bad, Failed(bad), ~Blamed', Mount(bad)
  PROVE  OnCourse'
  <1>1. /\ pc = "mount" /\ tracked = {} /\ outcome = "none" /\ UNCHANGED <<host, image, disk, esp, entries>> /\ EspAsMade
    BY DEF Mount, MountInv, Early, OnCourse, Failed, Progress
  <1>2. "blkid fstab" \notin bad /\ "blkid esp again" \notin bad
    <2>1. {"blkid fstab"} \in Blame /\ {"blkid esp again"} \in Blame
      BY DEF Blame
    <2>2. \A b \in Blame : ~(b \subseteq bad)
      BY Innocent
    <2> QED
      BY <2>1, <2>2
  <1>3. CASE Abort
    <2>1. pc' = "ended" /\ outcome' = "failed"
      BY <1>1, <1>3 DEF Abort
    <2> QED
      BY <2>1 DEF OnCourse
  <1>4. CASE ~Abort
    <2> DEFINE fstab == Resolved(bad)
               find == EspMount(fstab) = "none" /\ esp.part # "none" /\ "blkid esp again" \notin bad
               withEsp == {"/"} \cup fstab \cup (IF find THEN {"/boot/efi"} ELSE {})
               efivars == EspMount(withEsp) # "none" /\ host.uefi /\ "mount efivars" \notin bad
    <2>1. mounts' = withEsp \cup {"binds"} \cup (IF efivars THEN {"efivars"} ELSE {}) /\ Proceed("seed")
      BY <1>4 DEF Mount
    <2>2. pc' = "seed" /\ outcome' = "none"
      BY <1>1, <2>1 DEF Proceed
    <2>3. RootFound /\ (image.bootAt => image.espAt = "/boot/efi")
      BY DEF Supported
    <2>4. fstab = (IF image.bootAt THEN {"/boot"} ELSE {}) \cup (IF image.espAt # "none" THEN {image.espAt} ELSE {})
      <3> DEFINE boot == IF image.bootAt THEN <<"/boot">> ELSE <<>>
                 efi == IF image.espAt # "none" THEN <<image.espAt>> ELSE <<>>
      <3>1. FstabOrder = boot \o efi
        BY <2>3 DEF FstabOrder
      <3>2. fstab = {FstabOrder[i] : i \in DOMAIN FstabOrder}
        BY <1>2 DEF Resolved
      <3>3. CASE image.bootAt /\ image.espAt # "none"
        <4>1. FstabOrder = <<"/boot">> \o <<image.espAt>>
          BY <3>1, <3>3
        <4>2. DOMAIN FstabOrder = {1, 2} /\ FstabOrder[1] = "/boot" /\ FstabOrder[2] = image.espAt
          <5>1. ASSUME NEW a, NEW b, NEW s, s = <<a>> \o <<b>> PROVE DOMAIN s = {1, 2} /\ s[1] = a /\ s[2] = b
            BY <5>1
          <5> QED
            BY <4>1, <5>1
        <4> HIDE DEF fstab
        <4> QED
          BY <3>2, <3>3, <4>2
      <3>4. CASE image.bootAt /\ image.espAt = "none"
        <4>1. FstabOrder = <<"/boot">>
          BY <3>1, <3>4
        <4>2. DOMAIN FstabOrder = {1} /\ FstabOrder[1] = "/boot"
          BY <4>1
        <4> HIDE DEF fstab
        <4> QED
          BY <3>2, <3>4, <4>2
      <3>5. CASE ~image.bootAt /\ image.espAt # "none"
        <4>1. FstabOrder = <<image.espAt>>
          BY <3>1, <3>5
        <4>2. DOMAIN FstabOrder = {1} /\ FstabOrder[1] = image.espAt
          BY <4>1
        <4> HIDE DEF fstab
        <4> QED
          BY <3>2, <3>5, <4>2
      <3>6. CASE ~image.bootAt /\ image.espAt = "none"
        <4>1. FstabOrder = <<>>
          BY <3>1, <3>6
        <4>2. DOMAIN FstabOrder = {}
          BY <4>1
        <4> HIDE DEF fstab
        <4> QED
          BY <3>2, <3>6, <4>2
      <3> QED
        BY <3>3, <3>4, <3>5, <3>6
    <2>5. image.espAt \in {"none", "/boot", "/boot/efi"}
      BY ImageTyped
    <2> HIDE DEF fstab
    <2>6. image.bootAt \/ image.espAt = "/boot" => "/boot" \in mounts'
      BY <2>1, <2>4
    <2>7. At' = EspPlace'
      <3>1. At' = EspMount(mounts')
        BY DEF At
      <3>2. EspPlace' = EspPlace
        BY <1>1 DEF EspPlace
      <3>3. CASE image.espAt = "/boot/efi"
        BY <2>1, <2>4, <3>1, <3>2, <3>3 DEF EspMount, EspPlace
      <3>4. CASE image.espAt = "/boot"
        <4>1. fstab = {"/boot"}
          BY <2>3, <2>4, <3>4
        <4>2. ~find
          BY <4>1 DEF EspMount
        <4>3. "/boot/efi" \notin mounts' /\ "/boot" \in mounts'
          BY <2>1, <4>1, <4>2
        <4> QED
          BY <3>1, <3>2, <3>4, <4>3 DEF EspMount, EspPlace
      <3>5. CASE image.espAt = "none"
        <4>1. fstab = {}
          BY <2>3, <2>4, <3>5
        <4>2. find <=> esp.part # "none"
          BY <1>2, <4>1 DEF EspMount
        <4>3. "/boot" \notin mounts' /\ ("/boot/efi" \in mounts' <=> esp.part # "none")
          BY <2>1, <4>1, <4>2
        <4> QED
          BY <3>1, <3>2, <3>5, <4>3 DEF EspMount, EspPlace
      <3> QED
        BY <2>5, <3>3, <3>4, <3>5
    <2>8. EspAsMade'
      BY <1>1, SameMachine DEF EspAsMade
    <2> QED
      BY <1>1, <2>2, <2>6, <2>7, <2>8 DEF OnCourse
  <1> QED
    BY <1>3, <1>4

(* The loader, on a machine that boots by EFI: a boot entry on a GPT, the  *)
(* fallback path on a dos table.                                           *)
LEMMA LoaderInstalled ==
  ASSUME Progress, TargetInv, Supported, OnCourse, NEW bad, Failed(bad), ~Blamed',
         GrubHost(bad) \/ GrubChroot(bad), pc' = "prune"
  PROVE  LoaderIsFound'
  <1>1. /\ pc = "grub" /\ UNCHANGED <<host, image, disk>> /\ EspAsMade /\ At = EspPlace
        /\ esp \in [part : {"none", "image", "new"}, typed : BOOLEAN, files : SUBSET EspFiles]
    BY DEF GrubHost, GrubChroot, OnCourse, TargetInv, Failed
  <1>2. "efibootmgr create" \notin bad /\ "cp" \notin bad
    <2>1. {"efibootmgr create"} \in Blame /\ {"cp"} \in Blame
      BY DEF Blame
    <2>2. \A b \in Blame : ~(b \subseteq bad)
      BY Innocent
    <2> QED
      BY <2>1, <2>2
  <1>3. ~Abort /\ Proceed("prune")
    <2>1. Abort => pc' # "prune"
      BY DEF Abort
    <2> QED
      BY <2>1 DEF GrubHost, GrubChroot
  <1>4. CASE ~host.uefi
    BY <1>1, <1>4 DEF LoaderIsFound, Supported
  <1>5. CASE host.uefi
    <2>1. esp.part # "none" /\ esp.typed /\ EspPlace \in {"/boot", "/boot/efi"}
      <3>1. image.espAt \in {"none", "/boot", "/boot/efi"}
        BY ImageTyped
      <3>2. esp.part # "none"
        BY <1>1, <1>5 DEF TargetInv, Installed
      <3> QED
        BY <1>1, <1>5, <3>1, <3>2 DEF EspAsMade, EspPlace
    <2>2. /\ ImageEsp.files = (IF image.tree = "flat" THEN {"distro"} ELSE IF image.tree = "nested" THEN {"nested"} ELSE {})
                \cup (IF ~image.fallback THEN {} ELSE IF image.tree = "nested" THEN {"nested fallback"} ELSE {"fallback"})
      BY DEF ImageEsp
    <2>3. /\ image.esp = "none" => disk.table = "gpt" /\ image.loader = "host"
          /\ image.esp # "none" => disk.table = image.table /\ esp.files = ImageEsp.files
          /\ image.table \in {"gpt", "dos"}
      BY <1>1, <1>5, ImageTyped DEF EspAsMade, Supported
    <2>4. ASSUME NEW label, NEW new, entries' = Registered(label), esp' = [esp EXCEPT !.files = new], label \in new,
                 disk.table # "gpt" => "fallback" \in new
          PROVE  LoaderIsFound'
      <3>1. esp'.part = esp.part /\ esp'.typed = esp.typed /\ esp'.files = new
        BY <1>1, <2>4
      <3>2. disk.table = "gpt" => [label |-> label, kind |-> "gpt", part |-> esp.part] \in entries'
        BY <2>4 DEF Registered, Kind
      <3> QED
        BY <1>1, <1>5, <2>1, <2>4, <3>1, <3>2 DEF LoaderIsFound
    <2>5. CASE GrubHost(bad)
      <3>1. entries' = Registered("metalkit") /\ esp' = [esp EXCEPT !.files = esp.files \cup {"metalkit"}]
        BY <1>1, <1>3, <1>5, <2>1, <2>5 DEF GrubHost
      <3>2. disk.table # "gpt" => "fallback" \in esp.files
        BY <1>5, <2>2, <2>3, <2>5 DEF GrubHost, Supported
      <3> QED
        BY <2>4, <3>1, <3>2
    <2>6. CASE GrubChroot(bad)
      <3>1. image.loader = "chroot" /\ image.esp # "none" /\ esp.files = ImageEsp.files /\ disk.table = image.table
        BY <2>3, <2>6 DEF GrubChroot
      <3>2. image.tree = "flat" \/ (image.tree = "nested" /\ image.espAt = "/boot")
        BY <1>5, <3>1 DEF Supported
      <3>3. EspIsThere /\ TreeFound
        <4>1. image.espAt = "/boot" => At = "/boot"
          BY <1>1 DEF EspPlace
        <4>2. At = "/boot" => image.espAt = "/boot"
          BY <1>1 DEF EspPlace
        <4>3. image.tree = "flat" => "distro" \in esp.files
          BY <2>2, <3>1
        <4>4. image.tree = "nested" => "nested" \in esp.files
          BY <2>2, <3>1
        <4> QED
          BY <1>1, <2>1, <3>2, <4>1, <4>2, <4>3, <4>4 DEF EspIsThere, TreeFound
      <3>4. RegisterEFI(bad)
        BY <1>2, <1>5, <3>3 DEF RegisterEFI
      <3>5. entries' = Registered("distro") /\ esp' = [esp EXCEPT !.files = Normalised(esp.files, bad)]
        BY <1>1, <1>3, <2>1, <2>6, <3>4 DEF GrubChroot
      <3>6. "distro" \in Normalised(esp.files, bad)
        <4>1. "distro" \in esp.files \/ "nested" \in esp.files
          BY <2>2, <3>1, <3>2
        <4> QED
          BY <1>2, <4>1 DEF Normalised
      <3>7. disk.table # "gpt" => "fallback" \in Normalised(esp.files, bad)
        <4> SUFFICES ASSUME disk.table # "gpt" PROVE "fallback" \in Normalised(esp.files, bad)
          OBVIOUS
        <4>1. image.fallback
          BY <1>5, <2>3, <3>1 DEF Supported
        <4>2. CASE image.tree = "flat"
          BY <2>2, <3>1, <4>1, <4>2 DEF Normalised
        <4>3. CASE image.tree = "nested"
          <5>1. esp.files = {"nested", "nested fallback"}
            BY <2>2, <3>1, <4>1, <4>3
          <5> QED
            BY <1>2, <5>1 DEF Normalised
        <4> QED
          BY <3>2, <4>2, <4>3
      <3> QED
        BY <2>4, <3>5, <3>6, <3>7
    <2> QED
      BY <2>5, <2>6
  <1> QED
    BY <1>4, <1>5

LEMMA KernelInstalled ==
  ASSUME Progress, Supported, OnCourse, NEW bad, Failed(bad), ~Blamed',
         GrubHost(bad) \/ GrubChroot(bad), pc' = "prune"
  PROVE  ~os'.hidden /\ KernelStarts(os', host.raid)
  <1>1. pc = "grub" /\ os = Shipped(image.kernels, FALSE) /\ image.kernels \in (SUBSET Kernels) \ {{}}
    BY ImageTyped DEF GrubHost, GrubChroot, OnCourse
  <1>2. \A b \in KernelBlame : ~(b \subseteq bad)
    <2>1. \A b \in Blame : ~(b \subseteq bad)
      BY Innocent
    <2> QED
      BY <2>1 DEF Blame
  <1>3. ~Abort
    BY DEF Abort
  <1>4. CASE GrubHost(bad)
    <2>1. os' = AfterInstallDebian(os, bad)
      BY <1>3, <1>4 DEF GrubHost
    <2> QED
      BY <1>1, <1>2, <2>1, DebianStarts
  <1>5. CASE GrubChroot(bad)
    <2>1. os' = AfterInstallRHEL(os, host.raid, bad) /\ image.loader = "chroot"
      BY <1>3, <1>5 DEF GrubChroot
    <2>2. host.raid \in BOOLEAN
      BY ImageTyped DEF Host
    <2>3. host.raid => image.kernels # Kernels
      BY <2>1 DEF Supported
    <2> QED
      BY <1>1, <1>2, <2>1, <2>2, <2>3, RHELStarts
  <1> QED
    BY <1>4, <1>5

(* The prune takes away no entry of a GPT partition that is there.         *)
LEMMA PruneKeepsLoader ==
  ASSUME LoaderIsFound, NEW bad, Prune(bad), UNCHANGED <<host, image>>
  PROVE  LoaderIsFound'
  <1>1. UNCHANGED <<esp, disk>>
    BY DEF Prune
  <1>2. \A e \in entries : e.part = esp.part /\ e.kind = "gpt" => e \in entries'
    BY DEF Prune, Stale
  <1> QED
    BY <1>1, <1>2 DEF LoaderIsFound

LEMMA CourseStep ==
  ASSUME Progress, MountInv, TargetInv, HeldInv, OnCourse, Supported, NEW bad, Failed(bad), ~Blamed'
  PROVE  OnCourse'
  <1>1. UNCHANGED <<host, image>> /\ outcome = "none" /\ RootFound /\ RootFound'
    <2>1. pc # "ended"
      BY StageProgress DEF Failed
    <2>2. UNCHANGED <<host, image>> /\ RootFound
      BY DEF Failed, Supported
    <2> QED
      BY <2>1, <2>2, SameMachine DEF Progress
  <1>2. Abort => pc' \in {"ended", "unwind"} /\ outcome' # "succeeded"
    BY <1>1 DEF Abort
  <1>3. CASE Abort
    BY <1>2, <1>3 DEF OnCourse
  <1>4. CASE Prepare(bad) \/ PreRelease(bad) \/ Wipe(bad)
    <2>1. Abort \/ (pc' \in {"release", "wipe", "write"} /\ outcome' = "none")
      BY <1>1, <1>4 DEF Prepare, PreRelease, Wipe, Proceed
    <2> QED
      BY <1>3, <2>1 DEF OnCourse
  <1>5. CASE WriteImage(bad) /\ ~Abort
    <2>1. bad = {} /\ pc' = "reread" /\ outcome' = "none"
      BY <1>1, <1>5 DEF WriteImage, Proceed
    <2>2. disk' = [table |-> image.table, data |-> "image"] /\ esp' = ImageEsp
      BY <1>5, <2>1 DEF WriteImage
    <2>3. disk'.table = image.table
      BY <2>2
    <2> QED
      BY <1>1, <2>1, <2>2, <2>3, SameMachine DEF OnCourse
  <1>6. CASE Reread(bad)
    <2>1. pc = "reread" /\ pc' = "esp" /\ outcome' = "none" /\ UNCHANGED <<disk, esp>>
      BY <1>1, <1>6 DEF Reread, Proceed
    <2> QED
      BY <1>1, <1>6, <2>1, SameMachine, PartitionsSeen DEF OnCourse
  <1>7. CASE CreateEspIfMissing(bad)
    BY <1>7, EspIsMade
  <1>8. CASE Grow(bad) /\ ~Abort
    <2>1. pc = "grow" /\ pc' = "mount" /\ outcome' = "none" /\ UNCHANGED <<disk, esp>>
      BY <1>1, <1>8 DEF Grow, Proceed
    <2>2. EspAsMade'
      BY <1>1, <2>1, SameMachine DEF OnCourse, EspAsMade
    <2> QED
      BY <2>1, <2>2 DEF OnCourse
  <1>9. CASE Mount(bad)
    BY <1>9, EspIsMounted
  <1>10. CASE Seed(bad) /\ ~Abort
    <2>1. pc = "seed" /\ pc' = "grub" /\ outcome' = "none" /\ UNCHANGED <<disk, esp, mounts>>
      BY <1>1, <1>10 DEF Seed, Proceed
    <2>2. EspAsMade' /\ At' = EspPlace' /\ (image'.bootAt \/ image'.espAt = "/boot" => "/boot" \in mounts')
      BY <1>1, <2>1, SameMachine DEF OnCourse, EspAsMade, At, EspPlace
    <2>3. ((image.bootAt \/ image.espAt = "/boot") /\ "/boot" \notin mounts) = FALSE
      BY <2>1 DEF OnCourse
    <2>4. os' = Shipped(image.kernels, FALSE)
      BY <1>10, <2>3 DEF Seed
    <2> QED
      BY <1>1, <2>1, <2>2, <2>4 DEF OnCourse
  <1>11. CASE (GrubHost(bad) \/ GrubChroot(bad)) /\ ~Abort
    <2>1. pc' = "prune" /\ outcome' = "none"
      BY <1>1, <1>11 DEF GrubHost, GrubChroot, Proceed
    <2>2. LoaderIsFound' /\ ~os'.hidden /\ KernelStarts(os', host.raid)
      BY <1>11, <2>1, LoaderInstalled, KernelInstalled
    <2>3. FirmwareStarts'
      BY <2>2 DEF LoaderIsFound, FirmwareStarts, Kind
    <2>4. Boots'
      BY <1>1, <2>2, <2>3 DEF Boots
    <2> QED
      BY <2>1, <2>2, <2>4 DEF OnCourse
  <1>12. CASE Prune(bad)
    <2>1. pc = "prune" /\ pc' = "umount" /\ outcome' = "none" /\ UNCHANGED os
      BY <1>1, <1>12 DEF Prune, Proceed
    <2>2. LoaderIsFound'
      BY <1>1, <1>12, <2>1, PruneKeepsLoader DEF OnCourse
    <2>3. FirmwareStarts'
      BY <2>2 DEF LoaderIsFound, FirmwareStarts, Kind
    <2>4. Boots'
      BY <1>1, <2>1, <2>3 DEF OnCourse, Boots
    <2> QED
      BY <2>1, <2>4 DEF OnCourse
  <1>13. CASE (Unmount(bad) /\ ~Abort) \/ Succeed(bad)
    <2>1. pc \in {"umount", "succeed"} /\ pc' \in {"succeed", "ended"} /\ UNCHANGED <<disk, esp, entries, os>>
      BY <1>13 DEF Unmount, Succeed, Proceed
    <2>2. FirmwareStarts' <=> FirmwareStarts
      BY <1>1, <2>1 DEF FirmwareStarts, Kind
    <2>3. Boots'
      BY <1>1, <2>1, <2>2 DEF OnCourse, Boots
    <2> QED
      BY <2>1, <2>3 DEF OnCourse
  <1>14. CASE Unwind(bad)
    BY <1>14 DEF Unwind, OnCourse
  <1> QED
    BY <1>3, <1>4, <1>5, <1>6, <1>7, <1>8, <1>9, <1>10, <1>11, <1>12, <1>13, <1>14 DEF Failed, StageOf

(* Without a failure every stage hands over to the next.                   *)
LEMMA CleanStep ==
  ASSUME Progress, MountInv, TargetInv, HeldInv, OnCourse, OnCourse', Clean, Supported, NEW bad, Failed(bad),
         FailedNow' = {}
  PROVE  Clean'
  <1>1. bad = {} /\ FailedNow = {} /\ UNCHANGED <<host, image>>
    BY DEF Failed
  <1>2. outcome = "none"
    <2>1. pc # "ended"
      BY StageProgress DEF Failed
    <2> QED
      BY <2>1 DEF Progress
  <1>3. Clean' \/ pc' \in {"unwind", "ended"} \/ (pc' = "grow" /\ seen' # "current")
    BY <1>2, StageProgress DEF Clean, OnCourse, Failed
  <1>4. ASSUME NEW next, Proceed(next), next \notin {"unwind", "ended", "grow"} PROVE Clean'
    BY <1>2, <1>4 DEF Proceed, Clean, OnCourse
  <1>5. CASE Prepare(bad) \/ PreRelease(bad) \/ Wipe(bad) \/ WriteImage(bad) \/ Reread(bad) \/ Prune(bad) \/ Seed(bad)
    <2>1. \E next : Proceed(next) /\ next \notin {"unwind", "ended", "grow"}
      BY <1>1, <1>5 DEF Prepare, PreRelease, Wipe, WriteImage, Reread, Prune, Seed
    <2> QED
      BY <1>4, <2>1
  <1>6. CASE CreateEspIfMissing(bad)
    <2>1. pc = "esp" /\ seen = "current" /\ held = {} /\ ParentDiskOf(host.disk) = host.disk
      BY <1>1, <1>6 DEF CreateEspIfMissing, OnCourse, Clean, HeldInv, BeforeRelease, Supported
    <2>2. \/ FixEspType(bad) /\ Proceed("grow")
          \/ MakeEsp(bad)
          \/ Proceed("grow") /\ UNCHANGED <<disk, esp, seen>>
      BY <1>1, <1>6, <2>1 DEF CreateEspIfMissing
    <2>3. CASE MakeEsp(bad)
      <3>1. Proceed("grow") /\ seen' = "current"
        BY <1>1, <2>1, <2>3 DEF MakeEsp
      <3> QED
        BY <1>2, <3>1 DEF Proceed, Clean
    <2>4. CASE FixEspType(bad) /\ Proceed("grow")
      BY <1>2, <2>1, <2>4 DEF FixEspType, Proceed, Clean
    <2>5. CASE Proceed("grow") /\ UNCHANGED <<disk, esp, seen>>
      BY <1>2, <2>1, <2>5 DEF Proceed, Clean
    <2> QED
      BY <2>2, <2>3, <2>4, <2>5
  <1>7. CASE Grow(bad)
    <2>1. pc = "grow" /\ seen = "current" /\ EspAsMade
      BY <1>7 DEF Grow, OnCourse, Clean
    <2>2. disk.table \in {"gpt", "dos"}
      BY <2>1, ImageTyped DEF EspAsMade
    <2>3. Proceed("mount")
      BY <1>1, <1>7, <2>1, <2>2 DEF Grow
    <2> QED
      BY <1>4, <2>3
  <1>8. CASE Mount(bad)
    <2>1. ~FstabFails(bad)
      BY <1>1 DEF FstabFails
    <2>2. Proceed("seed")
      BY <1>1, <1>8, <2>1 DEF Mount
    <2> QED
      BY <1>4, <2>2
  <1>9. CASE GrubHost(bad) \/ GrubChroot(bad)
    <2>1. pc = "grub" /\ At = EspPlace
      BY <1>9 DEF GrubHost, GrubChroot, OnCourse
    <2>2. EspIsThere
      BY <2>1 DEF EspIsThere, EspPlace
    <2>3. At = "none" => image.bios
      BY <2>1 DEF EspPlace, TargetInv, Installed, Supported
    <2>4. Proceed("prune")
      BY <1>1, <1>9, <2>2, <2>3 DEF GrubHost, GrubChroot
    <2> QED
      BY <1>4, <2>4
  <1>10. CASE Unmount(bad)
    <2>1. mounts' = {}
      BY <1>1, <1>10 DEF Unmount, Stuck, MountInv, Late
    <2>2. Proceed("succeed")
      BY <1>10, <2>1 DEF Unmount
    <2> QED
      BY <1>4, <2>2
  <1>11. CASE Unwind(bad)
    BY <1>11 DEF Unwind, Clean
  <1>12. CASE Succeed(bad)
    BY <1>1, <1>12 DEF Succeed, Clean
  <1> QED
    BY <1>5, <1>6, <1>7, <1>8, <1>9, <1>10, <1>11, <1>12 DEF Failed, StageOf

LEMMA CourseInvStep == Progress /\ MountInv /\ TargetInv /\ CourseInv /\ [InstallNext]_vars => CourseInv'
  <1> SUFFICES ASSUME Progress, MountInv, TargetInv, CourseInv, [InstallNext]_vars PROVE CourseInv'
    OBVIOUS
  <1>1. HeldInv'
    BY HeldStep DEF CourseInv
  <1>2. ASSUME NEW bad, Failed(bad) PROVE CourseInv'
    <2>1. (Supported' <=> Supported) /\ FailedNow' = FailedNow \cup bad
      BY <1>2, SameMachine DEF Failed
    <2>2. Supported /\ ~Blamed' => OnCourse'
      BY <1>2, Innocent, CourseStep DEF CourseInv
    <2>3. FailedNow' = {} => FailedNow = {} /\ ~Blamed'
      <3>1. \A b \in Blame' : b # {}
        BY DEF Blame, KernelBlame
      <3> QED
        BY <2>1, <3>1 DEF Blamed
    <2>4. Supported /\ FailedNow' = {} => Clean'
      <3>1. FailedNow' = {} => ~Blamed
        BY <1>2, <2>3, Innocent
      <3> QED
        BY <1>2, <2>2, <2>3, <3>1, CleanStep DEF CourseInv
    <2> QED
      BY <1>1, <2>1, <2>2, <2>4 DEF CourseInv
  <1>3. CASE NextRun
    <2>1. pc' = "prepare" /\ outcome' = "none"
      BY <1>3 DEF NextRun
    <2> QED
      BY <1>1, <2>1 DEF CourseInv, OnCourse, Clean
  <1>4. CASE UNCHANGED vars
    <2>1. UNCHANGED <<host, image, pc, disk, esp, entries, mounts, seen, os, outcome>> /\ FailedNow' = FailedNow
      BY <1>4 DEF vars, FailedNow
    <2>2. (Supported' <=> Supported) /\ ImageEsp' = ImageEsp /\ (RootFound' <=> RootFound)
      BY <2>1, SameMachine
    <2>3. Blamed' <=> Blamed
      BY <2>1 DEF Blamed, Blame, KernelBlame
    <2>4. Boots' <=> Boots
      BY <2>1, <2>2 DEF Boots, FirmwareStarts, Kind
    <2>5. (EspAsMade' <=> EspAsMade) /\ (LoaderIsFound' <=> LoaderIsFound) /\ At' = At /\ EspPlace' = EspPlace
      BY <2>1, <2>2 DEF EspAsMade, LoaderIsFound, At, EspPlace
    <2>6. (OnCourse' <=> OnCourse) /\ (Clean' <=> Clean)
      BY <2>1, <2>2, <2>4, <2>5 DEF OnCourse, Clean
    <2> QED
      BY <1>1, <2>1, <2>2, <2>3, <2>6 DEF CourseInv
  <1> QED
    BY <1>2, <1>3, <1>4, StepCases

LEMMA StaysOnCourse == Spec => [](Progress /\ CourseInv)
  <1>1. InstallInit => Progress /\ MountInv /\ TargetInv /\ CourseInv
    <2>1. InstallInit => MountInv
      BY DEF InstallInit, MountInv, NothingLeftMounted, Points, Early, Late
    <2>2. InstallInit => CourseInv
      BY DEF InstallInit, CourseInv, HeldInv, OnCourse, Clean, BeforeRelease
    <2> QED
      BY <2>1, <2>2, ProgressInit, TargetInit
  <1>2. Progress /\ MountInv /\ TargetInv /\ CourseInv /\ [InstallNext]_vars => (Progress /\ MountInv /\ TargetInv /\ CourseInv)'
    BY ProgressStep, MountStep, TargetStep, CourseInvStep
  <1> QED
    BY <1>1, <1>2, SpecIsInstall, PTL DEF InstallSpec

(* A machine whose install was reported as a success boots what was        *)
(* installed, unless one of the commands of Blame failed: for every        *)
(* machine and image that Run of pipeline.go supports, and with at most    *)
(* the two failures that the stages choose from.                           *)
THEOREM SuccessMeansBoot == Spec => []BootsUnlessBlamed
  <1>1. CourseInv => BootsUnlessBlamed
    BY DEF CourseInv, OnCourse, Blamed, BootsUnlessBlamed
  <1> QED
    BY <1>1, StaysOnCourse, PTL

(* A run of pipeline.go in which no command fails succeeds, whatever the   *)
(* runs before it left mounted, half written or in NVRAM.                  *)
THEOREM CleanRunsSucceed == Spec => []CleanRunSucceeds
  <1>1. CourseInv => CleanRunSucceeds
    BY DEF CourseInv, Clean, CleanRunSucceeds
  <1> QED
    BY <1>1, StaysOnCourse, PTL

-----------------------------------------------------------------------------

(* The ports of a plan.                                                    *)
Ports == PortMacs \cup PortNames

LEMMA PlanTyped ==
  ASSUME plan \in Plans
  PROVE  /\ DOMAIN S!Nics \subseteq 1..3 /\ \A i \in DOMAIN S!Nics : S!Nics[i] \in S!Nic
         /\ S!Distinct(S!Nics)
         /\ DOMAIN plan.ports \subseteq 1..3 /\ \A i \in DOMAIN plan.ports : plan.ports[i] \in Ports
         /\ plan.selector[1] \in {"auto", "mac", "name"}
         /\ plan.selector[1] = "mac" => plan.selector[2] \in PortMacs
         /\ plan.selector[1] = "name" => plan.selector[2] \in Ports
         /\ {plan.vlan, plan.keys, plan.rhel, plan.enforcing, plan.cloudInit} \subseteq BOOLEAN
         /\ plan.renderer \in {"netplan", "network-manager", "sysconfig", "eni", "wicked"}
         /\ plan.shipped \subseteq {"ifcfg", "keyfile"} \X PortNames
         /\ S!Bonded <=> 1 \in DOMAIN plan.ports
         /\ S!Nics = <<>> <=> 1 \notin DOMAIN S!Nics
  <1>1. /\ plan.nics \in Seq(S!Nic) /\ plan.ports \in Seq(Ports) /\ Len(plan.nics) <= 3 /\ Len(plan.ports) <= 3
        /\ S!Distinct(plan.nics) /\ plan.selector \in S!Selector
        /\ {plan.vlan, plan.keys, plan.rhel, plan.enforcing, plan.cloudInit} \subseteq BOOLEAN
        /\ plan.renderer \in {"netplan", "network-manager", "sysconfig", "eni", "wicked"}
        /\ plan.shipped \subseteq {"ifcfg", "keyfile"} \X PortNames
    BY PlanData DEF S!Plan, S!MaxPorts, Ports
  <1>2. /\ plan.selector[1] \in {"auto", "mac", "name"}
        /\ plan.selector[1] = "mac" => plan.selector[2] \in PortMacs
        /\ plan.selector[1] = "name" => plan.selector[2] \in Ports
    <2>1. CASE plan.selector = <<"auto">>
      BY <2>1
    <2>2. CASE plan.selector \in {"mac"} \X PortMacs
      BY <2>2
    <2>3. CASE plan.selector \in {"name"} \X Ports
      BY <2>3
    <2> QED
      BY <1>1, <2>1, <2>2, <2>3 DEF S!Selector, Ports
  <1> QED
    BY <1>1, <1>2 DEF S!Nics, S!Bonded

LEMMA FirstIn ==
  ASSUME NEW indices \in SUBSET (1..3), indices # {}
  PROVE  S!First(indices) \in indices
  <1>1. \E i \in indices : \A j \in indices : i <= j
    <2>1. CASE 1 \in indices
      BY <2>1
    <2>2. CASE 1 \notin indices /\ 2 \in indices
      BY <2>2
    <2>3. CASE 1 \notin indices /\ 2 \notin indices
      <3>1. \A i \in indices : i = 3
        BY <2>3
      <3>2. 3 \in indices
        BY <3>1
      <3> QED
        BY <3>1, <3>2
    <2> QED
      BY <2>1, <2>2, <2>3
  <1> QED
    BY <1>1 DEF S!First

(* What a port is resolved to.                                             *)
LEMMA Resolves ==
  ASSUME plan \in Plans
  PROVE  /\ \A mac : S!WithMac(mac) \subseteq DOMAIN S!Nics
         /\ \A mac : S!WithMac(mac) # {} => S!First(S!WithMac(mac)) \in S!WithMac(mac)
         /\ \A mac, other : S!LiveName(mac, other) \in PortNames \cup {other}
         /\ \A port \in Ports : S!MacOfPort(port) \in PortMacs \cup {S!None}
         /\ S!PickPhysicalNIC \in PortMacs \cup {S!None}
         /\ S!LiveDevice \in Ports
         /\ {S!IfcfgMac, S!KeyfileMac} \subseteq PortMacs \cup {S!None}
         /\ \A mac : S!EthIndex(mac) + 1 \in 1..3
  <1> USE DEF S!Nic
  <1>1. \A mac : S!WithMac(mac) \subseteq DOMAIN S!Nics
    BY DEF S!WithMac
  <1>2. \A mac : S!WithMac(mac) # {} => S!First(S!WithMac(mac)) \in S!WithMac(mac)
    BY <1>1, PlanTyped, FirstIn
  <1>3. \A mac, other : S!LiveName(mac, other) \in PortNames \cup {other}
    BY <1>1, <1>2, PlanTyped DEF S!LiveName
  <1>4. \A port \in Ports : S!MacOfPort(port) \in PortMacs \cup {S!None}
    <2> SUFFICES ASSUME NEW port \in Ports PROVE S!MacOfPort(port) \in PortMacs \cup {S!None}
      OBVIOUS
    <2> DEFINE named == {i \in DOMAIN S!Nics : S!Nics[i].name = port}
    <2>1. named # {} => S!First(named) \in named
      BY PlanTyped, FirstIn
    <2> QED
      BY <2>1, PlanTyped DEF S!MacOfPort, S!MacOfName, S!IsMac
  <1>5. S!PickPhysicalNIC \in PortMacs \cup {S!None}
    <2> DEFINE physical == {i \in DOMAIN S!Nics : ~S!Nics[i].virtual}
               up == {i \in physical : S!Nics[i].link}
    <2>1. /\ up # {} => S!First(up) \in up
          /\ physical # {} => S!First(physical) \in physical
      <3>1. up \in SUBSET (1..3) /\ physical \in SUBSET (1..3)
        BY PlanTyped
      <3> QED
        BY <3>1, FirstIn
    <2> QED
      BY <2>1, PlanTyped DEF S!PickPhysicalNIC
  <1>6. S!LiveDevice \in Ports
    BY <1>3, PlanTyped, PortData DEF S!LiveDevice, S!IsMac, Ports
  <1>7. {S!IfcfgMac, S!KeyfileMac} \subseteq PortMacs \cup {S!None}
    BY <1>4, <1>5, PlanTyped DEF S!IfcfgMac, S!KeyfileMac, S!IsMac, Ports
  <1>8. \A mac : S!EthIndex(mac) + 1 \in 1..3
    BY <1>1, <1>2, PlanTyped DEF S!EthIndex
  <1> QED
    BY <1>1, <1>2, <1>3, <1>4, <1>5, <1>6, <1>7, <1>8

(* What the seed writes, and the paths it has.                             *)
SeedPath == S!Dirs \X (S!Files \cup Ports)
SeedStanza == [path : SeedPath, kind : {"nic", "port", "bond", "vlan"}, mac : PortMacs \cup {S!Any, "bond0"},
               name : Ports \cup {S!Any, "bond0"}, addressed : BOOLEAN]

LEMMA StanzaTyped ==
  ASSUME NEW path \in SeedPath, NEW kind \in {"nic", "port", "bond", "vlan"}, NEW addressed \in BOOLEAN
  PROVE  /\ \A mac \in PortMacs \cup {S!None} : S!OnMac(path, kind, mac, addressed) \in SeedStanza
         /\ \A name \in Ports : S!OnName(path, kind, name, addressed) \in SeedStanza
  BY DEF S!OnMac, S!OnName, S!Stanza, SeedStanza

LEMMA BondTyped ==
  ASSUME NEW dir \in S!Dirs, plan \in Plans
  PROVE  S!BondOf(dir) \subseteq SeedStanza
  <1>1. <<dir, "bond0">> \in SeedPath /\ <<dir, "vlan">> \in SeedPath
    BY DEF SeedPath, S!Files
  <1>2. S!Stanza(<<dir, "bond0">>, "bond", S!Any, "bond0", S!AddressOnBond) \in SeedStanza
    <2>1. S!AddressOnBond \in BOOLEAN
      BY PlanTyped DEF S!AddressOnBond
    <2> QED
      BY <1>1, <2>1 DEF S!Stanza, SeedStanza
  <1>3. S!Stanza(<<dir, "vlan">>, "vlan", S!Any, "bond0", TRUE) \in SeedStanza
    BY <1>1 DEF S!Stanza, SeedStanza
  <1> QED
    BY <1>2, <1>3 DEF S!BondOf

LEMMA ConfigTyped ==
  ASSUME plan \in Plans, NEW path \in SeedPath
  PROVE  S!NetworkConfig(path) \subseteq SeedStanza
  <1> DEFINE port(p) == IF S!MacOfPort(p) # S!None THEN S!OnMac(path, "port", S!MacOfPort(p), FALSE) ELSE S!OnName(path, "port", p, FALSE)
             single(kind, addressed) ==
               IF plan.selector[1] = "name" THEN S!OnName(path, kind, plan.selector[2], addressed)
               ELSE IF plan.selector[1] = "mac" THEN S!OnMac(path, kind, plan.selector[2], addressed)
               ELSE S!OnMac(path, kind, S!PickPhysicalNIC, addressed)
  <1>1. \A p \in Ports : port(p) \in SeedStanza
    BY StanzaTyped, Resolves
  <1>2. ASSUME NEW kind \in {"nic", "vlan"}, NEW addressed \in BOOLEAN PROVE single(kind, addressed) \in SeedStanza
    BY StanzaTyped, Resolves, PlanTyped
  <1>3. \A g \in S!BondOf("seed") : [g EXCEPT !.path = path] \in SeedStanza
    <2>1. S!BondOf("seed") \subseteq SeedStanza
      BY BondTyped DEF S!Dirs
    <2> QED
      BY <2>1 DEF SeedStanza
  <1>4. ASSUME NEW f \in S!NetworkConfig(path)
        PROVE  \/ \E i \in DOMAIN plan.ports : f = port(plan.ports[i])
               \/ \E g \in S!BondOf("seed") : f = [g EXCEPT !.path = path]
               \/ f \in {single("nic", FALSE), single("nic", TRUE), single("vlan", TRUE)}
    BY <1>4 DEF S!NetworkConfig
  <1> HIDE DEF port, single
  <1> QED
    BY <1>1, <1>2, <1>3, <1>4, PlanTyped

LEMMA StanzasTyped ==
  ASSUME plan \in Plans
  PROVE  S!Ifcfg \cup S!Interfaces \cup S!Wicked \cup S!Keyfiles \cup S!ShippedFiles \subseteq SeedStanza
  <1> DEFINE Typed(stanzas) == \A f \in stanzas : f \in SeedStanza
  <1>0. \A dir \in S!Dirs, file \in S!Files \cup Ports : <<dir, file>> \in SeedPath
    BY DEF SeedPath
  <1>1. \A i \in 1..3 : S!Eth[i] \in PortNames /\ S!Slave[i] \in S!Files
    <2>1. S!Eth[1] = "eth0" /\ S!Eth[2] = "eth1" /\ S!Eth[3] = "eth2"
      BY DEF S!Eth
    <2>2. S!Slave[1] = "slave 0" /\ S!Slave[2] = "slave 1" /\ S!Slave[3] = "slave 2"
      BY DEF S!Slave
    <2>3. {"slave 0", "slave 1", "slave 2"} \subseteq S!Files
      BY DEF S!Files
    <2>4. \A i \in 1..3 : i = 1 \/ i = 2 \/ i = 3
      OBVIOUS
    <2> QED
      BY <2>1, <2>2, <2>3, <2>4, PortData
  <1>2. \A dir \in S!Dirs : Typed(S!BondOf(dir))
    BY BondTyped
  <1>3. Typed(S!Ifcfg)
    <2> SUFFICES ASSUME NEW f \in S!Ifcfg PROVE f \in SeedStanza
      OBVIOUS
    <2>1. \/ f \in S!BondOf("ifcfg")
          \/ \E i \in 1..3, kind \in {"nic", "port"}, b \in BOOLEAN, mac \in PortMacs : f = S!OnMac(<<"ifcfg", S!Eth[i]>>, kind, mac, b)
          \/ \E i, j \in 1..3, kind \in {"nic", "port"}, b \in BOOLEAN : f = S!OnName(<<"ifcfg", S!Eth[i]>>, kind, S!Eth[j], b)
      <3>1. CASE S!Bonded
        BY <3>1, Resolves, PlanTyped DEF S!Ifcfg
      <3>2. CASE ~S!Bonded
        <4>1. /\ f = IF S!IfcfgMac = S!None THEN S!OnName(<<"ifcfg", S!Eth[S!EthIndex(S!IfcfgMac) + 1]>>, "nic", "eth0", TRUE)
                     ELSE S!OnMac(<<"ifcfg", S!Eth[S!EthIndex(S!IfcfgMac) + 1]>>, "nic", S!IfcfgMac, TRUE)
              /\ S!Eth[1] = "eth0"
          BY <3>2 DEF S!Ifcfg, S!Eth
        <4>2. S!EthIndex(S!IfcfgMac) + 1 \in 1..3 /\ S!IfcfgMac \in PortMacs \cup {S!None}
          BY Resolves
        <4>3. CASE S!IfcfgMac = S!None
          <5>1. 1 \in 1..3 /\ "nic" \in {"nic", "port"} /\ TRUE \in BOOLEAN
            OBVIOUS
          <5> QED
            BY <4>1, <4>2, <4>3, <5>1
        <4>4. CASE S!IfcfgMac # S!None
          BY <4>1, <4>2, <4>4
        <4> QED
          BY <4>3, <4>4
      <3> QED
        BY <3>1, <3>2
    <2>2. \A i \in 1..3 : <<"ifcfg", S!Eth[i]>> \in SeedPath
      BY <1>0, <1>1 DEF S!Dirs, Ports
    <2>3. "ifcfg" \in S!Dirs
      BY DEF S!Dirs
    <2> QED
      BY <1>1, <1>2, <2>1, <2>2, <2>3, StanzaTyped DEF Ports
  <1>4. Typed(S!Interfaces)
    <2> SUFFICES ASSUME NEW f \in S!Interfaces PROVE f \in SeedStanza
      OBVIOUS
    <2> DEFINE path == <<"interfaces", "file">>
               dev(port) == IF S!IsMac(port) THEN S!LiveName(port, port) ELSE port
    <2>1. \/ \E i \in DOMAIN plan.ports : f = S!OnName(path, "port", dev(plan.ports[i]), FALSE)
          \/ \E g \in S!BondOf("interfaces") : f = [g EXCEPT !.path = path]
          \/ f = S!OnName(path, "nic", S!LiveDevice, TRUE)
      BY DEF S!Interfaces
    <2>2. \A port \in Ports : dev(port) \in Ports
      BY Resolves DEF Ports
    <2>3. path \in SeedPath /\ "interfaces" \in S!Dirs
      BY <1>0 DEF S!Dirs, S!Files
    <2>4. \A g \in S!BondOf("interfaces") : [g EXCEPT !.path = path] \in SeedStanza
      <3>1. S!BondOf("interfaces") \subseteq SeedStanza
        BY <2>3, BondTyped
      <3> QED
        BY <2>3, <3>1 DEF SeedStanza
    <2> HIDE DEF path, dev
    <2> QED
      BY <2>1, <2>2, <2>3, <2>4, StanzaTyped, Resolves, PlanTyped
  <1>5. Typed(S!Wicked)
    <2> SUFFICES ASSUME NEW f \in S!Wicked PROVE f \in SeedStanza
      OBVIOUS
    <2>1. \/ f \in S!BondOf("wicked")
          \/ \E kind \in {"nic", "port"}, b \in BOOLEAN, name \in Ports : f = S!OnName(<<"wicked", name>>, kind, name, b)
      BY Resolves, PlanTyped DEF S!Wicked
    <2>2. "wicked" \in S!Dirs /\ \A name \in Ports : <<"wicked", name>> \in SeedPath
      BY <1>0 DEF S!Dirs
    <2> QED
      BY <1>2, <2>1, <2>2, StanzaTyped
  <1>6. Typed(S!Keyfiles)
    <2> SUFFICES ASSUME NEW f \in S!Keyfiles PROVE f \in SeedStanza
      OBVIOUS
    <2>1. \/ f \in S!BondOf("keyfile")
          \/ \E i \in 1..3, mac \in PortMacs \cup {S!None} : f = S!OnMac(<<"keyfile", S!Slave[i]>>, "port", mac, FALSE)
          \/ \E mac \in PortMacs \cup {S!None} : f = S!OnMac(<<"keyfile", "file">>, "nic", mac, TRUE)
      BY Resolves, PlanTyped DEF S!Keyfiles
    <2>2. /\ "keyfile" \in S!Dirs /\ <<"keyfile", "file">> \in SeedPath
          /\ \A i \in 1..3 : <<"keyfile", S!Slave[i]>> \in SeedPath
      BY <1>0, <1>1 DEF S!Dirs, S!Files
    <2> QED
      BY <1>2, <2>1, <2>2, StanzaTyped
  <1>7. Typed(S!ShippedFiles)
    <2> SUFFICES ASSUME NEW s \in plan.shipped PROVE S!OnName(s, "nic", s[2], TRUE) \in SeedStanza
      BY DEF S!ShippedFiles
    <2>1. s \in SeedPath /\ s[2] \in PortNames
      BY PlanTyped DEF SeedPath, S!Dirs, Ports
    <2> QED
      BY <2>1, StanzaTyped DEF Ports
  <1> QED
    BY <1>3, <1>4, <1>5, <1>6, <1>7

(* The seed's files, paths and lost writes keep their types.               *)
SeedTyped ==
  /\ files \subseteq SeedStanza /\ written \subseteq SeedPath /\ unlabelled \subseteq written
  /\ IsFiniteSet(lost) /\ Cardinality(lost) <= SeedFaults

LEMMA PutTyped ==
  ASSUME SeedTyped, NEW stanzas \in SUBSET SeedStanza, NEW paths \in SUBSET SeedPath, NEW bad, S!Put(stanzas, paths, bad)
  PROVE  files' \subseteq SeedStanza /\ written' \subseteq SeedPath /\ unlabelled' \subseteq written'
  <1>1. S!PathsOf(stanzas) \subseteq SeedPath
    BY DEF S!PathsOf, SeedStanza
  <1> QED
    BY <1>1 DEF S!Put, SeedTyped

LEMMA FewLost ==
  ASSUME SeedTyped, NEW bad, lost' = lost \cup bad,
         \/ bad = {}
         \/ Cardinality(lost) < SeedFaults /\ \E p : bad = {p}
         \/ Cardinality(lost) + 1 < SeedFaults /\ \E p, q : bad = {p, q}
  PROVE  IsFiniteSet(lost') /\ Cardinality(lost') <= SeedFaults
  <1>1. SeedFaults \in Nat /\ Cardinality(lost) \in Nat
    BY PortData, FS_CardinalityType DEF SeedTyped
  <1>2. ASSUME NEW set, IsFiniteSet(set), NEW p
        PROVE  IsFiniteSet(set \cup {p}) /\ Cardinality(set \cup {p}) <= Cardinality(set) + 1 /\ Cardinality(set \cup {p}) \in Nat
    <2>1. Cardinality(set) \in Nat
      BY <1>2, FS_CardinalityType
    <2>2. /\ IsFiniteSet(set \cup {p})
          /\ Cardinality(set \cup {p}) = IF p \in set THEN Cardinality(set) ELSE Cardinality(set) + 1
      BY <1>2, FS_AddElement
    <2> QED
      BY <2>1, <2>2
  <1>3. CASE bad = {}
    BY <1>3 DEF SeedTyped
  <1>4. CASE Cardinality(lost) < SeedFaults /\ \E p : bad = {p}
    <2> PICK p : bad = {p}
      BY <1>4
    <2>1. /\ IsFiniteSet(lost \cup {p}) /\ Cardinality(lost \cup {p}) <= Cardinality(lost) + 1
          /\ Cardinality(lost \cup {p}) \in Nat
      BY <1>2 DEF SeedTyped
    <2> QED
      BY <1>1, <1>4, <2>1
  <1>5. CASE Cardinality(lost) + 1 < SeedFaults /\ \E p, q : bad = {p, q}
    <2> PICK p, q : bad = {p, q}
      BY <1>5
    <2>1. IsFiniteSet(lost \cup {p}) /\ Cardinality(lost \cup {p}) <= Cardinality(lost) + 1 /\ Cardinality(lost \cup {p}) \in Nat
      BY <1>2 DEF SeedTyped
    <2>2. /\ IsFiniteSet((lost \cup {p}) \cup {q})
          /\ Cardinality((lost \cup {p}) \cup {q}) <= Cardinality(lost \cup {p}) + 1
          /\ Cardinality((lost \cup {p}) \cup {q}) \in Nat
      BY <1>2, <2>1
    <2>3. lost' = (lost \cup {p}) \cup {q}
      OBVIOUS
    <2> QED
      BY <1>1, <1>5, <2>1, <2>2, <2>3
  <1> QED
    BY <1>3, <1>4, <1>5

LEMMA SeedPathsTyped ==
  /\ S!SeedData \cup {S!Keys, S!Datasource, S!NoNetwork, S!Pin, S!Autorelabel} \subseteq SeedPath
  /\ S!DirectPaths \cup S!RendererPaths \cup {<<"systemd", "file">>} \subseteq SeedPath
  /\ <<"seed", "network-config">> \in SeedPath /\ <<"netplan", "file">> \in SeedPath
  <1>0. \A dir \in S!Dirs, file \in S!Files \cup Ports : <<dir, file>> \in SeedPath
    BY DEF SeedPath
  <1>1. S!SeedData \cup {S!Keys, S!Datasource, S!NoNetwork, S!Pin, S!Autorelabel} \subseteq SeedPath
    <2>1. S!SeedData \subseteq SeedPath
      BY <1>0 DEF S!SeedData, S!Dirs, S!Files
    <2>3. {S!Keys, S!Autorelabel} \subseteq SeedPath
      BY <1>0 DEF S!Keys, S!Autorelabel, S!Dirs, S!Files
    <2>2. {S!Datasource, S!NoNetwork, S!Pin} \subseteq SeedPath
      BY <1>0 DEF S!Datasource, S!NoNetwork, S!Pin, S!Dirs, S!Files
    <2> QED
      BY <2>1, <2>2, <2>3
  <1>2. {<<"systemd", "file">>, <<"hostname", "file">>, <<"shadow", "file">>, <<"ssh", "file">>} \subseteq SeedPath
    BY <1>0 DEF S!Dirs, S!Files
  <1>3. <<"seed", "network-config">> \in SeedPath /\ <<"netplan", "file">> \in SeedPath
    BY <1>0 DEF S!Dirs, S!Files
  <1> QED
    BY <1>1, <1>2, <1>3 DEF S!DirectPaths, S!RendererPaths

LEMMA WritesTyped ==
  ASSUME plan \in Plans
  PROVE  S!SeedNetwork \cup S!RendererStanzas \cup S!DirectStanzas \subseteq SeedStanza
  <1>1. S!SeedNetwork \subseteq SeedStanza
    BY ConfigTyped, SeedPathsTyped DEF S!SeedNetwork
  <1>2. S!RendererStanzas \subseteq SeedStanza
    BY StanzasTyped, PlanTyped DEF S!RendererStanzas
  <1>3. S!NetworkConfig(<<"netplan", "file">>) \subseteq SeedStanza
    BY ConfigTyped, SeedPathsTyped
  <1>4. S!DirectStanzas \subseteq SeedStanza
    BY <1>3, StanzasTyped, PlanTyped DEF S!DirectStanzas
  <1> QED
    BY <1>1, <1>2, <1>4

(* NetworkSeed counts with its own instance of FiniteSets.                 *)
LEMMA CountsAgree == S!Cardinality(lost) = Cardinality(lost)
  BY DEF S!Cardinality, Cardinality

LEMMA SeedTypedStep ==
  ASSUME plan \in Plans, SeedTyped, S!Next
  PROVE  SeedTyped'
  <1> DEFINE Few(bad) ==
        \/ bad = {}
        \/ Cardinality(lost) < SeedFaults /\ \E p : bad = {p}
        \/ Cardinality(lost) + 1 < SeedFaults /\ \E p, q : bad = {p, q}
  <1>0. ASSUME NEW bad, Few(bad), lost' = lost \cup bad PROVE IsFiniteSet(lost') /\ Cardinality(lost') <= SeedFaults
    BY <1>0, FewLost
  <1>1. ASSUME NEW paths, NEW bad \in S!Failing(paths) PROVE Few(bad)
    <2>1. CASE Cardinality(lost) < SeedFaults
      <3>1. bad = {} \/ \E p : bad = {p}
        BY <1>1 DEF S!Failing
      <3> QED
        BY <2>1, <3>1
    <2>2. CASE ~(Cardinality(lost) < SeedFaults)
      <3>1. bad = {}
        BY <1>1, <2>2, CountsAgree DEF S!Failing
      <3> QED
        BY <3>1
    <2> QED
      BY <2>1, <2>2
  <1>2. ASSUME NEW stanzas \in SUBSET SeedStanza, NEW paths \in SUBSET SeedPath, NEW bad, Few(bad), S!Put(stanzas, paths, bad)
        PROVE  SeedTyped'
    <2>1. lost' = lost \cup bad
      BY <1>2 DEF S!Put
    <2> QED
      BY <1>0, <1>2, <2>1, PutTyped DEF SeedTyped
  <1>3. \E bad : Few(bad) /\ (\/ S!WriteData(bad) \/ S!CleanStaleNetworkConfig(bad) \/ S!WriteNetworkConfig(bad)
                              \/ S!WriteRenderer(bad) \/ S!WriteDatasource(bad) \/ S!WriteAuthorizedKeys(bad)
                              \/ S!Relabel(bad) \/ S!WriteDirect(bad) \/ S!WriteVTInitService(bad))
    <2>1. CASE \E bad \in S!Failing({S!Restorecon})
                       \cup (IF Cardinality(lost) + 1 < SeedFaults THEN {{S!Restorecon, S!Autorelabel}} ELSE {}) : S!Relabel(bad)
      <3>1. PICK bad : /\ S!Relabel(bad)
                       /\ \/ bad \in S!Failing({S!Restorecon})
                          \/ Cardinality(lost) + 1 < SeedFaults /\ bad = {S!Restorecon, S!Autorelabel}
        BY <2>1
      <3>2. Few(bad)
        BY <1>1, <3>1
      <3> QED
        BY <3>1, <3>2
    <2>2. CASE \E paths : \E bad \in S!Failing(paths) :
                 \/ S!WriteData(bad) \/ S!CleanStaleNetworkConfig(bad) \/ S!WriteNetworkConfig(bad)
                 \/ S!WriteRenderer(bad) \/ S!WriteDatasource(bad) \/ S!WriteAuthorizedKeys(bad)
                 \/ S!WriteDirect(bad) \/ S!WriteVTInitService(bad)
      BY <1>1, <2>2
    <2> QED
      BY <2>1, <2>2, CountsAgree DEF S!Next
  <1> HIDE DEF Few
  <1> PICK bad : Few(bad) /\ (\/ S!WriteData(bad) \/ S!CleanStaleNetworkConfig(bad) \/ S!WriteNetworkConfig(bad)
                              \/ S!WriteRenderer(bad) \/ S!WriteDatasource(bad) \/ S!WriteAuthorizedKeys(bad)
                              \/ S!Relabel(bad) \/ S!WriteDirect(bad) \/ S!WriteVTInitService(bad))
    BY <1>3
  <1> USE SeedPathsTyped, WritesTyped
  <1>4. CASE S!WriteData(bad) \/ S!WriteDatasource(bad) \/ S!WriteVTInitService(bad)
    <2>1. \E paths \in SUBSET SeedPath : S!Put({}, paths, bad)
      BY <1>4 DEF S!WriteData, S!WriteDatasource, S!WriteVTInitService
    <2> QED
      BY <1>2, <2>1
  <1>5. CASE S!CleanStaleNetworkConfig(bad)
    <2>1. files' \subseteq files /\ lost' = lost \cup bad /\ UNCHANGED <<written, unlabelled>>
      BY <1>5 DEF S!CleanStaleNetworkConfig
    <2> QED
      BY <1>0, <2>1 DEF SeedTyped
  <1>6. CASE S!WriteNetworkConfig(bad) \/ S!WriteRenderer(bad)
    BY <1>2, <1>6 DEF S!WriteNetworkConfig, S!WriteRenderer
  <1>7. CASE S!WriteAuthorizedKeys(bad)
    <2>1. \E paths \in SUBSET SeedPath : S!Put({}, paths, bad)
      BY <1>7 DEF S!WriteAuthorizedKeys
    <2> QED
      BY <1>2, <2>1
  <1>8. CASE S!Relabel(bad)
    <2>1. lost' = lost \cup bad /\ UNCHANGED files
      BY <1>8 DEF S!Relabel
    <2>2. \/ UNCHANGED <<written, unlabelled>>
          \/ unlabelled' \subseteq unlabelled /\ UNCHANGED written
          \/ written \subseteq written' /\ written' \subseteq written \cup {S!Autorelabel} /\ UNCHANGED unlabelled
      BY <1>8 DEF S!Relabel
    <2> QED
      BY <1>0, <2>1, <2>2 DEF SeedTyped
  <1>9. CASE S!WriteDirect(bad)
    BY <1>2, <1>9 DEF S!WriteDirect
  <1> QED
    BY <1>4, <1>5, <1>6, <1>7, <1>8, <1>9

LEMMA SeedTypes == Progress /\ SeedInv /\ SeedTyped => S!SeedTypeOK
  <1> SUFFICES ASSUME Progress, SeedInv, SeedTyped PROVE S!SeedTypeOK
    OBVIOUS
  <1>1. plan.nics \in Seq(S!Nic) /\ plan.selector \in S!Selector /\ step \in S!Steps
    BY PlanData DEF SeedInv, S!Plan
  <1>2. \A f \in files :
          /\ f.kind \in {"nic", "port", "bond", "vlan"} /\ f.addressed \in BOOLEAN
          /\ f.mac \in PortMacs \cup {S!Any, "bond0"} /\ f.name \in PortMacs \cup PortNames \cup {S!Any, "bond0"}
    BY DEF SeedTyped, SeedStanza, Ports
  <1>3. \A path \in written : path[1] \in S!Dirs /\ path[2] \in S!Files \cup PortMacs \cup PortNames
    BY DEF SeedTyped, SeedPath, Ports
  <1> QED
    BY <1>1, <1>2, <1>3, CountsAgree DEF S!SeedTypeOK, SeedTyped

(* Every variable of the run keeps its type, through the ten stages, the   *)
(* writes of the seed and the attempts after it.                           *)
THEOREM RunTypeCorrect == Spec => []RunTypeOK
  <1> DEFINE Inv == Progress /\ MountInv /\ TargetInv /\ SeedInv /\ SeedStage /\ SeedTyped
  <1>1. Init => Inv
    <2> SUFFICES ASSUME Init PROVE Inv
      OBVIOUS
    <2>1. InstallInit /\ Progress /\ TargetInv
      BY ProgressInit, TargetInit DEF Init
    <2>2. MountInv
      BY <2>1 DEF InstallInit, MountInv, NothingLeftMounted, Points, Early, Late
    <2>3. SeedInv /\ SeedStage
      BY <2>1 DEF Init, InstallInit, S!Init, SeedInv, SeedStage, UpToRelabel, AfterRelabel, Installed, S!Steps
    <2>4. SeedTyped
      <3>1. IsFiniteSet({}) /\ Cardinality({}) = 0
        BY FS_EmptySet
      <3>2. files \subseteq SeedStanza /\ written = {} /\ unlabelled = {} /\ lost = {}
        BY StanzasTyped DEF Init, S!Init
      <3> QED
        BY <3>1, <3>2, PortData DEF SeedTyped
    <2> QED
      BY <2>1, <2>2, <2>3, <2>4
  <1>2. Inv /\ [Next]_runVars => Inv'
    <2> SUFFICES ASSUME Inv, [Next]_runVars PROVE Inv'
      OBVIOUS
    <2>1. (Progress /\ MountInv /\ TargetInv /\ SeedInv /\ SeedStage)'
      BY RunIsInstall, ProgressStep, MountStep, TargetStep, SeedStageStep
    <2>2. SeedTyped'
      <3>1. CASE WriteSeed
        BY <3>1, SeedTypedStep DEF WriteSeed, SeedInv
      <3>2. CASE RunAgain
        <4>1. S!ShippedFiles \subseteq SeedStanza
          BY StanzasTyped DEF SeedInv
        <4>2. IsFiniteSet({}) /\ Cardinality({}) = 0
          BY FS_EmptySet
        <4>3. files' \subseteq SeedStanza /\ written' = {} /\ unlabelled' = {} /\ lost' = {}
          BY <3>2, <4>1 DEF RunAgain
        <4> QED
          BY <4>2, <4>3, PortData DEF SeedTyped
      <3>3. CASE RunStage \/ UNCHANGED runVars
        BY <3>3 DEF RunStage, runVars, seedVars, SeedTyped
      <3> QED
        BY <3>1, <3>2, <3>3 DEF Next
    <2> QED
      BY <2>1, <2>2
  <1>3. Inv => RunTypeOK
    <2>1. Progress /\ MountInv /\ TargetInv => InstallTypeOK
      BY DEF Progress, MountInv, TargetInv, InstallTypeOK, PCs, EspFiles
    <2> QED
      BY <2>1, SeedTypes DEF RunTypeOK
  <1> QED
    BY <1>1, <1>2, <1>3, PTL DEF Spec

-----------------------------------------------------------------------------
(* The network files.  Those of a directory change only when a step writes *)
(* into it.                                                                *)

In(stanzas, dirs) == {f \in stanzas : f.path[1] \in dirs}

LEMMA PutElsewhere ==
  ASSUME NEW stanzas, NEW paths, NEW bad, S!Put(stanzas, paths, bad), NEW dirs,
         \A f \in stanzas : f.path[1] \notin dirs, \A path \in paths : path[1] \notin dirs
  PROVE  In(files', dirs) = In(files, dirs)
  <1>1. \A path \in S!PathsOf(stanzas) \cup paths : path[1] \notin dirs
    BY DEF S!PathsOf
  <1> QED
    BY <1>1 DEF S!Put, In

LEMMA PutAll ==
  ASSUME NEW stanzas, NEW paths, NEW bad, S!Put(stanzas, paths, bad), NEW dirs,
         \A f \in stanzas : f.path[1] \in dirs, In(files, dirs) \subseteq stanzas, bad \cap S!PathsOf(stanzas) = {}
  PROVE  In(files', dirs) = stanzas
  <1>1. \A f \in stanzas : f.path \in S!PathsOf(stanzas) \ bad
    BY DEF S!PathsOf
  <1> QED
    BY <1>1 DEF S!Put, In

LEMMA FromByDir == S!FromSeed = In(files, {"seed"}) /\ S!FromFiles = In(files, S!Read)
  BY DEF S!FromSeed, S!FromFiles, In

(* What the plan leaves in the directories that the system reads.          *)
Own == IF plan.cloudInit THEN S!RendererStanzas ELSE S!DirectStanzas
Unlost == lost \cap S!Depended = {} /\ S!AllRemoved

LEMMA ReadDirs ==
  ASSUME plan \in Plans
  PROVE  /\ S!Read \subseteq {"netplan", "interfaces", "wicked", "keyfile", "ifcfg"}
         /\ \A f \in S!SeedNetwork : f.path[1] = "seed"
         /\ \A f \in S!RendererStanzas : f.path[1] \in S!Read
         /\ \A f \in S!DirectStanzas : f.path[1] \in S!Read
         /\ S!RendererStanzas \subseteq S!DirectStanzas
  <1>1. plan.renderer \in {"netplan", "network-manager", "sysconfig", "eni", "wicked"}
    BY PlanTyped
  <1>2. \A f \in S!SeedNetwork : f.path[1] = "seed"
    BY ConfigPaths DEF S!SeedNetwork
  <1>3. \A f \in S!NetworkConfig(<<"netplan", "file">>) : f.path[1] = "netplan"
    BY ConfigPaths
  <1>4. S!RendererStanzas \subseteq S!DirectStanzas /\ S!Read \subseteq {"netplan", "interfaces", "wicked", "keyfile", "ifcfg"}
    BY <1>1 DEF S!RendererStanzas, S!DirectStanzas, S!Read
  <1>5. \A f \in S!DirectStanzas : f.path[1] \in S!Read
    BY <1>1, <1>3, FilePaths DEF S!DirectStanzas, S!Read
  <1> QED
    BY <1>2, <1>4, <1>5

(* The paths without a stanza are in no directory of network files, and    *)
(* only one of them tells cloud-init to leave the network alone.           *)
LEMMA OtherPaths ==
  /\ \A path \in S!DirectPaths \cup S!RendererPaths \cup {S!Datasource, S!Keys, <<"systemd", "file">>} :
       path[1] \notin {"seed", "netplan", "interfaces", "wicked", "keyfile", "ifcfg"}
  /\ \A path \in S!SeedData : path[1] = "seed"
  /\ S!NoNetwork \notin S!DirectPaths \cup {S!Datasource, S!Keys, <<"systemd", "file">>, S!Autorelabel} \cup S!SeedData
  /\ S!NoNetwork \in S!RendererPaths => S!Bypass
  /\ S!Bypass => S!NoNetwork \in S!RendererPaths
  <1>1. /\ S!NoNetwork[1] = "cloud.cfg.d" /\ S!NoNetwork[2] = "no network"
        /\ S!Pin[1] = "cloud.cfg.d" /\ S!Pin[2] = "renderer"
        /\ S!Datasource[1] = "cloud.cfg.d" /\ S!Datasource[2] = "datasource"
        /\ S!Keys[1] = "ssh keys" /\ S!Autorelabel[1] = "autorelabel"
    BY DEF S!NoNetwork, S!Pin, S!Datasource, S!Keys, S!Autorelabel
  <1>2. /\ <<"hostname", "file">>[1] = "hostname" /\ <<"shadow", "file">>[1] = "shadow"
        /\ <<"ssh", "file">>[1] = "ssh" /\ <<"systemd", "file">>[1] = "systemd"
    OBVIOUS
  <1>3. \A path \in S!DirectPaths : path = S!Pin \/ path[1] \in {"hostname", "shadow", "ssh"}
    BY <1>2 DEF S!DirectPaths
  <1>4. \A path \in S!SeedData : path[1] = "seed"
    BY PlainPaths
  <1>5. S!RendererPaths \subseteq {S!NoNetwork, S!Pin} /\ (S!Bypass => S!RendererPaths = {S!NoNetwork})
        /\ (~S!Bypass => S!RendererPaths \subseteq {S!Pin})
    BY DEF S!RendererPaths
  <1> QED
    BY <1>1, <1>2, <1>3, <1>4, <1>5

NetInv ==
  /\ step \in {"data", "clean", "network"} => S!FromSeed = {}
  /\ step \in {"renderer", "datasource", "keys", "relabel", "direct", "vt init", "done"} => S!FromSeed = S!SeedNetwork
  /\ step \in {"data", "clean"} => files \subseteq S!ShippedFiles
  /\ Unlost =>
       /\ step \in {"network", "renderer"} => S!FromFiles = {}
       /\ step \in {"datasource", "keys", "relabel", "direct"} => S!FromFiles = S!RendererStanzas
       /\ step \in {"vt init", "done"} => S!FromFiles = Own
       /\ step \in {"datasource", "keys", "relabel", "direct", "vt init", "done"} /\ S!Bypass => S!NoNetwork \in written
  /\ S!NoNetwork \in written => S!Bypass

LEMMA ShippedElsewhere == plan \in Plans => \A f \in S!ShippedFiles : f.path[1] # "seed"
  <1> SUFFICES ASSUME plan \in Plans, NEW s \in plan.shipped PROVE S!OnName(s, "nic", s[2], TRUE).path[1] # "seed"
    BY DEF S!ShippedFiles
  <1>1. s[1] \in {"ifcfg", "keyfile"}
    BY PlanTyped
  <1> QED
    BY <1>1 DEF S!OnName, S!Stanza

(* What a plan asks for does not change with the files.                    *)
LEMMA SamePlan ==
  ASSUME plan' = plan
  PROVE  /\ S!SeedNetwork' = S!SeedNetwork /\ S!RendererStanzas' = S!RendererStanzas /\ S!DirectStanzas' = S!DirectStanzas
         /\ S!ShippedFiles' = S!ShippedFiles /\ S!Read' = S!Read /\ S!Bypass' = S!Bypass
         /\ S!Depended' = S!Depended /\ Own' = Own /\ (S!AllRemoved' <=> S!AllRemoved)
  <1> USE DEF S!MacOfPort, S!MacOfName, S!Nics, S!PickPhysicalNIC, S!BondOf, S!Bonded, S!AddressOnBond, S!LiveName, S!WithMac
  <1>1. \A path : S!NetworkConfig(path)' = S!NetworkConfig(path)
    BY SMT DEF S!NetworkConfig
  <1>2. S!Ifcfg' = S!Ifcfg /\ S!Keyfiles' = S!Keyfiles
    BY SMT DEF S!Ifcfg, S!Keyfiles, S!EthIndex, S!IfcfgMac, S!KeyfileMac
  <1>3. S!Interfaces' = S!Interfaces /\ S!Wicked' = S!Wicked
    BY SMT DEF S!Interfaces, S!Wicked, S!LiveDevice
  <1>4. S!ShippedFiles' = S!ShippedFiles /\ S!Read' = S!Read /\ S!Bypass' = S!Bypass
    BY SMT DEF S!ShippedFiles, S!Read, S!Bypass
  <1>5. S!RendererStanzas' = S!RendererStanzas /\ S!DirectStanzas' = S!DirectStanzas /\ S!SeedNetwork' = S!SeedNetwork
    BY <1>1, <1>2, <1>3, <1>4 DEF S!RendererStanzas, S!DirectStanzas, S!SeedNetwork
  <1>6. S!Depended' = S!Depended /\ Own' = Own
    BY <1>5 DEF S!Depended, S!PathsOf, Own
  <1>7. S!AllRemoved' <=> S!AllRemoved
    BY DEF S!AllRemoved, S!Matched
  <1> QED
    BY <1>4, <1>5, <1>6, <1>7

LEMMA NetStep ==
  ASSUME plan \in Plans, NetInv, S!Next
  PROVE  NetInv'
  <1> DEFINE NetDirs == {"seed", "netplan", "interfaces", "wicked", "keyfile", "ifcfg"}
  <1>0. plan' = plan
    BY DEF S!Next, S!WriteData, S!CleanStaleNetworkConfig, S!WriteNetworkConfig, S!WriteRenderer, S!WriteDatasource,
           S!WriteAuthorizedKeys, S!Relabel, S!WriteDirect, S!WriteVTInitService
  <1>1. /\ S!SeedNetwork' = S!SeedNetwork /\ S!RendererStanzas' = S!RendererStanzas /\ S!ShippedFiles' = S!ShippedFiles
        /\ S!Bypass' = S!Bypass /\ Own' = Own /\ (Unlost' <=> lost' \cap S!Depended = {} /\ S!AllRemoved)
        /\ S!FromSeed' = In(files', {"seed"}) /\ S!FromFiles' = In(files', S!Read)
        /\ S!FromSeed = In(files, {"seed"}) /\ S!FromFiles = In(files, S!Read)
    BY <1>0, SamePlan, FromByDir DEF Unlost, S!FromSeed, S!FromFiles, In
  <1>2. "seed" \notin S!Read /\ S!Read \subseteq NetDirs /\ {"seed"} \subseteq NetDirs
    BY ReadDirs
  <1>3. ASSUME NEW paths, NEW bad, S!Put({}, paths, bad), \A path \in paths : path[1] \notin NetDirs, S!NoNetwork \notin paths
        PROVE  /\ S!FromSeed' = S!FromSeed /\ S!FromFiles' = S!FromFiles /\ (Unlost' => Unlost)
               /\ written \subseteq written' /\ (S!NoNetwork \in written' => S!NoNetwork \in written)
    <2>1. In(files', {"seed"}) = In(files, {"seed"}) /\ In(files', S!Read) = In(files, S!Read)
      <3>1. ASSUME NEW dirs, dirs \subseteq NetDirs PROVE In(files', dirs) = In(files, dirs)
        <4>1. /\ S!Put({}, paths, bad) /\ \A path \in paths : path[1] \notin dirs
              /\ \A f \in {} : f.path[1] \notin dirs
          BY <1>3, <3>1
        <4> QED
          BY <4>1, PutElsewhere
      <3> HIDE DEF NetDirs
      <3> QED
        BY <1>2, <3>1
    <2>2. lost \subseteq lost' /\ written \subseteq written' /\ (S!NoNetwork \in written' => S!NoNetwork \in written)
      BY <1>3 DEF S!Put, S!PathsOf
    <2>3. Unlost' => Unlost
      <3>1. lost' \cap S!Depended = {} => lost \cap S!Depended = {}
        BY <2>2
      <3> QED
        BY <1>1, <3>1 DEF Unlost
    <2> QED
      BY <1>1, <2>1, <2>2, <2>3
  <1>4. ASSUME NEW bad, S!WriteData(bad) PROVE NetInv'
    <2>1. step = "data" /\ step' \in {"clean", "failed"} /\ S!Put({}, S!SeedData, bad)
      BY <1>4 DEF S!WriteData, S!Fatal, S!After
    <2>2. files' \subseteq files /\ (S!NoNetwork \in written' => S!NoNetwork \in written)
      BY <2>1, OtherPaths DEF S!Put, S!PathsOf
    <2>3. S!FromSeed' = {}
      BY <1>1, <2>1, <2>2 DEF NetInv, In
    <2> QED
      BY <1>1, <2>1, <2>2, <2>3 DEF NetInv
  <1>5. ASSUME NEW bad, S!CleanStaleNetworkConfig(bad) PROVE NetInv'
    <2>1. /\ step = "clean" /\ step' = "network" /\ lost' = lost \cup bad /\ written' = written
          /\ files' = {f \in files : f \notin S!Stale \/ f.path \in bad}
      BY <1>5 DEF S!CleanStaleNetworkConfig, S!Ignored, S!After
    <2>2. S!FromSeed' = {}
      BY <1>1, <2>1 DEF NetInv, In
    <2>3. ASSUME Unlost', NEW f \in files', f.path[1] \in S!Read PROVE FALSE
      <3>1. f \in S!ShippedFiles /\ f \in files
        BY <2>1, <2>3 DEF NetInv
      <3>2. f.path \in plan.shipped /\ f.path[1] \in {"ifcfg", "keyfile"}
        BY <3>1, PlanTyped DEF S!ShippedFiles, S!OnName, S!Stanza
      <3>3. plan.renderer \in {"network-manager", "sysconfig"}
        BY <2>3, <3>2, PlanTyped DEF S!Read
      <3>4. S!Matched(f.path)
        BY <1>1, <2>3, <3>2, <3>3 DEF S!AllRemoved
      <3>5. f.path \in bad
        BY <2>1, <2>3, <3>1, <3>4 DEF S!Stale
      <3>6. f.path \in S!Depended
        BY <3>2, <3>3 DEF S!Depended
      <3> QED
        BY <1>1, <2>1, <2>3, <3>5, <3>6
    <2>4. Unlost' => S!FromFiles' = {}
      BY <1>1, <2>3 DEF In
    <2> QED
      BY <1>1, <2>1, <2>2, <2>4 DEF NetInv
  <1>6. ASSUME NEW bad, S!WriteNetworkConfig(bad) PROVE NetInv'
    <2>1. step = "network" /\ step' = (IF bad = {} THEN "renderer" ELSE "failed") /\ S!Put(S!SeedNetwork, {}, bad)
      BY <1>6 DEF S!WriteNetworkConfig, S!Fatal, S!After
    <2>2. bad = {} => S!FromSeed' = S!SeedNetwork
      BY <1>1, <2>1, PutAll, ReadDirs DEF NetInv
    <2>3. S!FromFiles' = S!FromFiles
      BY <1>1, <1>2, <2>1, PutElsewhere, ReadDirs
    <2>4. lost \subseteq lost' /\ (S!NoNetwork \in written' => S!NoNetwork \in written)
      <3>1. S!NoNetwork[1] # "seed"
        BY DEF S!NoNetwork
      <3>2. S!NoNetwork \notin S!PathsOf(S!SeedNetwork)
        BY <3>1, ReadDirs DEF S!PathsOf
      <3> QED
        BY <2>1, <3>2 DEF S!Put
    <2>5. Unlost' => Unlost
      BY <1>1, <2>4 DEF Unlost
    <2> QED
      BY <1>1, <2>1, <2>2, <2>3, <2>4, <2>5 DEF NetInv
  <1>7. ASSUME NEW bad, S!WriteRenderer(bad) PROVE NetInv'
    <2>1. step = "renderer" /\ step' = "datasource" /\ S!Put(S!RendererStanzas, S!RendererPaths, bad)
      BY <1>7 DEF S!WriteRenderer, S!Ignored, S!After
    <2>2. S!FromSeed' = S!FromSeed
      BY <1>1, <1>2, <2>1, PutElsewhere, ReadDirs, OtherPaths
    <2>3. lost' = lost \cup bad /\ S!RendererPaths \ bad \subseteq written'
          /\ written' \subseteq written \cup S!PathsOf(S!RendererStanzas) \cup S!RendererPaths
      BY <2>1 DEF S!Put
    <2>4. S!NoNetwork \in written' => S!Bypass
      <3>1. S!NoNetwork[1] \notin NetDirs
        BY DEF S!NoNetwork
      <3>2. S!NoNetwork \notin S!PathsOf(S!RendererStanzas)
        BY <1>2, <3>1, ReadDirs DEF S!PathsOf
      <3> QED
        BY <2>3, <3>2, OtherPaths DEF NetInv
    <2>5. Unlost' => S!FromFiles' = S!RendererStanzas
      <3> SUFFICES ASSUME Unlost' PROVE S!FromFiles' = S!RendererStanzas
        OBVIOUS
      <3>1. bad \cap S!PathsOf(S!RendererStanzas) = {} /\ Unlost
        BY <1>1, <2>3 DEF Unlost, S!Depended
      <3>2. In(files, S!Read) = {}
        BY <1>1, <2>1, <3>1 DEF NetInv
      <3> QED
        BY <1>1, <2>1, <3>1, <3>2, PutAll, ReadDirs
    <2>6. Unlost' /\ S!Bypass => S!NoNetwork \in written'
      BY <1>1, <2>3, OtherPaths DEF S!Depended
    <2> QED
      BY <1>1, <2>1, <2>2, <2>4, <2>5, <2>6 DEF NetInv
  <1>8. ASSUME NEW bad, S!WriteDatasource(bad) \/ S!WriteAuthorizedKeys(bad) \/ S!WriteVTInitService(bad) PROVE NetInv'
    <2>1. \E paths : /\ S!Put({}, paths, bad)
                     /\ paths \subseteq {S!Datasource, S!Keys, <<"systemd", "file">>}
      BY <1>8 DEF S!WriteDatasource, S!WriteAuthorizedKeys, S!WriteVTInitService
    <2>2. /\ S!FromSeed' = S!FromSeed /\ S!FromFiles' = S!FromFiles /\ (Unlost' => Unlost)
          /\ written \subseteq written' /\ (S!NoNetwork \in written' => S!NoNetwork \in written)
      BY <1>3, <2>1, OtherPaths
    <2>3. \/ step = "datasource" /\ step' \in {"keys", "failed"}
          \/ step = "keys" /\ step' \in {"relabel", "failed"}
          \/ step = "vt init" /\ step' = "done"
      BY <1>8 DEF S!WriteDatasource, S!WriteAuthorizedKeys, S!WriteVTInitService, S!Fatal, S!Ignored, S!After
    <2> QED
      BY <1>1, <2>2, <2>3 DEF NetInv
  <1>9. ASSUME NEW bad, S!Relabel(bad) PROVE NetInv'
    <2>1. step = "relabel" /\ step' = "direct" /\ lost' = lost \cup bad /\ files' = files
      BY <1>9 DEF S!Relabel, S!Ignored, S!After
    <2>2. written \subseteq written' /\ written' \subseteq written \cup {S!Autorelabel}
      BY <1>9 DEF S!Relabel
    <2>3. (Unlost' => Unlost) /\ (S!NoNetwork \in written' => S!NoNetwork \in written)
      BY <1>1, <2>1, <2>2, OtherPaths DEF Unlost
    <2> QED
      BY <1>1, <2>1, <2>2, <2>3 DEF NetInv
  <1>10. ASSUME NEW bad, S!WriteDirect(bad) PROVE NetInv'
    <2>1. step = "direct" /\ step' = "vt init"
      BY <1>10 DEF S!WriteDirect, S!Ignored, S!After
    <2>2. CASE plan.cloudInit
      <3>1. S!Put({}, {}, {})
        BY <1>10, <2>2 DEF S!WriteDirect
      <3>2. /\ S!FromSeed' = S!FromSeed /\ S!FromFiles' = S!FromFiles /\ (Unlost' => Unlost)
            /\ written \subseteq written' /\ (S!NoNetwork \in written' => S!NoNetwork \in written)
        BY <1>3, <3>1
      <3> QED
        BY <1>1, <2>1, <2>2, <3>2 DEF NetInv, Own
    <2>3. CASE ~plan.cloudInit
      <3>1. S!Put(S!DirectStanzas, S!DirectPaths, bad)
        BY <1>10, <2>3 DEF S!WriteDirect
      <3>2. S!FromSeed' = S!FromSeed
        BY <1>1, <1>2, <3>1, PutElsewhere, ReadDirs, OtherPaths
      <3>3. /\ lost' = lost \cup bad /\ written \subseteq written'
            /\ written' \subseteq written \cup S!PathsOf(S!DirectStanzas) \cup S!DirectPaths
        BY <3>1 DEF S!Put
      <3>4. S!NoNetwork \in written' => S!NoNetwork \in written
        <4>1. S!NoNetwork[1] \notin NetDirs
          BY DEF S!NoNetwork
        <4>2. S!NoNetwork \notin S!PathsOf(S!DirectStanzas)
          BY <1>2, <4>1, ReadDirs DEF S!PathsOf
        <4> QED
          BY <3>3, <4>2, OtherPaths
      <3>5. Unlost' => Unlost /\ S!FromFiles' = Own
        <4> SUFFICES ASSUME Unlost' PROVE Unlost /\ S!FromFiles' = Own
          OBVIOUS
        <4>1. bad \cap S!PathsOf(S!DirectStanzas) = {} /\ Unlost
          BY <1>1, <2>3, <3>3 DEF Unlost, S!Depended
        <4>2. In(files, S!Read) \subseteq S!DirectStanzas
          BY <1>1, <2>1, <4>1, ReadDirs DEF NetInv
        <4> QED
          BY <1>1, <2>3, <3>1, <4>1, <4>2, PutAll, ReadDirs DEF Own
      <3> QED
        BY <1>1, <2>1, <3>2, <3>3, <3>4, <3>5 DEF NetInv
    <2> QED
      BY <2>2, <2>3
  <1> QED
    BY <1>4, <1>5, <1>6, <1>7, <1>8, <1>9, <1>10 DEF S!Next

-----------------------------------------------------------------------------
(* What stanzas bind.  MACs and names tell the ports of a machine apart.   *)

LEMMA OneNic ==
  ASSUME plan \in Plans, NEW i \in DOMAIN S!Nics
  PROVE  /\ S!WithMac(S!Nics[i].mac) = {i}
         /\ \A other : S!LiveName(S!Nics[i].mac, other) = S!Nics[i].name
         /\ S!Nics[i].mac \in PortMacs /\ S!Nics[i].mac \notin {S!Any, S!None, "bond0"}
         /\ \A f : f.mac = S!Nics[i].mac /\ f.name = S!Any => S!Binds(f) = {S!Nics[i]}
         /\ \A f : f.mac = S!Any /\ f.name = S!Nics[i].renamed => S!Binds(f) = {S!Nics[i]}
         /\ S!Nics[i].renamed # "bond0"
  <1>1. /\ \A j \in DOMAIN S!Nics : S!Nics[j].mac \in PortMacs /\ S!Nics[j].name \in PortNames /\ S!Nics[j].renamed \in PortNames
        /\ \A j \in DOMAIN S!Nics : S!Nics[j].mac = S!Nics[i].mac \/ S!Nics[j].renamed = S!Nics[i].renamed => j = i
    BY PlanTyped DEF S!Nic, S!Distinct
  <1>2. S!Nics[i].mac \notin {S!Any, S!None, "bond0"} /\ S!Nics[i].renamed \notin {S!Any, "bond0"}
    BY <1>1, PortData
  <1>3. S!WithMac(S!Nics[i].mac) = {i}
    BY <1>1 DEF S!WithMac
  <1>4. S!First({i}) = i
    <2>1. i \in 1..3
      BY PlanTyped
    <2>2. {i} \in SUBSET (1..3) /\ {i} # {}
      BY <2>1
    <2> QED
      BY <2>2, FirstIn
  <1>5. \A other : S!LiveName(S!Nics[i].mac, other) = S!Nics[i].name
    BY <1>3, <1>4 DEF S!LiveName
  <1>6. ASSUME NEW f, f.mac = S!Nics[i].mac, f.name = S!Any PROVE S!Binds(f) = {S!Nics[i]}
    BY <1>1, <1>2, <1>6 DEF S!Binds
  <1>7. ASSUME NEW f, f.mac = S!Any, f.name = S!Nics[i].renamed PROVE S!Binds(f) = {S!Nics[i]}
    BY <1>1, <1>2, <1>7 DEF S!Binds
  <1> QED
    BY <1>1, <1>2, <1>3, <1>5, <1>6, <1>7

(* The address on one port.                                                *)
LEMMA SingleAsMeant ==
  ASSUME plan \in Plans, ~S!Bonded, NEW stanzas, NEW f \in stanzas, f.addressed, \A g \in stanzas : g.addressed => g = f,
         NEW i \in DOMAIN S!Nics, S!Binds(f) = {S!Nics[i]}, S!Nics[i].mac \in S!MeantMacs,
         f.name # "bond0", f.kind = "vlan" <=> plan.vlan
  PROVE  S!AsMeant(stanzas)
  <1>1. plan.vlan \in BOOLEAN
    BY PlanTyped
  <1>2. S!Places(f) = {<<S!Nics[i].mac, plan.vlan>>}
    <2>1. (f.kind = "vlan") = plan.vlan
      BY <1>1
    <2>2. S!Places(f) = {<<n.mac, f.kind = "vlan">> : n \in {S!Nics[i]}}
      BY DEF S!Places
    <2>3. S!Places(f) = {<<n.mac, plan.vlan>> : n \in {S!Nics[i]}}
      BY <2>1, <2>2
    <2> QED
      BY <2>3
  <1>3. {g \in stanzas : g.addressed} = {f}
    OBVIOUS
  <1>4. S!AddressPlaces(stanzas) = {<<S!Nics[i].mac, plan.vlan>>}
    BY <1>2, <1>3 DEF S!AddressPlaces
  <1> QED
    BY <1>4 DEF S!AsMeant

(* The address on a bond of the right ports.                               *)
LEMMA BondAsMeant ==
  ASSUME plan \in Plans, S!Bonded, NEW stanzas,
         \A f \in stanzas : f.kind = "port" =>
           /\ ~f.addressed
           /\ \E k \in DOMAIN plan.ports, j \in DOMAIN S!Nics :
                S!Nics[j].mac = S!MacOfPort(plan.ports[k]) /\ S!Binds(f) = {S!Nics[j]},
         \A k \in DOMAIN plan.ports : \E f \in stanzas, j \in DOMAIN S!Nics :
           f.kind = "port" /\ S!Nics[j].mac = S!MacOfPort(plan.ports[k]) /\ S!Binds(f) = {S!Nics[j]},
         \A f \in stanzas : f.kind # "port" => f.name = "bond0" /\ (f.addressed => (f.kind = "vlan" <=> plan.vlan)),
         \E f \in stanzas : f.kind # "port" /\ f.addressed
  PROVE  S!AsMeant(stanzas)
  <1>1. plan.vlan \in BOOLEAN
    BY PlanTyped
  <1>2. ASSUME NEW f \in stanzas, f.addressed PROVE S!Places(f) = {<<"bond0", plan.vlan>>}
    <2>1. f.name = "bond0" /\ (f.kind = "vlan" <=> plan.vlan)
      BY <1>2
    <2>2. (f.kind = "vlan") = plan.vlan
      BY <1>1, <2>1
    <2> QED
      BY <2>1, <2>2 DEF S!Places
  <1>3. S!AddressPlaces(stanzas) = {<<"bond0", plan.vlan>>}
    BY <1>2 DEF S!AddressPlaces
  <1> DEFINE Meant == {j \in DOMAIN S!Nics : \E k \in DOMAIN plan.ports : S!Nics[j].mac = S!MacOfPort(plan.ports[k])}
  <1>4. S!PortsBound(stanzas) \subseteq {{S!Nics[j]} : j \in Meant}
    BY DEF S!PortsBound
  <1>5. ASSUME NEW j \in Meant PROVE {S!Nics[j]} \in S!PortsBound(stanzas)
    <2>1. PICK k \in DOMAIN plan.ports : S!Nics[j].mac = S!MacOfPort(plan.ports[k])
      OBVIOUS
    <2>2. PICK f \in stanzas, i \in DOMAIN S!Nics :
            f.kind = "port" /\ S!Nics[i].mac = S!MacOfPort(plan.ports[k]) /\ S!Binds(f) = {S!Nics[i]}
      OBVIOUS
    <2>3. i = j
      BY <2>1, <2>2, PlanTyped DEF S!Distinct
    <2> QED
      BY <2>2, <2>3 DEF S!PortsBound
  <1> QED
    BY <1>3, <1>4, <1>5 DEF S!AsMeant, S!MeantMacs

LEMMA StanzaFields ==
  ASSUME NEW path, NEW kind, NEW mac, NEW name, NEW addressed
  PROVE  /\ S!Stanza(path, kind, mac, name, addressed).kind = kind
         /\ S!Stanza(path, kind, mac, name, addressed).mac = mac
         /\ S!Stanza(path, kind, mac, name, addressed).name = name
         /\ S!Stanza(path, kind, mac, name, addressed).addressed = addressed
  BY DEF S!Stanza

LEMMA BondFields ==
  ASSUME NEW dir, plan \in Plans
  PROVE  /\ \A f \in S!BondOf(dir) :
              /\ f.kind # "port" /\ f.name = "bond0" /\ (f.addressed => (f.kind = "vlan" <=> plan.vlan))
              /\ \A path : /\ [f EXCEPT !.path = path].kind = f.kind /\ [f EXCEPT !.path = path].name = f.name
                           /\ [f EXCEPT !.path = path].addressed = f.addressed
         /\ \E f \in S!BondOf(dir) : f.kind # "port" /\ f.addressed
  <1>1. plan.vlan \in BOOLEAN
    BY PlanTyped
  <1> DEFINE bond == S!Stanza(<<dir, "bond0">>, "bond", S!Any, "bond0", S!AddressOnBond)
             tagged == S!Stanza(<<dir, "vlan">>, "vlan", S!Any, "bond0", TRUE)
  <1>5. /\ bond.kind = "bond" /\ bond.name = "bond0" /\ (bond.addressed <=> S!AddressOnBond)
        /\ tagged.kind = "vlan" /\ tagged.name = "bond0" /\ tagged.addressed
    <2>1. bond.kind = "bond" /\ bond.name = "bond0" /\ tagged.kind = "vlan" /\ tagged.name = "bond0"
      BY DEF S!Stanza
    <2>2. bond.addressed = S!AddressOnBond
      BY StanzaFields
    <2>3. tagged.addressed
      BY DEF S!Stanza
    <2> QED
      BY <2>1, <2>2, <2>3
  <1>6. S!BondOf(dir) = IF plan.vlan THEN {bond, tagged} ELSE {bond}
    BY DEF S!BondOf
  <1> HIDE DEF bond, tagged
  <1>2. \A f \in S!BondOf(dir) :
          /\ f.kind # "port" /\ f.name = "bond0" /\ (f.addressed => (f.kind = "vlan" <=> plan.vlan))
    BY <1>1, <1>5, <1>6 DEF S!AddressOnBond
  <1>3. \E f \in S!BondOf(dir) : f.kind # "port" /\ f.addressed
    <2>1. CASE plan.vlan
      <3>1. tagged \in S!BondOf(dir) /\ tagged.kind # "port" /\ tagged.addressed
        BY <1>5, <1>6, <2>1
      <3> QED
        BY <3>1
    <2>2. CASE ~plan.vlan
      <3>1. bond \in S!BondOf(dir) /\ bond.kind # "port" /\ bond.addressed
        BY <1>5, <1>6, <2>2 DEF S!AddressOnBond
      <3> QED
        BY <3>1
    <2> QED
      BY <2>1, <2>2
  <1>4. \A f \in S!BondOf(dir) : \A path :
          /\ [f EXCEPT !.path = path].kind = f.kind /\ [f EXCEPT !.path = path].name = f.name
          /\ [f EXCEPT !.path = path].addressed = f.addressed
    BY DEF S!BondOf, S!Stanza
  <1> QED
    BY <1>2, <1>3, <1>4

(* The port a supported plan means.                                        *)
LEMMA MeantPort ==
  ASSUME plan \in Plans, S!Supported, ~S!Bonded
  PROVE  \E i \in DOMAIN S!Nics :
           /\ S!Nics[i].mac = S!IfcfgMac /\ S!Nics[i].mac \in S!MeantMacs
           /\ S!LiveDevice = S!Nics[i].name
           /\ plan.selector[1] \in {"auto", "mac"}
           /\ plan.selector[1] = "auto" => S!PickPhysicalNIC = S!IfcfgMac
           /\ plan.selector[1] = "mac" => plan.selector[2] = S!IfcfgMac
  <1>1. plan.selector[1] \in {"auto", "mac"}
    BY PlanTyped DEF S!Supported
  <1>2. CASE plan.selector[1] = "auto"
    <2> DEFINE physical == {i \in DOMAIN S!Nics : ~S!Nics[i].virtual}
               up == {i \in physical : S!Nics[i].link}
    <2>1. physical # {}
      BY <1>2 DEF S!Supported
    <2>2. up \in SUBSET (1..3) /\ physical \in SUBSET (1..3)
      BY PlanTyped
    <2>3. \E i \in physical : S!PickPhysicalNIC = S!Nics[i].mac
      BY <2>1, <2>2, FirstIn DEF S!PickPhysicalNIC
    <2>4. PICK i \in physical : S!PickPhysicalNIC = S!Nics[i].mac
      BY <2>3
    <2>5. S!IfcfgMac = S!PickPhysicalNIC /\ S!LiveDevice = S!LiveName(S!PickPhysicalNIC, "eth0")
      BY <1>2 DEF S!IfcfgMac, S!LiveDevice
    <2>6. S!Nics[i].mac \in S!MeantMacs
      BY <1>2, <2>4 DEF S!MeantMacs
    <2> QED
      BY <1>2, <2>4, <2>5, <2>6, OneNic
  <1>3. CASE plan.selector[1] = "mac"
    <2>1. plan.selector[2] \in PortMacs
      BY <1>3, PlanTyped
    <2>2. PICK i \in DOMAIN S!Nics : S!Nics[i].mac = plan.selector[2]
      BY <1>3 DEF S!Supported, S!WithMac
    <2>3. S!IfcfgMac = plan.selector[2] /\ S!LiveDevice = S!LiveName(plan.selector[2], "eth0")
      BY <1>3, <2>1 DEF S!IfcfgMac, S!LiveDevice, S!IsMac
    <2>4. S!Nics[i].mac \in S!MeantMacs
      BY <1>3, <2>1, <2>2 DEF S!MeantMacs, S!MacOfPort, S!IsMac
    <2> QED
      BY <1>3, <2>2, <2>3, <2>4, OneNic
  <1> QED
    BY <1>1, <1>2, <1>3

LEMMA MeantBondPort ==
  ASSUME plan \in Plans, S!Supported, NEW k \in DOMAIN plan.ports
  PROVE  /\ S!IsMac(plan.ports[k]) /\ S!MacOfPort(plan.ports[k]) = plan.ports[k] /\ plan.ports[k] # S!None
         /\ \E j \in DOMAIN S!Nics : S!Nics[j].mac = plan.ports[k] /\ S!LiveName(plan.ports[k], plan.ports[k]) = S!Nics[j].name
  <1>1. S!IsMac(plan.ports[k]) /\ S!WithMac(plan.ports[k]) # {}
    BY DEF S!Supported
  <1>2. PICK j \in DOMAIN S!Nics : S!Nics[j].mac = plan.ports[k]
    BY <1>1 DEF S!WithMac
  <1> QED
    BY <1>1, <1>2, OneNic DEF S!MacOfPort

(* The files of a bond and its ports, whoever renders them.                *)
PortFile(f, k) == f.kind = "port" /\ ~f.addressed /\ \E j \in DOMAIN S!Nics : S!Nics[j].mac = plan.ports[k] /\ S!Binds(f) = {S!Nics[j]}
LikeBond(f, g) == f.kind = g.kind /\ f.name = g.name /\ (f.addressed <=> g.addressed)

LEMMA BondedAsMeant ==
  ASSUME plan \in Plans, S!Supported, S!Bonded, NEW stanzas, NEW dir,
         \A f \in stanzas : (\E k \in DOMAIN plan.ports : PortFile(f, k)) \/ \E g \in S!BondOf(dir) : LikeBond(f, g),
         \A k \in DOMAIN plan.ports : \E f \in stanzas : PortFile(f, k),
         \A g \in S!BondOf(dir) : \E f \in stanzas : LikeBond(f, g)
  PROVE  S!AsMeant(stanzas)
  <1>0. \A k \in DOMAIN plan.ports : S!MacOfPort(plan.ports[k]) = plan.ports[k]
    BY MeantBondPort
  <1>1. /\ \A g \in S!BondOf(dir) : g.kind # "port" /\ g.name = "bond0" /\ (g.addressed => (g.kind = "vlan" <=> plan.vlan))
        /\ \E g \in S!BondOf(dir) : g.kind # "port" /\ g.addressed
    BY BondFields
  <1>2. ASSUME NEW f \in stanzas, f.kind = "port"
        PROVE  /\ ~f.addressed
               /\ \E k \in DOMAIN plan.ports, j \in DOMAIN S!Nics :
                    S!Nics[j].mac = S!MacOfPort(plan.ports[k]) /\ S!Binds(f) = {S!Nics[j]}
    BY <1>0, <1>1, <1>2 DEF PortFile, LikeBond
  <1>3. ASSUME NEW k \in DOMAIN plan.ports
        PROVE  \E f \in stanzas, j \in DOMAIN S!Nics :
                 f.kind = "port" /\ S!Nics[j].mac = S!MacOfPort(plan.ports[k]) /\ S!Binds(f) = {S!Nics[j]}
    <2> PICK f \in stanzas : PortFile(f, k)
      BY <1>3
    <2>1. f.kind = "port" /\ \E j \in DOMAIN S!Nics : S!Nics[j].mac = plan.ports[k] /\ S!Binds(f) = {S!Nics[j]}
      BY DEF PortFile
    <2> QED
      BY <1>0, <2>1
  <1>4. ASSUME NEW f \in stanzas, f.kind # "port"
        PROVE  f.name = "bond0" /\ (f.addressed => (f.kind = "vlan" <=> plan.vlan))
    BY <1>1, <1>4 DEF PortFile, LikeBond
  <1>5. \E f \in stanzas : f.kind # "port" /\ f.addressed
    BY <1>1 DEF LikeBond
  <1> QED
    BY <1>2, <1>3, <1>4, <1>5, BondAsMeant

LEMMA PortByMac ==
  ASSUME plan \in Plans, S!Supported, NEW k \in DOMAIN plan.ports, NEW path
  PROVE  PortFile(S!OnMac(path, "port", plan.ports[k], FALSE), k)
  <1>1. PICK j \in DOMAIN S!Nics : S!Nics[j].mac = plan.ports[k]
    BY MeantBondPort
  <1>2. plan.ports[k] # S!None
    BY MeantBondPort
  <1> DEFINE f == S!OnMac(path, "port", plan.ports[k], FALSE)
  <1>3. f.kind = "port" /\ f.name = S!Any /\ f.mac = S!Nics[j].mac /\ ~f.addressed
    BY <1>1, <1>2 DEF S!OnMac, S!Stanza
  <1>4. S!Binds(f) = {S!Nics[j]}
    BY <1>3, OneNic
  <1> QED
    BY <1>1, <1>3, <1>4 DEF PortFile

LEMMA BondIsLikeItself ==
  ASSUME plan \in Plans, NEW dir, NEW g \in S!BondOf(dir)
  PROVE  LikeBond(g, g) /\ \A path : LikeBond([g EXCEPT !.path = path], g)
  BY BondFields DEF LikeBond

LEMMA ConfigAsMeant ==
  ASSUME plan \in Plans, S!Supported, NEW path, plan.vlan /\ ~S!Bonded => plan.renderer \in {"netplan", "network-manager"}
  PROVE  S!AsMeant(S!NetworkConfig(path)) /\ S!NetworkConfig(path) # {}
  <1>1. CASE S!Bonded
    <2> DEFINE stanzas == S!NetworkConfig(path)
               moved(g) == [g EXCEPT !.path = path]
               port(p) == IF S!MacOfPort(p) # S!None THEN S!OnMac(path, "port", S!MacOfPort(p), FALSE) ELSE S!OnName(path, "port", p, FALSE)
    <2>1. stanzas = {port(plan.ports[k]) : k \in DOMAIN plan.ports} \cup {moved(g) : g \in S!BondOf("seed")}
      BY <1>1 DEF S!NetworkConfig
    <2>2. \A k \in DOMAIN plan.ports : port(plan.ports[k]) = S!OnMac(path, "port", plan.ports[k], FALSE)
      BY MeantBondPort
    <2>3. \A k \in DOMAIN plan.ports : PortFile(port(plan.ports[k]), k)
      BY <2>2, PortByMac
    <2>4. \A g \in S!BondOf("seed") : LikeBond(moved(g), g)
      BY BondIsLikeItself
    <2> HIDE DEF stanzas, moved, port
    <2>5. \A f \in stanzas : (\E k \in DOMAIN plan.ports : PortFile(f, k)) \/ \E g \in S!BondOf("seed") : LikeBond(f, g)
      BY <2>1, <2>3, <2>4
    <2>6. /\ \A k \in DOMAIN plan.ports : \E f \in stanzas : PortFile(f, k)
          /\ \A g \in S!BondOf("seed") : \E f \in stanzas : LikeBond(f, g)
      BY <2>1, <2>3, <2>4
    <2>7. S!AsMeant(stanzas)
      BY <1>1, <2>5, <2>6, BondedAsMeant
    <2>8. stanzas # {}
      BY <1>1, <2>1, PlanTyped
    <2> QED
      BY <2>7, <2>8 DEF stanzas
  <1>2. CASE ~S!Bonded
    <2> DEFINE mac == S!IfcfgMac
    <2>1. PICK i \in DOMAIN S!Nics :
            /\ S!Nics[i].mac = mac /\ S!Nics[i].mac \in S!MeantMacs
            /\ plan.selector[1] \in {"auto", "mac"}
            /\ plan.selector[1] = "auto" => S!PickPhysicalNIC = mac
            /\ plan.selector[1] = "mac" => plan.selector[2] = mac
      BY <1>2, MeantPort
    <2>2. S!NetworkConfig(path) = IF plan.vlan THEN {S!OnMac(path, "nic", mac, FALSE), S!OnMac(path, "vlan", mac, TRUE)}
                                  ELSE {S!OnMac(path, "nic", mac, TRUE)}
      <3>1. CASE plan.selector[1] = "auto"
        BY <1>2, <2>1, <3>1 DEF S!NetworkConfig
      <3>2. CASE plan.selector[1] = "mac"
        BY <1>2, <2>1, <3>2 DEF S!NetworkConfig
      <3> QED
        BY <2>1, <3>1, <3>2
    <2> HIDE DEF mac
    <2>3. mac # S!None /\ S!Any # "bond0"
      BY <2>1, OneNic DEF S!Any
    <2>4. \A kind \in {"nic", "vlan"} : S!Binds(S!OnMac(path, kind, mac, TRUE)) = {S!Nics[i]}
      <3> SUFFICES ASSUME NEW kind \in {"nic", "vlan"} PROVE S!Binds(S!OnMac(path, kind, mac, TRUE)) = {S!Nics[i]}
        OBVIOUS
      <3>1. S!OnMac(path, kind, mac, TRUE).mac = S!Nics[i].mac /\ S!OnMac(path, kind, mac, TRUE).name = S!Any
        BY <2>1, <2>3 DEF S!OnMac, S!Stanza
      <3> QED
        BY <3>1, OneNic
    <2>5. CASE plan.vlan
      <3> DEFINE f == S!OnMac(path, "vlan", mac, TRUE)
                 g == S!OnMac(path, "nic", mac, FALSE)
      <3>1. f.addressed /\ ~g.addressed /\ f.kind = "vlan" /\ f.name = S!Any
        BY <2>3 DEF S!OnMac, S!Stanza
      <3>2. S!Binds(f) = {S!Nics[i]} /\ S!NetworkConfig(path) = {g, f}
        BY <2>2, <2>4, <2>5
      <3> HIDE DEF f, g
      <3> QED
        BY <1>2, <2>1, <2>3, <2>5, <3>1, <3>2, SingleAsMeant
    <2>6. CASE ~plan.vlan
      <3> DEFINE f == S!OnMac(path, "nic", mac, TRUE)
      <3>1. f.addressed /\ f.kind = "nic" /\ f.name = S!Any
        BY <2>3 DEF S!OnMac, S!Stanza
      <3>2. S!Binds(f) = {S!Nics[i]} /\ S!NetworkConfig(path) = {f}
        BY <2>2, <2>4, <2>6
      <3> HIDE DEF f
      <3> QED
        BY <1>2, <2>1, <2>3, <2>6, <3>1, <3>2, SingleAsMeant
    <2> QED
      BY <2>5, <2>6
  <1> QED
    BY <1>1, <1>2

LEMMA OneFileAsMeant ==
  ASSUME plan \in Plans, ~S!Bonded, ~plan.vlan, NEW i \in DOMAIN S!Nics, S!Nics[i].mac \in S!MeantMacs, NEW path
  PROVE  /\ S!AsMeant({S!OnMac(path, "nic", S!Nics[i].mac, TRUE)})
         /\ S!AsMeant({S!OnName(path, "nic", S!Nics[i].renamed, TRUE)})
  <1> DEFINE f == S!OnMac(path, "nic", S!Nics[i].mac, TRUE)
             g == S!OnName(path, "nic", S!Nics[i].renamed, TRUE)
  <1>1. S!Nics[i].mac # S!None /\ S!Nics[i].renamed # "bond0" /\ S!Any # "bond0"
    BY OneNic DEF S!Any
  <1>2. f.addressed /\ f.kind = "nic" /\ f.name = S!Any /\ f.mac = S!Nics[i].mac
    BY <1>1 DEF S!OnMac, S!Stanza
  <1>3. g.addressed /\ g.kind = "nic" /\ g.name = S!Nics[i].renamed /\ g.mac = S!Any
    BY DEF S!OnName, S!Stanza
  <1>4. S!Binds(f) = {S!Nics[i]} /\ S!Binds(g) = {S!Nics[i]}
    BY <1>2, <1>3, OneNic
  <1> HIDE DEF f, g
  <1>5. S!AsMeant({f})
    BY <1>1, <1>2, <1>4, SingleAsMeant
  <1>6. S!AsMeant({g})
    BY <1>1, <1>3, <1>4, SingleAsMeant
  <1> QED
    BY <1>5, <1>6 DEF f, g

LEMMA IfcfgAsMeant ==
  ASSUME plan \in Plans, S!Supported, ~S!Bonded => ~plan.vlan
  PROVE  S!AsMeant(S!Ifcfg) /\ S!Ifcfg # {}
  <1>1. CASE S!Bonded
    <2> DEFINE port(k) == S!OnMac(<<"ifcfg", S!Eth[k]>>, "port", plan.ports[k], FALSE)
               stanzas == S!Ifcfg
    <2>1. stanzas = {port(k) : k \in DOMAIN plan.ports} \cup S!BondOf("ifcfg")
      BY <1>1, MeantBondPort DEF S!Ifcfg
    <2>2. \A k \in DOMAIN plan.ports : PortFile(port(k), k)
      BY PortByMac
    <2> HIDE DEF port, stanzas
    <2>3. S!AsMeant(stanzas)
      BY <1>1, <2>1, <2>2, BondIsLikeItself, BondedAsMeant
    <2>4. stanzas # {}
      <3>1. 1 \in DOMAIN plan.ports
        BY <1>1, PlanTyped
      <3> QED
        BY <2>1, <3>1
    <2> QED
      BY <2>3, <2>4 DEF stanzas
  <1>2. CASE ~S!Bonded
    <2>1. PICK i \in DOMAIN S!Nics : S!Nics[i].mac = S!IfcfgMac /\ S!Nics[i].mac \in S!MeantMacs
      BY <1>2, MeantPort
    <2>2. S!IfcfgMac # S!None
      BY <2>1, OneNic
    <2>3. S!Ifcfg = {S!OnMac(<<"ifcfg", S!Eth[S!EthIndex(S!IfcfgMac) + 1]>>, "nic", S!Nics[i].mac, TRUE)}
      BY <1>2, <2>1, <2>2 DEF S!Ifcfg
    <2> QED
      BY <1>2, <2>1, <2>3, OneFileAsMeant
  <1> QED
    BY <1>1, <1>2

LEMMA KeyfilesAsMeant ==
  ASSUME plan \in Plans, S!Supported, ~S!Bonded => ~plan.vlan /\ plan.renderer = "network-manager" /\ ~plan.cloudInit
  PROVE  S!AsMeant(S!Keyfiles) /\ S!Keyfiles # {}
  <1>1. CASE S!Bonded
    <2> DEFINE port(k) == S!OnMac(<<"keyfile", S!Slave[k]>>, "port", plan.ports[k], FALSE)
               stanzas == S!Keyfiles
    <2>1. stanzas = {port(k) : k \in DOMAIN plan.ports} \cup S!BondOf("keyfile")
      BY <1>1, MeantBondPort DEF S!Keyfiles
    <2>2. \A k \in DOMAIN plan.ports : PortFile(port(k), k)
      BY PortByMac
    <2> HIDE DEF port, stanzas
    <2>3. S!AsMeant(stanzas)
      BY <1>1, <2>1, <2>2, BondIsLikeItself, BondedAsMeant
    <2>4. stanzas # {}
      <3>1. 1 \in DOMAIN plan.ports
        BY <1>1, PlanTyped
      <3> QED
        BY <2>1, <3>1
    <2> QED
      BY <2>3, <2>4 DEF stanzas
  <1>2. CASE ~S!Bonded
    <2>1. \E i \in DOMAIN S!Nics : S!Nics[i].mac = S!KeyfileMac /\ S!Nics[i].mac \in S!MeantMacs
      <3>1. CASE plan.selector[1] = "auto"
        <4>1. 1 \in DOMAIN S!Nics
          <5>1. DOMAIN S!Nics # {}
            BY <1>2, <3>1 DEF S!Supported
          <5> QED
            BY <5>1, PlanData DEF S!Nics, S!Plan
        <4>2. S!KeyfileMac = S!Nics[1].mac
          BY <3>1, <4>1, PlanTyped DEF S!KeyfileMac
        <4>3. ~S!Nics[1].virtual
          BY <1>2, <3>1 DEF S!Supported
        <4> QED
          BY <1>2, <3>1, <4>1, <4>2, <4>3 DEF S!MeantMacs
      <3>2. CASE plan.selector[1] = "mac"
        <4>1. plan.selector[2] \in PortMacs /\ S!MacOfPort(plan.selector[2]) = plan.selector[2]
          BY <3>2, PlanTyped DEF S!MacOfPort, S!IsMac
        <4>2. PICK i \in DOMAIN S!Nics : S!Nics[i].mac = plan.selector[2]
          BY <3>2 DEF S!Supported, S!WithMac
        <4> QED
          BY <1>2, <3>2, <4>1, <4>2 DEF S!MeantMacs, S!KeyfileMac
      <3> QED
        BY <3>1, <3>2, PlanTyped DEF S!Supported
    <2>2. PICK i \in DOMAIN S!Nics : S!Nics[i].mac = S!KeyfileMac /\ S!Nics[i].mac \in S!MeantMacs
      BY <2>1
    <2>3. S!Keyfiles = {S!OnMac(<<"keyfile", "file">>, "nic", S!Nics[i].mac, TRUE)}
      BY <1>2, <2>2 DEF S!Keyfiles
    <2> QED
      BY <1>2, <2>2, <2>3, OneFileAsMeant
  <1> QED
    BY <1>1, <1>2

LEMMA ByNameAsMeant ==
  ASSUME plan \in Plans, S!Supported, plan.renderer \in {"eni", "wicked"}
  PROVE  /\ S!AsMeant(S!Interfaces) /\ S!Interfaces # {}
         /\ plan.renderer = "wicked" => S!AsMeant(S!Wicked) /\ S!Wicked # {}
  <1>0. \A i \in DOMAIN S!Nics : S!Nics[i].renamed = S!Nics[i].name
    BY DEF S!Supported
  <1>1. CASE S!Bonded
    <2> DEFINE path == <<"interfaces", "file">>
               dev(port) == IF S!IsMac(port) THEN S!LiveName(port, port) ELSE port
               port(k) == S!OnName(path, "port", dev(plan.ports[k]), FALSE)
               moved(g) == [g EXCEPT !.path = path]
               stanzas == S!Interfaces
    <2>1. stanzas = {port(k) : k \in DOMAIN plan.ports} \cup {moved(g) : g \in S!BondOf("interfaces")}
      BY <1>1 DEF S!Interfaces
    <2>2. ASSUME NEW k \in DOMAIN plan.ports PROVE PortFile(port(k), k)
      <3>1. PICK j \in DOMAIN S!Nics : S!Nics[j].mac = plan.ports[k] /\ dev(plan.ports[k]) = S!Nics[j].renamed
        BY <1>0, MeantBondPort
      <3> HIDE DEF dev
      <3>2. port(k).kind = "port" /\ ~port(k).addressed /\ port(k).mac = S!Any /\ port(k).name = S!Nics[j].renamed
        BY <3>1 DEF S!OnName, S!Stanza
      <3>3. S!Binds(port(k)) = {S!Nics[j]}
        BY <3>2, OneNic
      <3> QED
        BY <3>1, <3>2, <3>3 DEF PortFile
    <2>3. \A g \in S!BondOf("interfaces") : LikeBond(moved(g), g)
      BY BondIsLikeItself
    <2> HIDE DEF path, dev, port, moved, stanzas
    <2>4. \A f \in stanzas : (\E k \in DOMAIN plan.ports : PortFile(f, k)) \/ \E g \in S!BondOf("interfaces") : LikeBond(f, g)
      BY <2>1, <2>2, <2>3
    <2>5. /\ \A k \in DOMAIN plan.ports : \E f \in stanzas : PortFile(f, k)
          /\ \A g \in S!BondOf("interfaces") : \E f \in stanzas : LikeBond(f, g)
      BY <2>1, <2>2, <2>3
    <2>6. S!AsMeant(stanzas)
      BY <1>1, <2>4, <2>5, BondedAsMeant
    <2>7. stanzas # {} /\ plan.renderer # "wicked"
      <3>1. 1 \in DOMAIN plan.ports
        BY <1>1, PlanTyped
      <3> QED
        BY <1>1, <2>1, <3>1 DEF S!Supported
    <2> QED
      BY <2>6, <2>7 DEF stanzas
  <1>2. CASE ~S!Bonded
    <2>1. PICK i \in DOMAIN S!Nics : S!Nics[i].mac \in S!MeantMacs /\ S!LiveDevice = S!Nics[i].renamed
      BY <1>0, <1>2, MeantPort
    <2>2. ~plan.vlan
      BY <1>2 DEF S!Supported
    <2>3. /\ S!Interfaces = {S!OnName(<<"interfaces", "file">>, "nic", S!Nics[i].renamed, TRUE)}
          /\ S!Wicked = {S!OnName(<<"wicked", S!LiveDevice>>, "nic", S!Nics[i].renamed, TRUE)}
      BY <1>2, <2>1 DEF S!Interfaces, S!Wicked
    <2> QED
      BY <1>2, <2>1, <2>2, <2>3, OneFileAsMeant
  <1> QED
    BY <1>1, <1>2

LEMMA OwnAsMeant ==
  ASSUME plan \in Plans, S!Supported
  PROVE  /\ Own = {} \/ S!AsMeant(Own)
         /\ Own = {} => plan.cloudInit /\ ~S!Bypass
  <1>1. plan.renderer \in {"netplan", "network-manager", "sysconfig", "eni", "wicked"}
    BY PlanTyped
  <1>2. CASE plan.renderer = "netplan"
    <2>1. S!RendererStanzas = {} /\ S!DirectStanzas = S!NetworkConfig(<<"netplan", "file">>) /\ ~S!Bypass
      BY <1>2 DEF S!RendererStanzas, S!DirectStanzas, S!Bypass
    <2>2. S!AsMeant(S!NetworkConfig(<<"netplan", "file">>)) /\ S!NetworkConfig(<<"netplan", "file">>) # {}
      BY <1>2, ConfigAsMeant
    <2> QED
      BY <2>1, <2>2 DEF Own
  <1>3. CASE plan.renderer = "network-manager"
    <2>1. S!RendererStanzas = (IF S!Bypass THEN S!Keyfiles ELSE {}) /\ S!DirectStanzas = S!Keyfiles /\ (S!Bypass <=> S!Bonded)
      BY <1>3 DEF S!RendererStanzas, S!DirectStanzas, S!Bypass
    <2>2. CASE plan.cloudInit /\ ~S!Bonded
      BY <2>1, <2>2 DEF Own
    <2>3. CASE ~plan.cloudInit \/ S!Bonded
      <3>1. ~S!Bonded => ~plan.vlan
        BY <1>3, <2>3 DEF S!Supported
      <3>2. S!AsMeant(S!Keyfiles) /\ S!Keyfiles # {}
        BY <1>3, <2>3, <3>1, KeyfilesAsMeant
      <3>3. Own = S!Keyfiles
        BY <2>1, <2>3 DEF Own
      <3> QED
        BY <3>2, <3>3
    <2> QED
      BY <2>2, <2>3
  <1>4. CASE plan.renderer = "sysconfig"
    <2>1. Own = S!Ifcfg
      BY <1>4 DEF S!RendererStanzas, S!DirectStanzas, Own
    <2>2. ~S!Bonded => ~plan.vlan
      BY <1>4 DEF S!Supported
    <2> QED
      BY <2>1, <2>2, IfcfgAsMeant
  <1>5. CASE plan.renderer = "eni"
    <2>1. Own = S!Interfaces
      BY <1>5 DEF S!RendererStanzas, S!DirectStanzas, Own
    <2> QED
      BY <1>5, <2>1, ByNameAsMeant
  <1>6. CASE plan.renderer = "wicked"
    <2>1. Own = S!Wicked
      BY <1>6 DEF S!RendererStanzas, S!DirectStanzas, Own
    <2> QED
      BY <1>6, <2>1, ByNameAsMeant
  <1> QED
    BY <1>1, <1>2, <1>3, <1>4, <1>5, <1>6

LEMMA NetMeant ==
  ASSUME plan \in Plans, NetInv, step = "done", S!Supported, Unlost
  PROVE  S!NetworkAsMeant
  <1>1. S!FromSeed = S!SeedNetwork /\ S!FromFiles = Own /\ (S!NoNetwork \in written <=> S!Bypass)
    BY DEF NetInv
  <1>2. S!CloudInitApplies <=> plan.cloudInit /\ ~S!Bypass
    BY <1>1 DEF S!CloudInitApplies
  <1>3. ASSUME S!CloudInitApplies PROVE S!AsMeant(S!FromSeed)
    <2>1. S!FromSeed = S!NetworkConfig(<<"seed", "network-config">>)
      BY <1>1, <1>2, <1>3 DEF S!SeedNetwork
    <2>2. plan.vlan /\ ~S!Bonded => plan.renderer \in {"netplan", "network-manager"}
      BY DEF S!Supported
    <2> QED
      BY <2>1, <2>2, ConfigAsMeant
  <1> QED
    BY <1>1, <1>2, <1>3, OwnAsMeant DEF S!NetworkAsMeant

(* After a run that succeeded the address is on the port or bond that the  *)
(* profile means, only there and tagged as asked, for every supported plan *)
(* and all ways to name the ports, however the files of seed.go's          *)
(* renderers come to be: from cloud-init's seed, from the renderer's own   *)
(* files or from those written directly, over shipped files that the globs *)
(* of cleanStaleNetworkConfig match, and whatever other write of           *)
(* buildSeedCommon was lost.                                               *)
THEOREM NetworkIsAsMeant == Spec => []NetworkBindsAsMeant
  <1> DEFINE Inv == Progress /\ SeedInv /\ SeedStage /\ NetInv
  <1>1. Init => Inv
    <2> SUFFICES ASSUME Init PROVE Inv
      OBVIOUS
    <2>1. InstallInit /\ Progress
      BY ProgressInit DEF Init
    <2>2. SeedInv /\ SeedStage
      BY <2>1 DEF Init, InstallInit, S!Init, SeedInv, SeedStage, UpToRelabel, AfterRelabel, Installed, S!Steps
    <2>3. NetInv
      <3>1. step = "data" /\ files = S!ShippedFiles /\ written = {}
        BY DEF Init, S!Init
      <3>2. \A f \in S!ShippedFiles : f.path[1] # "seed"
        BY <2>2, ShippedElsewhere DEF SeedInv
      <3> QED
        BY <3>1, <3>2 DEF NetInv, S!FromSeed
    <2> QED
      BY <2>1, <2>2, <2>3
  <1>2. Inv /\ [Next]_runVars => Inv'
    <2> SUFFICES ASSUME Inv, [Next]_runVars PROVE Inv'
      OBVIOUS
    <2>1. (Progress /\ SeedInv /\ SeedStage)'
      BY RunIsInstall, ProgressStep, SeedStageStep
    <2>2. NetInv'
      <3>1. CASE WriteSeed
        BY <3>1, NetStep DEF WriteSeed, SeedInv
      <3>2. CASE RunAgain
        <4>1. plan' = plan /\ step' = "data" /\ files' = S!ShippedFiles /\ written' = {}
          BY <3>2 DEF RunAgain
        <4>2. S!ShippedFiles' = S!ShippedFiles /\ \A f \in S!ShippedFiles : f.path[1] # "seed"
          BY <4>1, SamePlan, ShippedElsewhere DEF SeedInv
        <4>3. S!FromSeed' = {}
          BY <4>1, <4>2 DEF S!FromSeed
        <4> QED
          BY <4>1, <4>2, <4>3 DEF NetInv
      <3>3. CASE RunStage \/ UNCHANGED runVars
        <4>1. UNCHANGED <<plan, step, files, written, lost>>
          BY <3>3 DEF RunStage, runVars, seedVars
        <4>2. /\ S!SeedNetwork' = S!SeedNetwork /\ S!RendererStanzas' = S!RendererStanzas /\ S!ShippedFiles' = S!ShippedFiles
              /\ S!Bypass' = S!Bypass /\ Own' = Own /\ (Unlost' <=> Unlost)
              /\ S!FromSeed' = S!FromSeed /\ S!FromFiles' = S!FromFiles
          BY <4>1, SamePlan DEF Unlost, S!FromSeed, S!FromFiles
        <4> QED
          BY <4>1, <4>2 DEF NetInv
      <3> QED
        BY <3>1, <3>2, <3>3 DEF Next
    <2> QED
      BY <2>1, <2>2
  <1>3. Inv => NetworkBindsAsMeant
    <2>1. S!Supported => S!AllRemoved
      BY DEF S!Supported
    <2> QED
      BY <2>1, NetMeant DEF SeedInv, SeedStage, Unlost, NetworkBindsAsMeant
  <1> QED
    BY <1>1, <1>2, <1>3, PTL DEF Spec
=============================================================================
