---------------------------- MODULE InstallerRun ----------------------------
(***************************************************************************)
(* internal/installer, the whole run: DiskInstall, whose seed stage is the *)
(* writes of NetworkSeed, made one by one into the mounted root.           *)
(***************************************************************************)
EXTENDS DiskInstall

CONSTANTS
  Plans, PortMacs, PortNames, Globbed, SeedFaults,
  Installs,                  \* which machine gets which image with which plan
  DiskFaultPlans             \* the plans with which disk commands fail; with the others writes of the seed do

VARIABLES plan, step, files, written, unlabelled, lost
seedVars == <<plan, step, files, written, unlabelled, lost>>
runVars == <<vars, seedVars>>

S == INSTANCE NetworkSeed WITH
       Macs <- PortMacs, Names <- PortNames, MaxFaults <- SeedFaults, pc <- step, failures <- lost

ASSUME PlanData == Plans \subseteq S!Plan
ASSUME PortData ==
  /\ PortMacs \cap PortNames = {} /\ {S!Any, S!None, "bond0"} \cap (PortMacs \cup PortNames) = {}
  /\ {"eth0", "eth1", "eth2"} \subseteq PortNames
  /\ SeedFaults \in Nat

Init == InstallInit /\ S!Init /\ <<host, image, plan>> \in Installs

(* buildSeedCommon at work.                                                *)
WriteSeed ==
  /\ pc = "seed"
  /\ S!Next
  /\ plan \in DiskFaultPlans => lost' = {}
  /\ UNCHANGED vars

(* Every other stage, and the end of this one: it failed if a fatal write  *)
(* of the seed did.                                                        *)
RunStage ==
  LET aborted == <<run, "write seed">> IN
  /\ pc = "seed" => step \in {"done", "failed"}
  /\ Stage
  /\ pc = "seed" => (aborted \in failures' <=> step = "failed")
  /\ plan \notin DiskFaultPlans => failures' \subseteq failures \cup {aborted}
  /\ UNCHANGED seedVars

(* The next run starts from the image's files, so it is explored only with *)
(* the plans that let the disk fail.                                       *)
RunAgain ==
  /\ NextRun
  /\ plan \in DiskFaultPlans
  /\ step' = "data" /\ files' = S!ShippedFiles
  /\ written' = {} /\ unlabelled' = {} /\ lost' = {}
  /\ UNCHANGED plan

Next == WriteSeed \/ RunStage \/ RunAgain
Spec == Init /\ [][Next]_runVars

-----------------------------------------------------------------------------
(* Disk, boot entries, mounts and the files of the seed keep their types   *)
(* over a run of the ten stages and the attempt after it.                  *)
RunTypeOK == InstallTypeOK /\ S!SeedTypeOK

(* seed.go, network.  After a run that succeeded the address is on the     *)
(* port or bond that the profile means, only there and tagged as asked,    *)
(* whichever way the installed system names its ports and whichever of the *)
(* seed and the direct files it reads.  Of the writes whose failure is     *)
(* ignored only those named in NetworkSeed may spoil it.                   *)
NetworkBindsAsMeant ==
  (outcome = "succeeded" /\ S!Supported) => S!NetworkAsMeant \/ lost \cap S!Depended # {}

(* seed.go, SELinux.  After a run that succeeded on a system that enforces *)
(* it, what a login depends on is labelled, the keys included, or a        *)
(* relabel of everything was asked for.                                    *)
LoginLabelled == outcome = "succeeded" => S!LoginLabelled
=============================================================================
