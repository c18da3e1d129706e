----------------------------- MODULE NetworkSeed -----------------------------
(***************************************************************************)
(* internal/installer/seed.go: the files buildSeedCommon leaves in the     *)
(* root file system of a machine being installed, in the order it writes   *)
(* them, and the network the installed system makes of them.  A plan is    *)
(* one install's machine, image family and profile.  Some writes are fatal *)
(* when they fail; the others are ignored or logged.                       *)
(***************************************************************************)
EXTENDS Naturals, Sequences, FiniteSets

CONSTANTS
  Plans,                     \* see Plan
  Macs, Names,               \* addresses and names of network ports
  Globbed,                   \* the names eth*, eno* and ens* match
  MaxFaults                  \* bound on the writes that fail

Any == "any"
None == "none"

(* A port as the live system lists it, and what the installed system calls *)
(* it.  virtual: the BMC's own, or a dongle.                               *)
Nic == [mac : Macs, name : Names, renamed : Names, virtual : BOOLEAN, link : BOOLEAN]
Selector == {<<"auto">>} \cup ({"mac"} \X Macs) \cup ({"name"} \X (Macs \cup Names))
MaxPorts == 3                \* bound on the ports of a machine, and of a bond
(* A machine's ports differ in address and in name.                        *)
Distinct(nics) == \A i, j \in DOMAIN nics :
  nics[i].mac = nics[j].mac \/ nics[i].name = nics[j].name \/ nics[i].renamed = nics[j].renamed => i = j
(* ports: the bond's, none without one; shipped: files of the image.       *)
Plan == {p \in
  [nics : Seq(Nic), selector : Selector, ports : Seq(Macs \cup Names), vlan : BOOLEAN, keys : BOOLEAN,
   renderer : {"netplan", "network-manager", "sysconfig", "eni", "wicked"}, rhel : BOOLEAN,
   enforcing : BOOLEAN, cloudInit : BOOLEAN, shipped : SUBSET ({"ifcfg", "keyfile"} \X Names)] :
  Distinct(p.nics) /\ Len(p.nics) <= MaxPorts /\ Len(p.ports) <= MaxPorts}

VARIABLES
  plan,
  pc,                        \* the next step
  files,                     \* the stanzas of network files
  written,                   \* the paths written so far
  unlabelled,                \* those whose SELinux label is not right yet
  failures                   \* history: the writes that failed

vars == <<plan, pc, files, written, unlabelled, failures>>

(* A stanza binds the ports with its mac and its (installed) name.  on: a  *)
(* port or the bond below; addressed: it carries the address.              *)
Stanza(path, kind, mac, name, addressed) ==
  [path |-> path, kind |-> kind, mac |-> mac, name |-> name, addressed |-> addressed]
Dirs == {"seed", "netplan", "keyfile", "ifcfg", "interfaces", "wicked", "cloud.cfg.d", "ssh keys", "ssh",
         "hostname", "shadow", "systemd", "autorelabel"}
Files == {"user-data", "meta-data", "network-config", "renderer", "no network", "datasource", "bond0", "vlan", "file", "restorecon",
          "slave 0", "slave 1", "slave 2"}

Steps == {"data", "clean", "network", "renderer", "datasource", "keys", "relabel", "direct", "vt init", "done", "failed"}

SeedTypeOK ==
  /\ plan.nics \in Seq(Nic) /\ plan.selector \in Selector /\ pc \in Steps
  /\ \A f \in files :
       /\ f.kind \in {"nic", "port", "bond", "vlan"} /\ f.addressed \in BOOLEAN
       /\ f.mac \in Macs \cup {Any, "bond0"} /\ f.name \in Macs \cup Names \cup {Any, "bond0"}
  /\ \A path \in written : path[1] \in Dirs /\ path[2] \in Files \cup Macs \cup Names
  /\ unlabelled \subseteq written
  /\ Cardinality(failures) <= MaxFaults

-----------------------------------------------------------------------------
(* Which port is meant.                                                    *)

Nics == plan.nics
IsMac(s) == s \in Macs
First(indices) == CHOOSE i \in indices : \A j \in indices : i <= j
WithMac(mac) == {i \in DOMAIN Nics : Nics[i].mac = mac}

FirstNic == IF Nics = <<>> THEN None ELSE Nics[1].mac   \* wrong on purpose: the BMC's port is one of them
(* pickPhysicalNIC: the first with a link, else the first.                 *)
PickPhysicalNIC ==
  LET physical == {i \in DOMAIN Nics : ~Nics[i].virtual}
      up == {i \in physical : Nics[i].link} IN
  IF up # {} THEN Nics[First(up)].mac ELSE IF physical # {} THEN Nics[First(physical)].mac ELSE None

(* The live system's name of a port.                                       *)
LiveName(mac, otherwise) == IF WithMac(mac) = {} THEN otherwise ELSE Nics[First(WithMac(mac))].name
MacOfName(name) ==
  LET named == {i \in DOMAIN Nics : Nics[i].name = name} IN IF named = {} THEN None ELSE Nics[First(named)].mac
(* lookupSlaveMAC.                                                         *)
MacOfPort(port) == IF IsMac(port) THEN port ELSE MacOfName(port)

(* The device ENI and wicked files name.                                   *)
LiveDevice ==
  LET auto == plan.selector[1] = "auto"
      mac == IF auto THEN PickPhysicalNIC ELSE plan.selector[2] IN
  IF ~auto /\ ~IsMac(mac) THEN mac ELSE LiveName(mac, "eth0")

(* The MAC an ifcfg file or a keyfile binds to.                            *)
IfcfgMac == IF plan.selector[1] = "auto" THEN PickPhysicalNIC
            ELSE IF IsMac(plan.selector[2]) THEN plan.selector[2] ELSE None
KeyfileMac == IF plan.selector[1] = "auto" THEN (IF Nics = <<>> THEN None ELSE Nics[1].mac)
              ELSE MacOfPort(plan.selector[2])

OnMac(path, kind, mac, addressed) ==
  Stanza(path, kind, IF mac = None THEN Any ELSE mac, Any, addressed)
OnName(path, kind, name, addressed) == Stanza(path, kind, Any, name, addressed)

-----------------------------------------------------------------------------
(* What each renderer writes.  Above a bond the address is on the tagged   *)
(* device if there is one, and the bond itself has none.                   *)

Bonded == plan.ports # <<>>
AddressOnBond == ~plan.vlan
BondOf(dir) ==
  {Stanza(<<dir, "bond0">>, "bond", Any, "bond0", AddressOnBond)}
  \cup IF plan.vlan THEN {Stanza(<<dir, "vlan">>, "vlan", Any, "bond0", TRUE)} ELSE {}

(* renderNetworkConfig: ports are matched by MAC where it is known, but a  *)
(* by-name selector is matched as a name even when it is a MAC.            *)
NetworkConfig(path) ==
  LET single(kind, addressed) ==
        IF plan.selector[1] = "name" THEN OnName(path, kind, plan.selector[2], addressed)
        ELSE IF plan.selector[1] = "mac" THEN OnMac(path, kind, plan.selector[2], addressed)
        ELSE OnMac(path, kind, PickPhysicalNIC, addressed)
      port(p) == IF MacOfPort(p) # None THEN OnMac(path, "port", MacOfPort(p), FALSE) ELSE OnName(path, "port", p, FALSE)
  IN IF Bonded THEN {port(plan.ports[i]) : i \in DOMAIN plan.ports} \cup {[f EXCEPT !.path = path] : f \in BondOf("seed")}
     ELSE IF plan.vlan THEN {single("nic", FALSE), single("vlan", TRUE)} ELSE {single("nic", TRUE)}

(* writeIfcfg, writeIfcfgBond.  A single port is never tagged.             *)
EthIndex(mac) == IF WithMac(mac) = {} THEN 0 ELSE First(WithMac(mac)) - 1
Eth == <<"eth0", "eth1", "eth2">>
Ifcfg ==
  LET single(path) == IF IfcfgMac = None THEN OnName(path, "nic", "eth0", TRUE) ELSE OnMac(path, "nic", IfcfgMac, TRUE)
      port(i) == LET path == <<"ifcfg", Eth[i]>> mac == MacOfPort(plan.ports[i]) IN
                 IF mac = None THEN OnName(path, "port", Eth[i], FALSE) ELSE OnMac(path, "port", mac, FALSE)
  IN IF Bonded THEN {port(i) : i \in DOMAIN plan.ports} \cup BondOf("ifcfg")
     ELSE {single(<<"ifcfg", Eth[EthIndex(IfcfgMac) + 1]>>)}

(* writeENIInterfaces and its bond: one file, by name.                     *)
Interfaces ==
  LET path == <<"interfaces", "file">>
      dev(port) == IF IsMac(port) THEN LiveName(port, port) ELSE port IN
  IF Bonded THEN {OnName(path, "port", dev(plan.ports[i]), FALSE) : i \in DOMAIN plan.ports}
                 \cup {[f EXCEPT !.path = path] : f \in BondOf("interfaces")}
  ELSE {OnName(path, "nic", LiveDevice, TRUE)}

(* writeWickedIfcfg and its bond: the file's name is the device; the bond  *)
(* lists its ports as the profile spells them.                             *)
Wicked ==
  IF Bonded THEN {OnName(<<"wicked", plan.ports[i]>>, "port", plan.ports[i], FALSE) : i \in DOMAIN plan.ports} \cup BondOf("wicked")
  ELSE {OnName(<<"wicked", LiveDevice>>, "nic", LiveDevice, TRUE)}

(* writeNMKeyfile and its bond.                                            *)
Slave == <<"slave 0", "slave 1", "slave 2">>
Keyfiles ==
  IF Bonded THEN {OnMac(<<"keyfile", Slave[i]>>, "port", MacOfPort(plan.ports[i]), FALSE) : i \in DOMAIN plan.ports} \cup BondOf("keyfile")
  ELSE {OnMac(<<"keyfile", "file">>, "nic", KeyfileMac, TRUE)}

-----------------------------------------------------------------------------
(* Steps.                                                                  *)

ShippedFiles == {OnName(f, "nic", f[2], TRUE) : f \in plan.shipped}

Init ==
  /\ plan \in Plans /\ pc = "data"
  /\ files = ShippedFiles
  /\ written = {} /\ unlabelled = {} /\ failures = {}

Failing(paths) ==
  {{}} \cup IF Cardinality(failures) < MaxFaults THEN {{p} : p \in paths} ELSE {}
PathsOf(stanzas) == {f.path : f \in stanzas}

(* The stanzas and plain paths of one step; those that fail are not there. *)
Put(stanzas, paths, bad) ==
  LET done == (PathsOf(stanzas) \cup paths) \ bad IN
  /\ files' = {f \in files : f.path \notin done} \cup {f \in stanzas : f.path \in done}
  /\ written' = written \cup done
  /\ unlabelled' = unlabelled \cup done
  /\ failures' = failures \cup bad

LabelBeforeKeys(step) ==   \* wrong on purpose: the keys are written after the files are labelled
  CASE step = "datasource" -> "relabel" [] step = "relabel" -> "keys" [] step = "keys" -> "direct"
    [] step = "data" -> "clean" [] step = "clean" -> "network" [] step = "network" -> "renderer"
    [] step = "renderer" -> "datasource" [] step = "direct" -> "vt init" [] step = "vt init" -> "done"
After(step) ==
  CASE step = "data" -> "clean" [] step = "clean" -> "network" [] step = "network" -> "renderer"
    [] step = "renderer" -> "datasource" [] step = "datasource" -> "keys" [] step = "keys" -> "relabel"
    [] step = "relabel" -> "direct" [] step = "direct" -> "vt init" [] step = "vt init" -> "done"

Fatal(bad) == pc' = IF bad = {} THEN After(pc) ELSE "failed"
Ignored == pc' = After(pc)

SeedData == {<<"seed", "user-data">>, <<"seed", "meta-data">>}
WriteData(bad) == pc = "data" /\ Put({}, SeedData, bad) /\ Fatal(bad) /\ UNCHANGED plan

(* cleanStaleNetworkConfig: three globs of ifcfg files, and every keyfile. *)
Matched(path) == path[1] = "keyfile" \/ (path[1] = "ifcfg" /\ path[2] \in Globbed)
Stale == {f \in files : Matched(f.path)}
CleanStaleNetworkConfig(bad) ==
  /\ pc = "clean"
  /\ files' = {f \in files : f \notin Stale \/ f.path \in bad}
  /\ failures' = failures \cup bad
  /\ Ignored
  /\ UNCHANGED <<plan, written, unlabelled>>

Bypass == plan.renderer = "network-manager" /\ Bonded
SeedNetwork == IF Bypass THEN {} ELSE NetworkConfig(<<"seed", "network-config">>)
WriteNetworkConfig(bad) == pc = "network" /\ Put(SeedNetwork, {}, bad) /\ Fatal(bad) /\ UNCHANGED plan

(* The renderer's own files, all best-effort.                              *)
NoNetwork == <<"cloud.cfg.d", "no network">>
Pin == <<"cloud.cfg.d", "renderer">>
RendererStanzas ==
  CASE plan.renderer = "netplan" -> {}
    [] plan.renderer = "network-manager" -> IF Bypass THEN Keyfiles ELSE {}
    [] plan.renderer = "sysconfig" -> Ifcfg
    [] plan.renderer = "eni" -> Interfaces
    [] plan.renderer = "wicked" -> Wicked
RendererPaths == IF Bypass THEN {NoNetwork} ELSE IF plan.renderer \in {"network-manager", "eni", "wicked"} THEN {Pin} ELSE {}
WriteRenderer(bad) == pc = "renderer" /\ Put(RendererStanzas, RendererPaths, bad) /\ Ignored /\ UNCHANGED plan

Datasource == <<"cloud.cfg.d", "datasource">>
WriteDatasource(bad) == pc = "datasource" /\ Put({}, {Datasource}, bad) /\ Fatal(bad) /\ UNCHANGED plan

Keys == <<"ssh keys", "file">>
WriteAuthorizedKeys(bad) ==
  pc = "keys" /\ Put({}, IF plan.keys THEN {Keys} ELSE {}, bad) /\ Fatal(bad) /\ UNCHANGED plan

(* restorecon of a list of directories, else a relabel at the first boot.  *)
Relabelled == {"cloud.cfg.d", "keyfile", "ifcfg", "interfaces", "ssh", "hostname", "shadow", "wicked", "ssh keys", "seed"}
Restorecon == <<"restorecon", "file">>
Autorelabel == <<"autorelabel", "file">>
Relabel(bad) ==
  /\ pc = "relabel"
  /\ IF ~(plan.rhel /\ plan.enforcing) THEN UNCHANGED <<written, unlabelled>>
     ELSE IF Restorecon \notin bad
       THEN unlabelled' = {p \in unlabelled : p[1] \notin Relabelled} /\ UNCHANGED written
       ELSE written' = written \cup ({Autorelabel} \ bad) /\ UNCHANGED unlabelled
  /\ failures' = failures \cup bad
  /\ Ignored
  /\ UNCHANGED <<plan, files>>

(* Without cloud-init everything is written directly, best-effort.         *)
DirectStanzas ==
  CASE plan.renderer = "network-manager" -> Keyfiles
    [] plan.renderer = "sysconfig" -> Ifcfg
    [] plan.renderer = "wicked" -> Wicked
    [] plan.renderer = "eni" -> Interfaces
    [] plan.renderer = "netplan" -> NetworkConfig(<<"netplan", "file">>)
DirectPaths == {<<"hostname", "file">>, <<"shadow", "file">>, <<"ssh", "file">>}
  \cup IF plan.renderer \in {"eni", "wicked"} THEN {Pin} ELSE {}
WriteDirect(bad) ==
  /\ pc = "direct"
  /\ IF plan.cloudInit THEN bad = {} /\ Put({}, {}, {}) ELSE Put(DirectStanzas, DirectPaths, bad)
  /\ Ignored
  /\ UNCHANGED plan

WriteVTInitService(bad) ==
  pc = "vt init" /\ Put({}, {<<"systemd", "file">>}, bad) /\ Ignored /\ UNCHANGED plan

Next ==
  \/ \E bad \in Failing(SeedData) : WriteData(bad)
  \/ \E bad \in Failing(PathsOf(Stale)) : CleanStaleNetworkConfig(bad)
  \/ \E bad \in Failing(PathsOf(SeedNetwork)) : WriteNetworkConfig(bad)
  \/ \E bad \in Failing(PathsOf(RendererStanzas) \cup RendererPaths) : WriteRenderer(bad)
  \/ \E bad \in Failing({Datasource}) : WriteDatasource(bad)
  \/ \E bad \in Failing({Keys}) : WriteAuthorizedKeys(bad)
  \/ \E bad \in Failing({Restorecon}) \cup (IF Cardinality(failures) + 1 < MaxFaults THEN {{Restorecon, Autorelabel}} ELSE {}) : Relabel(bad)
  \/ \E bad \in Failing(PathsOf(DirectStanzas) \cup DirectPaths) : WriteDirect(bad)
  \/ \E bad \in Failing({<<"systemd", "file">>}) : WriteVTInitService(bad)

Spec == Init /\ [][Next]_vars

-----------------------------------------------------------------------------
(* The network of the installed system.                                    *)

Binds(f) == {n \in {Nics[i] : i \in DOMAIN Nics} : (f.mac = Any \/ f.mac = n.mac) /\ (f.name = Any \/ f.name = n.renamed)}
(* Where a stanza with the address puts it, and whether tagged.            *)
Places(f) == IF f.name = "bond0" THEN {<<"bond0", f.kind = "vlan">>} ELSE {<<n.mac, f.kind = "vlan">> : n \in Binds(f)}
AddressPlaces(stanzas) == UNION {Places(f) : f \in {g \in stanzas : g.addressed}}
PortsBound(stanzas) == {Binds(f) : f \in {g \in stanzas : g.kind = "port"}}

(* The places the profile means.                                           *)
MeantMacs ==
  LET s == plan.selector IN
  IF Bonded THEN {"bond0"}
  ELSE IF s[1] = "auto" THEN {Nics[i].mac : i \in {j \in DOMAIN Nics : ~Nics[j].virtual}}
  ELSE {MacOfPort(s[2])}
AsMeant(stanzas) ==
  /\ \E mac \in MeantMacs : AddressPlaces(stanzas) = {<<mac, plan.vlan>>}
  /\ Bonded => PortsBound(stanzas) = {{Nics[i]} : i \in {j \in DOMAIN Nics : \E k \in DOMAIN plan.ports : Nics[j].mac = MacOfPort(plan.ports[k])}}

(* What cloud-init applies, unless told not to; without a network-config   *)
(* it asks for an address on a port of its choice.                         *)
FromSeed == {f \in files : f.path[1] = "seed"}
CloudInitApplies == plan.cloudInit /\ NoNetwork \notin written
Read == CASE plan.renderer = "netplan" -> {"netplan"} [] plan.renderer = "eni" -> {"interfaces"}
          [] plan.renderer = "wicked" -> {"wicked"} [] OTHER -> {"keyfile", "ifcfg"}
FromFiles == {f \in files : f.path[1] \in Read}
NetworkAsMeant ==
  /\ CloudInitApplies => AsMeant(FromSeed)
  /\ FromFiles # {} => AsMeant(FromFiles)
  /\ CloudInitApplies \/ FromFiles # {}

-----------------------------------------------------------------------------
(* Properties.                                                             *)

(* The image ships no file that the system reads and the globs miss.       *)
AllRemoved == plan.renderer \in {"network-manager", "sysconfig"} => \A path \in plan.shipped : Matched(path)

(* The profiles each renderer gets right: ports are named by MAC, and the  *)
(* machine has them.  ENI binds by the live system's names; a wicked bond  *)
(* does not resolve its ports; a tagged port without a bond needs netplan  *)
(* or cloud-init; a keyfile takes the first port for an automatic          *)
(* selector, the BMC's too; an image's ifcfg-enp3s0 keeps its address.     *)
Supported ==
  /\ plan.selector[1] = "mac" => WithMac(plan.selector[2]) # {}
  /\ plan.selector[1] # "name" /\ \A i \in DOMAIN plan.ports : IsMac(plan.ports[i]) /\ WithMac(plan.ports[i]) # {}
  /\ plan.selector[1] = "auto" /\ ~Bonded => \E i \in DOMAIN Nics : ~Nics[i].virtual
  /\ plan.renderer \in {"eni", "wicked"} => \A i \in DOMAIN Nics : Nics[i].renamed = Nics[i].name
  /\ plan.renderer = "wicked" => ~Bonded
  /\ AllRemoved
  /\ plan.vlan /\ ~Bonded => plan.renderer = "netplan" \/ (plan.renderer = "network-manager" /\ plan.cloudInit)
  /\ plan.renderer = "network-manager" /\ ~plan.cloudInit /\ ~Bonded /\ plan.selector[1] = "auto" => ~Nics[1].virtual

(* The ignored writes that a plan depends on.                              *)
Depended ==
  PathsOf(RendererStanzas) \cup {NoNetwork}
  \cup (IF plan.cloudInit THEN {} ELSE PathsOf(DirectStanzas))
  \cup (IF plan.renderer \in {"network-manager", "sysconfig"} THEN plan.shipped ELSE {})

(* The address is on the port or bond that the profile means, only there   *)
(* and tagged as asked, whichever way the installed system names its       *)
(* ports and whichever of the seed and the direct files it reads; no other *)
(* ignored failure matters.                                                *)
NetworkBindsAsMeant ==
  (pc = "done" /\ Supported) => NetworkAsMeant \/ failures \cap Depended # {}

(* Where SELinux is enforced, what the login depends on is labelled, the   *)
(* keys included, or a relabel of everything is asked for.                 *)
LoginLabelled ==
  (pc = "done" /\ plan.rhel /\ plan.enforcing /\ plan.cloudInit) =>
    /\ plan.keys => Keys \in written
    /\ \/ \A path \in unlabelled : path[1] = "systemd"
       \/ Autorelabel \in written \cup failures
=============================================================================
