--------------------------- MODULE TemplateMerge ---------------------------
(* What one layer of an image template makes of the layers below it:         *)
(* internal/config/merge.go, and the merging half of provisioning.go.        *)
(*                                                                           *)
(* A template is a record.  A scalar that the YAML leaves out is "", a list  *)
(* or a set is empty, an optional section is <<>> and else holds one value.  *)
(* Users are a function of their names and additional files one of their     *)
(* in-image paths, for the code merges both by that key and in no order;     *)
(* lists that are only ever searched (packages, groups, keys) are sets.      *)
EXTENDS Lists

Or(own, inherited) == IF own = "" THEN inherited ELSE own
OrList(own, inherited) == IF own = <<>> THEN inherited ELSE own

NoUser == [password |-> "", algo |-> "", maxAge |-> 0, home |-> "", shell |-> "", startup |-> "",
           groups |-> {}, keys |-> {}, keyFiles |-> {}, sudo |-> FALSE]
NoKernel == [version |-> "", cmdline |-> {}, packages |-> {}, modules |-> "", uki |-> FALSE]
NoBootloader == [type |-> "", provider |-> "", policy |-> ""]
NoNetwork == [backend |-> "", interfaces |-> {}]
NoFDE == [enabled |-> FALSE, file |-> "", partitions |-> {}, unlock |-> ""]
NoImmutability == [provided |-> FALSE, enabled |-> FALSE, key |-> ""]
NoSigning == [provided |-> FALSE, enabled |-> FALSE, key |-> "", target |-> "", retain |-> FALSE]
NoDkms == [provided |-> FALSE, enabled |-> FALSE, modules |-> {}, signing |-> NoSigning]
NoProxy == [provided |-> FALSE, http |-> "", noProxy |-> ""]
NoCloudInit == [enabled |-> <<>>, userData |-> "", metaData |-> "", configFiles |-> {}]

NoSystem ==
    [name |-> "", host |-> "", initramfs |-> "", users |-> <<>>, packages |-> {}, files |-> <<>>,
     configurations |-> <<>>, kernel |-> NoKernel, bootloader |-> NoBootloader,
     network |-> NoNetwork, fde |-> NoFDE, immutability |-> NoImmutability, dkms |-> NoDkms,
     proxy |-> NoProxy, scripts |-> <<>>, beforeLogin |-> <<>>, cloudInit |-> NoCloudInit,
     aptPolicy |-> <<>>, oep |-> <<>>]

NoDisk == [path |-> "", strategy |-> "", size |-> 0, maxSize |-> 0, partitions |-> {}]

NoTemplate ==
    [extends |-> <<>>, name |-> "", target |-> "", metadata |-> "", baseline |-> <<>>,
     overlayPolicy |-> <<>>, disk |-> NoDisk, system |-> NoSystem, repos |-> <<>>]

-----------------------------------------------------------------------------
IsEmptyBootloader(b) == b = NoBootloader
IsEmptyNetwork(n) == n = NoNetwork
IsEmptyKernel(k) == k = NoKernel
IsEmptyProxy(p) == p.http = "" /\ p.noProxy = ""
IsEmptyCloudInit(c) == c = NoCloudInit

DeclaresFDE(f) == f.enabled \/ f.file # "" \/ f.partitions # {} \/ f.unlock # ""

HasProvisioningSections(s) ==
    \/ s.proxy.provided \/ ~IsEmptyProxy(s.proxy)
    \/ s.scripts # <<>> \/ s.beforeLogin # <<>>
    \/ ~IsEmptyCloudInit(s.cloudInit)
    \/ s.aptPolicy # <<>> \/ s.oep # <<>>

(* The network and the disk encryption of a layer do not count. *)
IsEmptySystem(s) ==
    /\ s.name = "" /\ s.host = "" /\ s.initramfs = ""
    /\ ~s.immutability.provided /\ ~s.dkms.provided
    /\ IsEmptyBootloader(s.bootloader) /\ IsEmptyKernel(s.kernel)
    /\ s.users = <<>> /\ s.packages = {} /\ s.files = <<>> /\ s.configurations = <<>>
    /\ ~HasProvisioningSections(s)

MergeImmutability(d, u) ==
    IF ~u.provided THEN d
    ELSE [d EXCEPT !.enabled = u.enabled, !.key = Or(u.key, @)]

MergeSigning(d, u) ==
    IF ~u.provided THEN d
    ELSE [d EXCEPT !.enabled = u.enabled, !.key = Or(u.key, @),
                   !.target = Or(u.target, @), !.retain = u.retain]

MergeDkms(d, u) ==
    IF ~u.provided THEN d
    ELSE [d EXCEPT !.enabled = u.enabled,
                   !.modules = IF u.modules = {} THEN @ ELSE u.modules,
                   !.signing = MergeSigning(@, u.signing)]

MergeNetwork(d, u) ==
    [backend |-> Or(u.backend, d.backend),
     interfaces |-> IF u.interfaces = {} THEN d.interfaces ELSE u.interfaces]

MergeBootloader(d, u) ==
    [type |-> Or(u.type, d.type), provider |-> Or(u.provider, d.provider),
     policy |-> Or(u.policy, d.policy)]

(* A unified kernel image is never a layer's to ask for. *)
MergeKernel(d, u) ==
    [d EXCEPT !.version = Or(u.version, @),
              !.cmdline = IF u.cmdline = {} THEN @ ELSE u.cmdline,
              !.packages = IF u.packages = {} THEN @ ELSE u.packages,
              !.modules = Or(u.modules, @)]

(* What is a crypt(3) hash already. *)
IsCryptHash(p) == p \in {"$6$a", "$6$b"}

(* Mutant: every layer that names a user says whether they may use sudo. *)
MergeUserAlwaysSudo(d, u) ==
    [d EXCEPT
        !.password = Or(u.password, @),
        !.algo = IF u.password # "" /\ IsCryptHash(u.password) THEN "" ELSE Or(u.algo, @),
        !.maxAge = IF u.maxAge = 0 THEN @ ELSE u.maxAge,
        !.home = Or(u.home, @), !.shell = Or(u.shell, @), !.startup = Or(u.startup, @),
        !.groups = @ \cup u.groups, !.keys = @ \cup u.keys, !.keyFiles = @ \cup u.keyFiles,
        !.sudo = u.sudo]

(* Only a layer that says more of a user than how they log in says whether   *)
(* they may use sudo.                                                        *)
MergeUser(d, u) ==
    [d EXCEPT
        !.password = Or(u.password, @),
        !.algo = IF u.password # "" /\ IsCryptHash(u.password) THEN "" ELSE Or(u.algo, @),
        !.maxAge = IF u.maxAge = 0 THEN @ ELSE u.maxAge,
        !.home = Or(u.home, @), !.shell = Or(u.shell, @), !.startup = Or(u.startup, @),
        !.groups = @ \cup u.groups, !.keys = @ \cup u.keys, !.keyFiles = @ \cup u.keyFiles,
        !.sudo = IF u.home # "" \/ u.shell # "" \/ u.startup # "" \/ u.groups # {} THEN u.sudo ELSE @]

MergeUsers(d, u) ==
    [n \in DOMAIN d \cup DOMAIN u |->
        IF n \notin DOMAIN u THEN d[n]
        ELSE IF n \notin DOMAIN d THEN u[n]
        ELSE MergeUser(d[n], u[n])]

MergeFiles(d, u) == Over(d, u)

(* A script takes the place of the inherited one of its name. *)
MergeScripts(inherited, own) ==
    LET place(list, s) ==
            LET same == {i \in DOMAIN list : list[i].name = s.name}
            IN  IF same = {} THEN Append(list, s) ELSE [list EXCEPT ![Min(same)] = s]
    IN  Fold(place, inherited, own)

MergeProvisioningSections(merged, u) ==
    [merged EXCEPT
        !.proxy = IF u.proxy.provided \/ ~IsEmptyProxy(u.proxy) THEN u.proxy ELSE @,
        !.scripts = MergeScripts(@, u.scripts),
        !.beforeLogin = OrList(u.beforeLogin, @),
        !.cloudInit = IF IsEmptyCloudInit(u.cloudInit) THEN @ ELSE u.cloudInit,
        !.aptPolicy = OrList(u.aptPolicy, @),
        !.oep = OrList(u.oep, @)]

MergeSystem(d, u) ==
    MergeProvisioningSections(
        [d EXCEPT
            !.name = Or(u.name, @), !.host = Or(u.host, @), !.initramfs = Or(u.initramfs, @),
            !.immutability = MergeImmutability(@, u.immutability),
            !.fde = IF DeclaresFDE(u.fde) THEN u.fde ELSE @,
            !.users = MergeUsers(@, u.users),
            !.files = MergeFiles(@, u.files),
            !.configurations = @ \o u.configurations,
            !.bootloader = MergeBootloader(@, u.bootloader),
            !.network = MergeNetwork(@, u.network),
            !.packages = @ \cup u.packages,
            !.kernel = MergeKernel(@, u.kernel),
            !.dkms = MergeDkms(@, u.dkms)], u)

(* A repository: its suite, its place (the host and the path of a URL, or a   *)
(* directory), its signing key, its priority (0: none given) and, when it is  *)
(* the OEP Installer's, the apt files it brings.                              *)
NoRepository == [codename |-> "", url |-> <<>>, path |-> "", key |-> "", priority |-> 0, own |-> <<>>]

SameRepository(a, b) == a.codename = b.codename /\ a.url = b.url /\ a.path = b.path

MergeRepositories(d, u) ==
    LET place(list, r) ==
            LET same == {i \in DOMAIN list : SameRepository(list[i], r)}
            IN  IF same = {} THEN Append(list, r) ELSE [list EXCEPT ![Min(same)] = r]
    IN  IF d = <<>> THEN u ELSE Fold(place, d, u)

-----------------------------------------------------------------------------
HasHashPartition(disk) == disk.partitions \cap {"roothashmap", "hash"} # {}

(* Immutability without a partition for the hashes is switched off. *)
FixImmutability(t) ==
    IF t.system.immutability.enabled /\ ~HasHashPartition(t.disk)
    THEN [t EXCEPT !.system.immutability.enabled = FALSE] ELSE t

MergeConfigurations(u, d) ==
    FixImmutability(
        [d EXCEPT
            !.extends = <<>>, !.metadata = u.metadata, !.target = u.target,
            !.name = Or(u.name, @),
            !.baseline = OrList(u.baseline, @),
            !.overlayPolicy = OrList(u.overlayPolicy, @),
            !.disk = IF u.disk = NoDisk THEN @ ELSE u.disk,
            !.system = IF IsEmptySystem(u.system) THEN @ ELSE MergeSystem(@, u.system),
            !.repos = MergeRepositories(@, u.repos)])

FoldChain(base, layers) == Fold(LAMBDA below, layer : MergeConfigurations(layer, below), base, layers)
=============================================================================
