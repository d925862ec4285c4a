--------------------------- MODULE ImageProvision --------------------------
(* What the deployed system starts of itself: the scripts of the template,   *)
(* cloud-init's seed, the network, the policy of apt and the proxy; and the  *)
(* modules of vendors it loads, built below.                                 *)
(*                                                                           *)
(* site is [units, enabled, files, executable, proxy]: the units written,    *)
(* each [after, before, requires, starts, stamp, script, timeout]; those     *)
(* multi-user.target wants; the files there are; the scripts made            *)
(* executable; and the variables a login finds in its environment.  A unit's *)
(* name is <<name, 0>>, a script's <<"ict-provision", its number>>.           *)
EXTENDS Lists

NoUnit == [after |-> {}, before |-> {}, requires |-> {}, starts |-> {}, stamp |-> "", script |-> "", timeout |-> 0]
Install(site, name, unit) == [site EXCEPT !.units = Put(@, name, unit)]
EnableUnit(site, name) == [site EXCEPT !.enabled = @ \cup {name}]
WriteFiles(site, names) == [site EXCEPT !.files = @ \cup names]

-----------------------------------------------------------------------------
Trigger == <<"ict-provision-start.service", 0>>
UnitName(index) == <<"ict-provision", index>>
StampOf(script) == IF script.stage = "every-boot" THEN "" ELSE script.name
DefaultBeforeLoginTimeout == 3600

(* Mutant: as it was before the trigger: wanted, and after all of cloud-init. *)
AfterCloudFinal(script, previous, beforeLogin) ==
    [NoUnit EXCEPT !.after = {<<"network-online.target", 0>>, <<"cloud-final.service", 0>>} \cup previous,
                   !.before = IF beforeLogin THEN {<<"systemd-user-sessions.service", 0>>, <<"apt-daily.service", 0>>} ELSE {},
                   !.requires = previous, !.stamp = StampOf(script), !.script = script.final]
(* Before the login, a script waits for what of cloud-init does not wait for  *)
(* the system itself.                                                        *)
RenderProvisioningUnit(script, previous, beforeLogin) ==
    [NoUnit EXCEPT !.after = {<<"network-online.target", 0>>, IF beforeLogin THEN <<"cloud-config.service", 0>> ELSE <<"cloud-final.service", 0>>}
                                \cup previous,
                   !.before = IF beforeLogin THEN {<<"systemd-user-sessions.service", 0>>, <<"apt-daily.service", 0>>} ELSE {},
                   !.requires = previous, !.stamp = StampOf(script), !.script = script.final,
                   !.timeout = IF script.timeout = 0 /\ beforeLogin THEN DefaultBeforeLoginTimeout ELSE script.timeout]

RenderProvisioningTrigger(units) == [NoUnit EXCEPT !.starts = units]

ConfigureProvisioningScripts(site, scripts, beforeLogin) ==
    LET units == {UnitName(i) : i \in DOMAIN scripts}
        previous(i) == IF i = 1 THEN {} ELSE {UnitName(i - 1)}
        rendered == [u \in units |-> RenderProvisioningUnit(scripts[u[2]], previous(u[2]), beforeLogin)]
        with == [site EXCEPT !.units = Over(@, rendered), !.enabled = @ \cup IF beforeLogin THEN units ELSE {},
                             !.executable = @ \cup {s.final : s \in Range(scripts)}]
    IN  IF scripts = <<>> THEN <<site>>
        ELSE IF \E s \in Range(scripts) : s.final \notin site.files THEN Refused
        ELSE <<IF beforeLogin THEN with
               ELSE EnableUnit(Install(with, Trigger, RenderProvisioningTrigger(units)), Trigger)>>

-----------------------------------------------------------------------------
(* The last partition of a raw image grows at its first boot, where asked.    *)
AutoExpandUnit == <<"ict-auto-expand-last-partition.service", 0>>
AutoExpandScript == "ict-auto-expand-last-partition.sh"
AutoExpandService == [NoUnit EXCEPT !.after = {<<"local-fs.target", 0>>}, !.stamp = "last-partition-expanded", !.script = AutoExpandScript]
ConfigureFirstBootLastPartitionAutoExpand(site, extend, imageType) ==
    LET copied == [WriteFiles(site, {AutoExpandScript}) EXCEPT !.executable = @ \cup {AutoExpandScript}]
    IN  IF ~extend \/ imageType # "raw" THEN site
        ELSE EnableUnit(Install(copied, AutoExpandUnit, AutoExpandService), AutoExpandUnit)

(* The template's own commands, run in the image: here they write files.     *)
AddImageConfigs(site, commands) == WriteFiles(site, UNION Range(commands))

-----------------------------------------------------------------------------
(* The seed the template did not bring is made up; an identity only when the  *)
(* system first starts.                                                      *)
MetaDataUnit == <<"ict-meta-data.service", 0>>
RenderMetaDataUnit == [NoUnit EXCEPT !.after = {<<"local-fs.target", 0>>}, !.before = {<<"cloud-init-local.service", 0>>},
                                     !.stamp = "meta-data", !.script = "ict-meta-data"]
InstallMetaDataUnit(site) ==
    EnableUnit(Install(WriteFiles(site, {"ict-meta-data"}), MetaDataUnit, RenderMetaDataUnit), MetaDataUnit)

ConfigureCloudInit(site, enabled) ==
    LET seeded == WriteFiles(site, {"datasource", "user-data"})
    IN  IF ~enabled THEN site
        ELSE IF "meta-data" \in site.files THEN seeded ELSE InstallMetaDataUnit(seeded)

WriteAptPolicy(site, os, immutable) ==
    IF immutable /\ os \in {"ubuntu", "debian"} THEN WriteFiles(site, {"00-ict-apt-policy", "52ict-unattended-upgrades"}) ELSE site

(* The proxy of the site replaces any there is; apt's only with one to name.  *)
WriteProxyConfig(site, proxy) ==
    IF proxy = {} THEN site
    ELSE [WriteFiles(site, {"90-ict-proxy.conf"} \cup IF proxy = {"no_proxy"} THEN {} ELSE {"95ict-proxy"})
            EXCEPT !.proxy = proxy]

-----------------------------------------------------------------------------
(* network is [backend, interfaces], an interface its name.  networkd is only *)
(* enabled for a template that takes it, and where it is installed.          *)
Backends == {"systemd-networkd", "netplan"}
GenerateNetworkFiles(network) ==
    IF network.backend = "netplan" THEN {"01-installer.yaml"}
    ELSE {"10-" \o n \o ".network" : n \in Range(network.interfaces)}

WriteNetworkConfig(site, network) ==
    IF network.backend = "" THEN <<site>>
    ELSE IF network.backend \notin Backends THEN Refused
    ELSE IF "" \in Range(network.interfaces) THEN Refused
    ELSE IF network.interfaces = <<>> THEN <<site>>
    ELSE <<WriteFiles(site, GenerateNetworkFiles(network))>>

UpdateImageNetwork(site, network) ==
    LET r == WriteNetworkConfig(site, network)
    IN  IF r = Refused \/ network.backend # "systemd-networkd" \/ "systemd-networkd.service" \notin site.files THEN r
        ELSE <<EnableUnit(r[1], <<"systemd-networkd.service", 0>>)>>

-----------------------------------------------------------------------------
ApplyProvisioningConfig(site, t) ==
    LET scripts == ConfigureProvisioningScripts(ConfigureCloudInit(site, t.cloudInit), t.scripts, t.beforeLogin)
    IN  IF scripts = Refused THEN Refused ELSE <<WriteAptPolicy(scripts[1], t.os, t.immutable)>>

(* The order of the units, as systemd has it: what a target wants comes       *)
(* before it, users log in before the system is up, and the last of           *)
(* cloud-init comes after that.                                              *)
Before(site) ==
    LET units == DOMAIN site.units IN
      (UNION {(site.units[u].after \X {u}) \cup ({u} \X site.units[u].before) : u \in units})
      \cup (site.enabled \X {<<"multi-user.target", 0>>})
      \cup {<<<<"cloud-init-local.service", 0>>, <<"cloud-config.service", 0>>>>,
            <<<<"cloud-config.service", 0>>, <<"multi-user.target", 0>>>>,
            <<<<"systemd-user-sessions.service", 0>>, <<"multi-user.target", 0>>>>,
            <<<<"multi-user.target", 0>>, <<"cloud-final.service", 0>>>>}
(* In no set of units each waits for another: else systemd drops one's job.   *)
Orderable(before) ==
    \A S \in SUBSET ({e[1] : e \in before} \cap {e[2] : e \in before}) :
        S # {} => \E u \in S : \A v \in S : <<v, u>> \notin before

(* Every script the template names is started, with its file, after the one  *)
(* before it, and no unit waits for itself.                                  *)
ScriptsStart(site, t) ==
    LET started == site.enabled \cup UNION {site.units[u].starts : u \in site.enabled \cap DOMAIN site.units}
    IN  /\ Orderable(Before(site))
        /\ \A i \in DOMAIN t.scripts :
             /\ UnitName(i) \in started
             /\ site.units[UnitName(i)].script = t.scripts[i].final
             /\ t.scripts[i].final \in site.files \cap site.executable
             /\ i > 1 => <<UnitName(i - 1), UnitName(i)>> \in Before(site)
-----------------------------------------------------------------------------
(* The vendor's modules, built for the kernels of the image and signed.      *)
(*                                                                           *)
(* tree is [sources, built, installed, left, kos, tools, staged, target,      *)
(* framework]: the names the dkms.conf of each source declares (<<>> without  *)
(* one), the names built of each <<source, kernel>> there is a directory of,  *)
(* the <<source, kernel>> dkms reports installed, the <<kernel, name>> it left *)
(* to what the kernel ships, the module files <<kernel, name>> with their     *)
(* [compressed, signed], what sign-file there is for a kernel, whether the    *)
(* key lies in the image's /tmp or at the template's target, and dkms's own   *)
(* settings.  A dkms section is [enabled, modules, sign, retain].            *)

Normalized == [n \in {"mei-vsc"} |-> "mei_vsc"]
NormalizeModuleName(n) == IF n \in DOMAIN Normalized THEN Normalized[n] ELSE n
OriginalModule == "original_module"

(* What dkms makes of the sources it takes up: compiled, of all they declare; *)
(* and installed, of those anything was compiled of, all but the modules left. *)
(* Modules it compresses, it compresses all.                                 *)
DkmsBuilds(tree, kernel, o) ==
    LET names(s) == {NormalizeModuleName(n) : n \in {x \in UNION Range(tree.sources[s]) : x \in o.compiled}}
        installed == {s \in o.installed : names(s) # {}}
        found == UNION {names(s) : s \in installed}
        files == {kernel} \X (found \ o.left)
    IN  [tree EXCEPT !.built = Over(@, [p \in o.taken \X {kernel} |-> names(p[1])]),
                     !.installed = @ \cup (installed \X {kernel}),
                     !.left = @ \cup ({kernel} \X (found \cap o.left)),
                     !.kos = Over(@, [f \in files |-> [compressed |-> o.compressed, signed |-> FALSE]])]

(* The sources dkms reports installed for a kernel. *)
DkmsStatus(tree, kernel) == {p[1] : p \in {q \in tree.installed : q[2] = kernel}}

VerifyDkmsModulesInstalled(tree, kernel, expected) ==
    IF expected = {} THEN DkmsStatus(tree, kernel) # {} ELSE expected \subseteq DkmsStatus(tree, kernel)

(* Mutant: a dkms.conf is there, and something was built. *)
AnyModuleBuilt(tree, kernel) ==
    \A p \in DOMAIN tree.built : p[2] = kernel /\ p[1] # OriginalModule => tree.sources[p[1]] # <<>>

(* What is installed may lack a module that did not compile.  What stood in   *)
(* the kernel's place before is no source.                                   *)
VerifyDkmsModulesBuilt(tree, kernel) ==
    \A p \in DOMAIN tree.built : p[2] = kernel /\ p[1] # OriginalModule =>
        /\ tree.sources[p[1]] # <<>>
        /\ {NormalizeModuleName(n) : n \in tree.sources[p[1]][1]} \subseteq tree.built[p]

-----------------------------------------------------------------------------
(* sign-file, of the headers of the kernel or of its kbuild package. *)
LocateSignFile(tree, kernel) == {"headers", "kbuild"} \cap tree.tools[kernel] # {}

InstalledDkmsModules(tree, kernel) == {f \in DOMAIN tree.kos : f[1] = kernel}

(* One module: out of its compression, signed, back into it. *)
SignDkmsModule(ko) == [ko EXCEPT !.signed = TRUE]

StageKey(tree) == [tree EXCEPT !.staged = TRUE]
UnstageKey(tree) == [tree EXCEPT !.staged = FALSE]

SetFrameworkConfVar(conf, key, v) == Put(conf, key, v)
RetainSigningIdentity(tree) ==
    [tree EXCEPT !.target = TRUE,
                 !.framework = SetFrameworkConfVar(SetFrameworkConfVar(@, "mok_signing_key", "key"), "mok_certificate", "cert")]

(* <<the tree>> of each outcome of signing: all of them, or only a few when a *)
(* command fails.  The key is staged meanwhile, and no longer.               *)
SignDkmsModules(tree, kernel, dkms) ==
    LET files == InstalledDkmsModules(tree, kernel)
        upTo(done) == [StageKey(tree) EXCEPT !.kos = [f \in DOMAIN @ |-> IF f \in done THEN SignDkmsModule(@[f]) ELSE @[f]]]
        all == UnstageKey(upTo(files))
    IN  IF ~LocateSignFile(tree, kernel) \/ files = {} THEN {[ok |-> FALSE, tree |-> tree]}
        ELSE {[ok |-> TRUE, tree |-> IF dkms.retain THEN RetainSigningIdentity(all) ELSE all]}
             \cup {[ok |-> FALSE, tree |-> UnstageKey(upTo(done))] : done \in SUBSET files}

-----------------------------------------------------------------------------
(* All there are, unless some are named. *)
DkmsSources(tree, dkms) == IF dkms.modules = {} THEN DOMAIN tree.sources \ {OriginalModule} ELSE dkms.modules

(* Every outcome of dkms: what is named it takes up - else what it likes -     *)
(* but for what it has installed already.                                    *)
DkmsOutcomes(tree, kernel, dkms) ==
    LET sources == DkmsSources(tree, dkms) \ DkmsStatus(tree, kernel)
        declared == UNION {UNION Range(tree.sources[s]) : s \in sources}
    IN  UNION {[taken : {taken}, installed : SUBSET taken, compiled : SUBSET declared,
                left : SUBSET {NormalizeModuleName(n) : n \in declared}, compressed : BOOLEAN] :
                 taken \in IF dkms.modules = {} THEN SUBSET sources ELSE {sources}}

(* Every outcome for a kernel. *)
BuildDkmsModulesForKernel(tree, kernel, dkms) ==
    LET verified(t) == VerifyDkmsModulesInstalled(t, kernel, dkms.modules) /\ VerifyDkmsModulesBuilt(t, kernel)
        after(t) == IF ~verified(t) THEN {[ok |-> FALSE, tree |-> t]}
                    ELSE IF dkms.sign THEN SignDkmsModules(t, kernel, dkms) ELSE {[ok |-> TRUE, tree |-> t]}
    IN  {[ok |-> FALSE, tree |-> tree]} \cup
        IF ~(DkmsSources(tree, dkms) \subseteq DOMAIN tree.sources \ {OriginalModule}) THEN {}
        ELSE UNION {after(DkmsBuilds(tree, kernel, o)) : o \in DkmsOutcomes(tree, kernel, dkms)}

(* What an image with vendor modules promises: for every kernel that can boot *)
(* the sources named are installed, one at least when none is; and of what is *)
(* installed, the kernel finds every module declared - unless dkms left that  *)
(* to what the kernel ships - each signed where the firmware asks for it.     *)
ModulesLoad(tree, kernels, dkms) ==
    dkms.enabled => \A k \in kernels :
        /\ DkmsStatus(tree, k) # {} /\ dkms.modules \subseteq DkmsStatus(tree, k)
        /\ \A s \in DkmsStatus(tree, k) : \A n \in UNION Range(tree.sources[s]) :
             <<k, NormalizeModuleName(n)>> \in DOMAIN tree.kos \cup tree.left
        /\ dkms.sign => \A f \in DOMAIN tree.kos : f[1] = k => tree.kos[f].signed
        /\ dkms.retain /\ dkms.sign => tree.target /\ {"mok_signing_key", "mok_certificate"} \subseteq DOMAIN tree.framework
=============================================================================
