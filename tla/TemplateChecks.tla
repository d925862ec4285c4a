--------------------------- MODULE TemplateChecks ---------------------------
(* What the tool refuses in a template, and what it lowers of it into the    *)
(* list of additional files: internal/config/{config,provisioning,           *)
(* oepinstaller}.go.                                                         *)
(*                                                                           *)
(* A check that can fail returns <<>> for a refusal and <<t>> for the        *)
(* template it leaves.  An in-image path is the sequence of its components,  *)
(* a file of the host the sequence of the name it goes by; host gives the    *)
(* lines of the host files that exist.  A pattern's finer points are not     *)
(* told apart: Malformed stands for every value the patterns refuse.         *)
EXTENDS TemplateMerge

Malformed == "not a valid value"

Overlaps(a, b) == IsPrefix(a, b) \/ IsPrefix(b, a)

Accept(t) == <<t>>
Check(t, ok) == IF ok THEN Accept(t) ELSE Refused
(* Go on with op unless it is refused already. *)
Then(r, op(_)) == IF r = Refused THEN Refused ELSE With(r[1], op)

-----------------------------------------------------------------------------
(* Where the tool writes. *)
EtcSystemd == <<"etc", "systemd", "system">>
Wants == EtcSystemd \o <<"multi-user.target.wants">>
SystemdProxy == <<"etc", "systemd", "system.conf.d", "90-ict-proxy.conf">>
AptProxy == <<"etc", "apt", "apt.conf.d", "95ict-proxy">>
AptPolicyFiles == {<<"etc", "apt", "preferences.d", "00-ict-apt-policy">>,
                   <<"etc", "apt", "apt.conf.d", "52ict-unattended-upgrades">>}
Datasource == <<"etc", "cloud", "cloud.cfg.d", "90_ict_datasource.cfg">>
SeedDir == <<"var", "lib", "cloud", "seed", "nocloud">>
MetaDataFiles == {<<"usr", "libexec", "ict-cloud-init-meta-data">>,
                  EtcSystemd \o <<"ict-cloud-init-meta-data.service">>,
                  Wants \o <<"ict-cloud-init-meta-data.service">>}
KeyOnlySudoers == <<"etc", "sudoers.d", "90-ict-key-only-admins">>
StampDir == <<"var", "lib", "image-composer-tool", "provisioned">>
(* The unit of a script, ict-provision-<name>.service, is a path below these. *)
UnitPrefixes == {EtcSystemd \o <<"ict-provision-">>, Wants \o <<"ict-provision-">>}

IsReservedProvisioningPath(final) ==
    \/ \E p \in {<<"etc", "environment">>, AptProxy, SystemdProxy, Datasource, KeyOnlySudoers,
                 StampDir, SeedDir} \cup AptPolicyFiles \cup MetaDataFiles : Overlaps(final, p)
    \/ \E p \in UnitPrefixes : IsPrefix(p, final)

HasSudoAccess(u) == u.sudo \/ u.groups \cap {"sudo", "wheel"} # {}
HasAptPolicyTarget(t) == t.target \in {"ubuntu", "debian"}

GeneratedProvisioningPaths(t) ==
    LET s == t.system
        given(b, paths) == IF b THEN paths ELSE {}
    IN  given(~IsEmptyProxy(s.proxy), {SystemdProxy})
        \cup given(s.proxy.http # "", {AptProxy})
        \cup given(s.immutability.enabled /\ HasAptPolicyTarget(t), AptPolicyFiles)
        \cup given(s.cloudInit.enabled = <<TRUE>>, {Datasource})
        \cup given(s.cloudInit.enabled = <<TRUE>> /\ s.cloudInit.metaData = "", MetaDataFiles)
        \cup given(\E u \in Range(s.users) : HasSudoAccess(u) /\ u.password = "" /\ u.keys # {},
                   {KeyOnlySudoers})
        \cup given(s.scripts # <<>>, {StampDir} \cup UnitPrefixes)

(* A file may be installed at its path, or below it under its own name. *)
InstallsTo(t, f) == {f, Append(f, Last(t.system.files[f]))}
NotGenerated(t, f) ==
    \A dest \in InstallsTo(t, f), p \in GeneratedProvisioningPaths(t) : ~IsPrefix(p, dest)
ValidateAdditionalFilesNotGenerated(t) == \A f \in DOMAIN t.system.files : NotGenerated(t, f)

-----------------------------------------------------------------------------
(* Checks of one layer, made of the merged template too. *)
ValidateProxy(p) == Malformed \notin {p.http, p.noProxy}

ValidateScripts(scripts) ==
    /\ \A i, j \in DOMAIN scripts : i < j =>
          /\ scripts[i].name # scripts[j].name
          /\ ~Overlaps(scripts[i].final, scripts[j].final)
    /\ \A s \in Range(scripts) :
          /\ s.local # <<>> /\ Malformed \notin {s.name, s.stage}
          /\ ~IsReservedProvisioningPath(s.final)
          /\ ~(s.rebootAfter /\ s.stage = "every-boot")

ValidateSSHKeys(users) == \A u \in Range(users) : Malformed \notin u.keys

ValidateProvisioning(t) ==
    /\ ValidateProxy(t.system.proxy)
    /\ ValidateScripts(t.system.scripts)
    /\ ValidateSSHKeys(t.system.users)
    /\ Malformed \notin {t.system.host, t.disk.path, t.system.bootloader.policy}

ValidateUsers(t) ==
    \A n \in DOMAIN t.system.users : LET u == t.system.users[n] IN
        /\ Malformed \notin {n, u.home, u.shell, u.startup} \cup u.groups
        /\ u.maxAge >= 0

ValidateRepositories(t) == \A r \in Range(t.repos) : (r.url = <<>>) # (r.path = "")

ValidateDiskMaxSize(disk) == disk.maxSize # 0 => disk.size # 0 /\ disk.maxSize > disk.size

ValidateOverlayPolicy(p) ==
    /\ p.operation \in {"", "additive_only", "additive_and_upgrade"}
    /\ p.removal \/ p.kernel # "" => p.operation = "additive_and_upgrade"
    /\ Malformed \notin {p.kernel, p.conflict}

(* What an overlay does not touch. *)
UnsupportedInOverlay(s) ==
    \/ s.host # "" \/ s.initramfs # ""
    \/ ~IsEmptyNetwork(s.network) \/ ~IsEmptyKernel(s.kernel) \/ ~IsEmptyBootloader(s.bootloader)
    \/ s.immutability # NoImmutability \/ DeclaresFDE(s.fde)
    \/ s.dkms.provided \/ s.dkms.enabled \/ s.dkms.modules # {} \/ s.dkms.signing.enabled
    \/ ~IsEmptyProxy(s.proxy) \/ s.scripts # <<>> \/ s.beforeLogin # <<>>
    \/ ~IsEmptyCloudInit(s.cloudInit) \/ s.aptPolicy # <<>> \/ s.oep # <<>>

IsOverlayMode(t) == t.baseline # <<>> /\ t.baseline[1].mode = "overlay"

(* A layer that extends another may yet find out that it is an overlay. *)
ValidateBaseline(t) ==
    IF ~IsOverlayMode(t)
    THEN /\ t.baseline # <<>> => t.baseline[1].mode \in {"", "create"} /\ t.baseline[1].source = ""
         /\ t.overlayPolicy = <<>>
         /\ t.disk.maxSize # 0 => t.extends # <<>>
    ELSE /\ t.baseline[1].source \notin {"", Malformed}
         /\ ValidateDiskMaxSize(t.disk)
         /\ t.overlayPolicy # <<>> => ValidateOverlayPolicy(t.overlayPolicy[1])
         /\ ~UnsupportedInOverlay(t.system)

(* The passphrase is read while the layer is loaded. *)
FDEPassphraseFound(t, host) ==
    t.system.fde.enabled /\ t.system.fde.file # "" =>
        LET f == <<t.system.fde.file>> IN f \in DOMAIN host /\ host[f] # {}

ValidateLayer(t, host) ==
    /\ ValidateRepositories(t) /\ ValidateBaseline(t) /\ ValidateUsers(t) /\ ValidateProvisioning(t)
    /\ FDEPassphraseFound(t, host)

-----------------------------------------------------------------------------
(* Checks of the merged template. *)
Origin(repo) == IF repo.url = <<>> THEN "" ELSE repo.url[1]

RepoUpgradeAllowed(t, r) ==
    t.system.aptPolicy \in {<<>>, <<{}>>} \/ r.codename \in t.system.aptPolicy[1]
RepoMayUpgrade(t, r) == ~t.system.immutability.enabled /\ RepoUpgradeAllowed(t, r)

(* Mutant: only repositories of one URL have to agree. *)
CheckAptPolicyURLs(t) ==
    \A a, b \in Range(t.repos) :
        a.url = b.url /\ a.url # <<>> => RepoUpgradeAllowed(t, a) = RepoUpgradeAllowed(t, b)

(* APT pins hosts, not repositories. *)
CheckAptPolicyOrigins(t) ==
    \A a, b \in Range(t.repos) :
        Origin(a) = Origin(b) /\ Origin(a) # "" => RepoUpgradeAllowed(t, a) = RepoUpgradeAllowed(t, b)

ByOrder(scripts) == StableSort(scripts, LAMBDA a, b : a.order < b.order)
RebootAfterIsLast(scripts) ==
    With(ByOrder(scripts), LAMBDA s : \A i \in DOMAIN s : s[i].rebootAfter => i = Len(s))

ValidateOEPInstaller(t) ==
    t.system.oep = <<>> \/
        LET o == t.system.oep[1] IN
        /\ t.target = "ubuntu"
        /\ Malformed \notin {o.url, o.sbom}
        /\ o.modules # <<>> /\ IsInjective(o.modules)
        /\ o.user \in DOMAIN t.system.users \ {"root"}

ValidateMergedProvisioning(t) ==
    /\ t.system.aptPolicy # <<>> =>
          t.system.aptPolicy[1] \subseteq {r.codename : r \in Range(t.repos)}
    /\ CheckAptPolicyOrigins(t)
    /\ t.system.aptPolicy # <<>> => HasAptPolicyTarget(t)
    /\ RebootAfterIsLast(t.system.scripts)
    /\ ValidateOEPInstaller(t)

-----------------------------------------------------------------------------
(* Lowering: host files a template names become additional files. *)
Plain(package) == [name |-> package, version |-> <<>>]

(* Files to lower are a set of [local, final]: each from a file of the host,  *)
(* and to a place of its own.                                                *)
AddLoweredFiles(t, host, files) ==
    Check([t EXCEPT !.system.files =
              Over(@, [p \in {f.final : f \in files} |-> (CHOOSE f \in files : f.final = p).local])],
          \A f \in files :
             /\ f.local \in DOMAIN host
             /\ \A p \in DOMAIN t.system.files :
                   Overlaps(p, f.final) => p = f.final /\ t.system.files[p] = f.local
             /\ \A g \in files : Overlaps(g.final, f.final) => g = f)

AddKeysFromFiles(u, host, files) ==
    Check([u EXCEPT !.keys = @ \cup UNION {host[f] : f \in files}],
          \A f \in files : f \in DOMAIN host /\ Malformed \notin host[f])

(* The keys in the files of each user. *)
AddKeys(t, host, filesOf(_)) ==
    LET users == [n \in DOMAIN t.system.users |-> AddKeysFromFiles(t.system.users[n], host, filesOf(n))]
    IN  IF Refused \in Range(users) THEN Refused
        ELSE Accept([t EXCEPT !.system.users = [n \in DOMAIN users |-> users[n][1]]])

LowerSSHKeyFiles(t, host) == AddKeys(t, host, LAMBDA n : {<<f>> : f \in t.system.users[n].keyFiles})

LowerScripts(t, host) ==
    AddLoweredFiles(t, host, {[local |-> s.local, final |-> s.final] : s \in Range(t.system.scripts)})

(* user-data must say what it is in its first line. *)
HasUserDataHeader(host, file) == file \in DOMAIN host /\ "#cloud-config" \in host[file]

LowerCloudInit(t, host) ==
    LET c == t.system.cloudInit
        named(local, dir, name) ==
            IF local = "" THEN {} ELSE {[local |-> <<local>>, final |-> Append(dir, name)]}
        files == named(c.userData, SeedDir, "user-data") \cup named(c.metaData, SeedDir, "meta-data")
                 \cup UNION {named(f, SubSeq(Datasource, 1, 3), f) : f \in c.configFiles}
    IN  IF c.enabled # <<TRUE>> THEN Accept(t)
        ELSE IF \/ c.userData # "" /\ ~HasUserDataHeader(host, <<c.userData>>)
                \/ Last(Datasource) \in c.configFiles
        THEN Refused
        ELSE AddLoweredFiles([t EXCEPT !.system.packages = @ \cup {Plain("cloud-init")}], host, files)

LowerProvisioningInputs(t, host) ==
    Then(Then(LowerSSHKeyFiles(t, host), LAMBDA x : LowerScripts(x, host)), LAMBDA x : LowerCloudInit(x, host))

FinalizeProvisioning(t, host) ==
    IF ~ValidateProvisioning(t) \/ ~ValidateMergedProvisioning(t) THEN Refused
    ELSE Then(LowerProvisioningInputs(t, host), LAMBDA x : Check(x, ValidateAdditionalFilesNotGenerated(x)))

(* What first boot of the OEP Installer adds once the template is final. *)
AddGeneratedProvisioningScript(t, host, s) ==
    LET scripts == Append(t.system.scripts, s)
    IN  IF ~ValidateScripts(scripts) \/ ~RebootAfterIsLast(scripts) THEN Refused
        ELSE Then(AddLoweredFiles(t, host, {[local |-> s.local, final |-> s.final]}),
                  LAMBDA x : Accept([x EXCEPT !.system.scripts = scripts]))

-----------------------------------------------------------------------------
(* What the command line may override: [strategy, host, proxy, keys]. *)
NoOverrides == [strategy |-> "", host |-> "", proxy |-> "", keys |-> <<>>]

ApplyCompositionOverrides(t, o, host) ==
    LET proxied == [t EXCEPT !.disk.strategy = Or(o.strategy, @),
                             !.disk.path = IF o.strategy = "" THEN @ ELSE "",
                             !.system.host = Or(o.host, @),
                             !.system.proxy.http = Or(o.proxy, @)]
        keys(n) == {<<k.file>> : k \in {x \in Range(o.keys) : x.user = n}}
    IN  IF o = NoOverrides THEN Accept(t)
        ELSE IF \/ IsOverlayMode(t) /\ (o.strategy # "" \/ o.host # "" \/ o.proxy # "")
                \/ Malformed \in {o.strategy, o.host} \/ ~ValidateProxy(proxied.system.proxy)
                \/ \E k \in Range(o.keys) : k.user \notin DOMAIN t.system.users
        THEN Refused
        ELSE Then(AddKeys(proxied, host, keys),
                  LAMBDA x : Check(x, ValidateAdditionalFilesNotGenerated(x)))

(* An account nobody can log in to but with an empty password. *)
NeedsCredential(u) == u.startup = "" /\ u.password = "" /\ u.keys = {}
ValidateUserCredentials(users) == \A u \in Range(users) : ~NeedsCredential(u)
=============================================================================
