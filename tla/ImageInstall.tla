---------------------------- MODULE ImageInstall ---------------------------
(* The operating system of an image: installed under a root that is mounted  *)
(* from the disk DiskInstall made, or into a directory for a rootfs or an     *)
(* initrd.  What it takes - mounts, encrypted devices held open, what stands  *)
(* in for commands of the image - is taken back at its end, or where it       *)
(* fails.  Any command may fail.                                             *)
(*                                                                           *)
(* world.t is the template: besides what the modules below read, deb, arch,   *)
(* os, packages, provides and brings (their commands and files), boot and     *)
(* trees (the kernels they bring to /boot and /lib/modules), users, network,  *)
(* extend and imageType (whether the last partition is to grow), commands     *)
(* (what each of the template's own writes), proxy.                          *)
EXTENDS DiskInstall, ImageSecure, ImageAccounts, ImageProvision

(* An image goes onto a disk nothing of which is mounted; no package of it     *)
(* comes as a stand-in; and its root can be mounted.                         *)
ASSUME ImageAssumption ==
    \A w \in Worlds :
        /\ w.kind \in {"raw", "live"} => w.stale = {}
        /\ \A b \in DOMAIN w.t.gen : w.t.gen[b] # "dummy"
        /\ \A p \in Range(w.cfg.partitions) : p.mount = "/" => ~IsSwapFsType(p.fs)

(* The lists of a template are lists; what /etc and the vendors' tree hold has *)
(* its fields, and a source one dkms.conf at most.                           *)
ASSUME TemplateAssumption ==
    \A w \in Worlds :
        /\ w.t.users \in Seq(Range(w.t.users)) /\ w.t.scripts \in Seq(Range(w.t.scripts))
        /\ w.t.boot \in Seq(Range(w.t.boot)) /\ IsFiniteSet(DOMAIN w.t.trees)
        /\ \A k \in DOMAIN w.t.trees : DOMAIN w.t.trees[k] = {"vmlinuz", "dep"}
        /\ w.t.fde.partitions \in Seq(Range(w.t.fde.partitions)) /\ {"dracut", "update-initramfs"} \subseteq DOMAIN w.t.gen
        /\ DOMAIN w.t.etc = {"accounts", "groups", "files", "links", "keys", "sudoers"}
        /\ \A n \in DOMAIN w.t.etc.accounts :
             /\ DOMAIN w.t.etc.accounts[n] = {"shell", "home", "shadow", "maxAge", "groups"}
             /\ DOMAIN w.t.etc.accounts[n].shadow = {"locked", "of"}
        /\ DOMAIN w.t.tree = {"sources", "built", "installed", "left", "kos", "tools", "staged", "target", "framework"}
        /\ \A s \in DOMAIN w.t.tree.sources : DOMAIN w.t.tree.sources[s] \subseteq {1}

(* What dkms installed with the packages, it built, and copied or left.       *)
ASSUME DkmsAssumption ==
    \A w \in Worlds : \A p \in w.t.tree.installed :
        /\ p \in DOMAIN w.t.tree.built /\ p[1] \in DOMAIN w.t.tree.sources \ {OriginalModule}
        /\ \A n \in w.t.tree.built[p] : <<p[2], n>> \in DOMAIN w.t.tree.kos \cup w.t.tree.left

VARIABLES
    sys,    \* what is mounted, decrypted and on which device: of the host
    job,    \* what the installation remembers to take back
    root    \* the image
imageVars == <<sys, job, root>>
installVars == <<diskVars, imageVars>>

t == world.t
Binaries == {"dracut", "update-initramfs"}

ImageGoto(next) == pc' = next /\ UNCHANGED <<world, disk, idMap, made, firmware, old>>
(* On to the next step, with what it made of the image. *)
RootBecomes(r, next) == root' = r /\ ImageGoto(next) /\ UNCHANGED <<sys, job>>
SysBecomes(s, next) == sys' = s /\ ImageGoto(next) /\ UNCHANGED <<job, root>>

(* What the first deferred call is of a step that fails. *)
Unwinding ==
    CASE pc \in {"divert", "install"}  -> IF t.deb THEN "restore" ELSE "unwind"
      [] OTHER                         -> "unwind"
GiveUp == job' = [job EXCEPT !.failed = TRUE] /\ ImageGoto(Unwinding) /\ UNCHANGED <<sys, root>>
OrGiveUp(r, next) == IF r = Refused THEN GiveUp ELSE RootBecomes(r[1], next)

-----------------------------------------------------------------------------
(* Mounts.  An unmount that finds a mount busy detaches it, with all below.  *)
MountOrder == <<"/", "/boot", "/boot/efi", "/boot/efi/tmp", "/cdrom/cache-repo", "/home", "/opt", "/srv", "/tmp", "/var">>
Below(m) == CASE m = "/"         -> Range(MountOrder)
              [] m = "/boot"     -> {"/boot/efi", "/boot/efi/tmp"}
              [] m = "/boot/efi" -> {"/boot/efi/tmp"}
              [] OTHER           -> {}
MountPath(s, m) == [s EXCEPT !.mounts = @ \cup {m}]
(* The points are unmounted, those below before what they are in. *)
Umounted(s, points) ==
    LET gone == UNION {{m} \cup Below(m) : m \in points \cap s.mounts}
    IN  [s EXCEPT !.mounts = @ \ gone, !.sysfs = @ /\ "/" \notin gone, !.ro = @ /\ "/" \notin gone]
UmountPath(s, m) == Umounted(s, {m})

(* What is mounted, in the order it is: the first n of all there can be. *)
MountableParts == {p \in Range(Parts) : p.id \in DOMAIN sys.dev /\ ~IsNonMountablePartition(p)}
MountPointInfoList == {p.mount : p \in MountableParts} \cap Range(MountOrder)
First(n) == {MountOrder[i] : i \in 1..n}
From(n) == {MountOrder[i] : i \in n + 1 .. Len(MountOrder)}

(* Each [ok, unclean, sys] of mounting the list: one of them fails, or the    *)
(* system's directories, and those mounted go - until one will not.           *)
MountDiskToChroot(s) ==
    LET list == MountPointInfoList
        with(points) == [s EXCEPT !.mounts = @ \cup points]
        rolledBack(n) == {[ok |-> FALSE, unclean |-> list \cap First(k) # {},
                           sys |-> Umounted(with(list \cap First(n)), list \cap First(n) \cap From(k))] : k \in 0..n}
    IN  IF list = {} THEN {[ok |-> FALSE, unclean |-> FALSE, sys |-> s]}
        ELSE {[ok |-> TRUE, unclean |-> FALSE, sys |-> [with(list) EXCEPT !.sysfs = TRUE]]}
             \cup UNION {rolledBack(n) : n \in 0..Len(MountOrder)}

(* Mutant: the list is gone through as it was mounted, up to the first that fails. *)
UmountRootOnly(s, list) == {[ok |-> TRUE, sys |-> Umounted([s EXCEPT !.sysfs = FALSE], list \ {"/"})]}
(* The system's directories first, then the list in reverse, up to what fails. *)
UmountDiskFromChroot(s, list) ==
    LET bare == [s EXCEPT !.sysfs = FALSE]
    IN  {[ok |-> TRUE, sys |-> Umounted(bare, list)], [ok |-> FALSE, sys |-> s]}
        \cup {[ok |-> FALSE, sys |-> Umounted(bare, list \cap From(n))] : n \in {k \in 1..Len(MountOrder) : list \cap First(k) # {}}}

(* Closing is refused while anything of it is mounted; that is only logged.   *)
LuksInUse(s, id) == \E p \in Range(Parts) : p.id = id /\ p.mount \in s.mounts
CloseLuksMappers(s, ids) == [s EXCEPT !.luks = {id \in @ : id \in ids => LuksInUse(s, id)}]

-----------------------------------------------------------------------------
StartInstall ==
    /\ pc = "image"
    /\ sys' = [sys EXCEPT !.dev = [id \in DOMAIN idMap |-> <<"part", id>>]]
    /\ ImageGoto(IF t.deb /\ IsDisk THEN "mountroot" ELSE IF t.deb THEN "bootstrap" ELSE IF IsDisk THEN "mount" ELSE "sysfs")
    /\ UNCHANGED <<job, root>>

MountDiskRoot ==
    /\ pc = "mountroot"
    /\ IF GetDiskPartByMountPoint("/", sys.dev, Parts) = {} THEN GiveUp
       ELSE /\ sys' = MountPath(sys, "/") /\ job' = [job EXCEPT !.list = {"/"}]
            /\ ImageGoto("bootstrap") /\ UNCHANGED root

(* For WSL a root of an earlier build goes, with all that is mounted there.  *)
PrepareInstallRoot(s) == [s EXCEPT !.mounts = {}, !.sysfs = FALSE]
InitRootfsForDeb ==
    /\ pc = "bootstrap"
    /\ LET s == IF t.wsl THEN PrepareInstallRoot(sys) ELSE sys
       IN  /\ sys' = s
           /\ IF t.localList THEN ImageGoto(IF IsDisk THEN "mount" ELSE "sysfs") /\ UNCHANGED <<job, root>>
              ELSE job' = [job EXCEPT !.failed = TRUE] /\ ImageGoto("unwind") /\ UNCHANGED root

MountSysfs == pc = "sysfs" /\ sys' = [sys EXCEPT !.sysfs = TRUE] /\ job' = [job EXCEPT !.bare = TRUE]
              /\ ImageGoto("packages") /\ UNCHANGED root

MountDisk ==
    /\ pc = "mount"
    /\ \E r \in MountDiskToChroot(sys) :
         /\ sys' = r.sys
         /\ job' = IF r.ok THEN [job EXCEPT !.list = MountPointInfoList]
                   ELSE [job EXCEPT !.failed = TRUE, !.unclean = @ \/ r.unclean]
         /\ ImageGoto(IF r.ok THEN "packages" ELSE "unwind")
    /\ UNCHANGED root

-----------------------------------------------------------------------------
(* Packages, in an order: what the others are configured by at the head, what *)
(* builds an initramfs of them at the tail.                                   *)
Ranked(packages, head, tail) ==
    LET rank(p) == IF p \in head THEN 0 ELSE IF p \in tail THEN 2 ELSE 1
    IN  StableSort(packages, LAMBDA a, b : rank(a) < rank(b))
GetRpmPkgInstallList(packages) == Ranked(packages, {"filesystem"}, {"initramfs"})
GetDebPkgInstallList(packages) == Ranked(packages, {"base-files"}, {"dracut", "systemd-boot"})

Repo == "/cdrom/cache-repo"
(* The repository is mounted in the image; a failure after that is before     *)
(* anything that would unmount it is deferred.                               *)
InitDebLocalRepo ==
    /\ pc = "packages" /\ t.deb
    /\ sys' = MountPath(sys, Repo)
    /\ \/ /\ root' = [root EXCEPT !.scaffold = {"local.list", "policy-rc.d"}]
          /\ job' = [job EXCEPT !.packages = GetDebPkgInstallList(t.packages)] /\ ImageGoto("divert")
       \/ /\ root' = [root EXCEPT !.scaffold = {"local.list"}]
          /\ job' = [job EXCEPT !.failed = TRUE, !.halfway = TRUE] /\ ImageGoto("unwind")

InitImageRpmDb ==
    /\ pc = "packages" /\ ~t.deb
    /\ job' = [job EXCEPT !.packages = GetRpmPkgInstallList(t.packages)]
    /\ ImageGoto("install") /\ UNCHANGED <<sys, root>>

(* No initramfs is built between two packages: a dummy stands in for each     *)
(* command, with the command diverted, or backed up where there is one.       *)
PrepareInitramfsBinaries ==
    /\ pc = "divert"
    /\ \E diverted \in {Binaries, Binaries \ {"dracut"}, {}} :
         LET backups == {b \in Binaries \ diverted : root.gen[b] = "real"}
         IN  /\ job' = [job EXCEPT !.diverted = diverted, !.backups = backups]
             /\ root' = [root EXCEPT !.gen = Over(@, [b \in diverted \cup backups |-> "dummy"])]
             /\ ImageGoto("install") /\ UNCHANGED sys

(* The packages that cannot finish without the firmware are let fail. *)
EfiVariableAccess == {"systemd-boot", "dracut"}
InstallPackage ==
    /\ pc = "install" /\ job.packages # <<>>
    /\ job' = [job EXCEPT !.packages = Tail(@)]
    /\ root' = [root EXCEPT !.scaffold = @ \cup IF t.deb /\ Head(job.packages) = "apparmor" THEN {"wrapper"} ELSE {}]
    /\ UNCHANGED <<sys, diskVars>>

(* The wrapper is taken out; the packages brought their kernels, and those    *)
(* commands that were not diverted.                                          *)
PackagesInstalled ==
    /\ pc = "install" /\ job.packages = <<>>
    /\ LET brought == t.provides \ job.diverted
       IN  root' = [root EXCEPT !.scaffold = @ \ {"wrapper"}, !.kernels = t.boot, !.modules = t.trees,
                                !.gen = Over(@, [b \in brought |-> "real"])]
    /\ ImageGoto(IF t.deb THEN "restore" ELSE IF IsDisk THEN "kernels" ELSE "configure") /\ UNCHANGED <<sys, job>>

(* What fails here is logged: a command that was backed up stays a dummy, one  *)
(* that was diverted is gone.                                                *)
RestoreInitramfsBinaries ==
    /\ pc = "restore"
    /\ \E lost \in {{}, Binaries} :
         LET restored(b) == IF b \in job.backups /\ b \in lost THEN "dummy"
                            ELSE IF b \in job.backups THEN "real"
                            ELSE IF b \in lost \/ b \notin t.provides THEN "absent"
                            ELSE "real"
             taken == job.diverted \cup job.backups
         IN  /\ root' = [root EXCEPT !.gen = Over(@, [b \in taken |-> restored(b)])]
             /\ job' = [job EXCEPT !.unclean = @ \/ lost \cap taken # {}]
    /\ ImageGoto("deinit") /\ UNCHANGED sys

DeInitDebLocalRepo ==
    /\ pc = "deinit"
    /\ \/ /\ sys' = UmountPath(sys, Repo) /\ root' = [root EXCEPT !.scaffold = @ \ {"local.list", "policy-rc.d"}]
          /\ ImageGoto(IF job.failed THEN "unwind" ELSE IF IsDisk THEN "kernels" ELSE "configure") /\ UNCHANGED job
       \/ \E mounted \in {{}, {Repo}} :
            /\ sys' = [sys EXCEPT !.mounts = (@ \ {Repo}) \cup mounted]
            /\ job' = [job EXCEPT !.failed = TRUE, !.unclean = TRUE]
            /\ ImageGoto("unwind") /\ UNCHANGED root

-----------------------------------------------------------------------------
PrepareKernels ==
    /\ pc = "kernels" /\ \E r \in FixKernelSymlinks(root) : RootBecomes(r, "dkms")

(* One kernel after another, all that are in /boot. *)
BuildDkms ==
    /\ pc = "dkms"
    /\ IF ~t.dkms.enabled \/ (job.kernels = Len(root.kernels) /\ root.kernels # <<>>)
       THEN ImageGoto("depmod") /\ UNCHANGED <<sys, job, root>>
       ELSE IF root.kernels = <<>> THEN GiveUp
       ELSE \E r \in BuildDkmsModulesForKernel(root.tree, root.kernels[job.kernels + 1], t.dkms) :
              /\ root' = [root EXCEPT !.tree = r.tree]
              /\ job' = IF r.ok THEN [job EXCEPT !.kernels = @ + 1] ELSE [job EXCEPT !.failed = TRUE]
              /\ ImageGoto(IF r.ok THEN pc ELSE "unwind") /\ UNCHANGED sys

EnsureDepmod == pc = "depmod" /\ OrGiveUp(EnsureDepmodForBootKernels(root), "configure")

(* What the template brings, and with it what grows the last partition.      *)
Brought(site) == ConfigureFirstBootLastPartitionAutoExpand(WriteFiles(site, t.files), t.extend, t.imageType)
AddImageAdditionalFiles ==
    /\ pc = "configure"
    /\ RootBecomes([root EXCEPT !.site = Brought(@), !.etc.files = @ \cup t.files], "users")

CreateNextUser ==
    /\ pc = "users" /\ job.users < Len(t.users)
    /\ LET etc == CreateUser(root.etc, t.users[job.users + 1], t.os)
       IN  IF etc = Refused THEN GiveUp
           ELSE /\ root' = [root EXCEPT !.etc = etc[1]]
                /\ job' = [job EXCEPT !.users = @ + 1] /\ UNCHANGED <<sys, diskVars>>

UsersCreated ==
    /\ pc = "users" /\ job.users = Len(t.users)
    /\ RootBecomes([root EXCEPT !.etc = WriteKeyOnlySudoers(@, t.users)], "site")

(* The network; on a disk, what is mounted; what runs at the first boot; the  *)
(* template's commands; and the proxy last, which is not for them.           *)
ConfigureImage(r) ==
    LET network == UpdateImageNetwork(r.site, t.network)
        site == IF network = Refused THEN Refused ELSE ApplyProvisioningConfig(network[1], t)
        mounted == IF IsDisk THEN UpdateImageFstab(r, sys.dev, t, Parts) ELSE r
    IN  IF site = Refused THEN Refused ELSE <<[mounted EXCEPT !.site = WriteProxyConfig(AddImageConfigs(site[1], t.commands), t.proxy)]>>

UpdateImageConfig ==
    /\ pc = "site"
    /\ OrGiveUp(ConfigureImage(root), IF IsDisk THEN "boot" ELSE IF world.kind = "rootfs" THEN "sbom" ELSE "post")

InstallBoot ==
    /\ pc = "boot"
    /\ LET results == InstallImageBoot(root, sys.dev, t, Parts)
       IN  IF results = {} THEN GiveUp ELSE \E r \in results : RootBecomes(r, "sbom")

GenerateSBOM == pc = "sbom" /\ RootBecomes([root EXCEPT !.sbom = TRUE], IF IsDisk THEN "secure" ELSE "post")

SecureImage == pc = "secure" /\ RootBecomes(ConfigImageSecurity(root, t), "fde")

-----------------------------------------------------------------------------
(* Encryption: nothing of the disk is mounted meanwhile. *)
EnableFDE ==
    /\ pc = "fde"
    /\ CASE ~t.fde.enabled -> ImageGoto("wire") /\ UNCHANGED <<sys, job, root>>
         [] t.fde.enabled /\ (~t.fde.passphrase \/ FdeTargetPartitionIDs(t, Parts) = <<>>) -> GiveUp
         [] OTHER -> \E r \in UmountDiskFromChroot(sys, job.list) :
                        /\ sys' = r.sys
                        /\ job' = IF r.ok THEN [job EXCEPT !.targets = FdeTargetPartitionIDs(t, Parts)]
                                  ELSE [job EXCEPT !.failed = TRUE]
                        /\ ImageGoto(IF r.ok THEN "encrypt" ELSE "unwind") /\ UNCHANGED root

(* Those open are closed when the next cannot be encrypted, opened or grown,  *)
(* or what they were mounted on.  The list of mounts stays, that of those open *)
(* is lost.                                                                  *)
Encryptable(id) == \E p \in Range(Parts) : p.id = id /\ p.fs = "ext4"
AbandonFDE(s, opened) ==
    /\ \E stuck \in {{}, s.luks} : /\ sys' = [CloseLuksMappers(s, opened) EXCEPT !.luks = @ \cup stuck]
                                   /\ job' = [job EXCEPT !.failed = TRUE, !.opened = {}, !.targets = <<>>,
                                                         !.unclean = @ \/ (stuck # {})]
    /\ ImageGoto("unwind") /\ UNCHANGED root

EncryptPartition ==
    /\ pc = "encrypt" /\ job.targets # <<>>
    /\ LET id == Head(job.targets)
           open == [sys EXCEPT !.luks = @ \cup {id}, !.crypt = @ \cup {id}, !.dev[id] = <<"mapper", id>>]
           opened == job.opened \cup {id}
       IN  \/ /\ id \in DOMAIN sys.dev /\ Encryptable(id)
              /\ sys' = open /\ job' = [job EXCEPT !.targets = Tail(@), !.opened = opened]
              /\ UNCHANGED <<root, diskVars>>
           \/ AbandonFDE(sys, job.opened)
           \/ id \in DOMAIN sys.dev /\ Encryptable(id) /\ AbandonFDE([open EXCEPT !.dev = sys.dev], opened)

RemountAfterFDE ==
    /\ pc = "encrypt" /\ job.targets = <<>>
    /\ \E r \in MountDiskToChroot(sys) :
         IF r.ok THEN /\ sys' = r.sys /\ job' = [job EXCEPT !.list = MountPointInfoList]
                      /\ ImageGoto("wire") /\ UNCHANGED root
         ELSE /\ sys' = CloseLuksMappers(r.sys, job.opened)
              /\ job' = [job EXCEPT !.failed = TRUE, !.opened = {}, !.unclean = @ \/ r.unclean]
              /\ ImageGoto("unwind") /\ UNCHANGED root

WireFDE ==
    /\ pc = "wire"
    /\ LET r == WireFDEBoot(root, sys.dev, t, Parts)
       IN  IF r = Refused THEN GiveUp
           ELSE /\ root' = r[1]
                /\ sys' = [sys EXCEPT !.keyed = IF IsFDEAutoUnlock(t) THEN Range(FdeTargetPartitionIDs(t, Parts)) ELSE @]
                /\ ImageGoto(IF t.provider = "systemd-boot" THEN "initramfs" ELSE "sign") /\ UNCHANGED job

-----------------------------------------------------------------------------
(* The UKI: the first kernel's initramfs, an ESP with nothing else, and the   *)
(* hash of a root that nothing is written to any more.                       *)
RebuildInitramfs ==
    /\ pc = "initramfs"
    /\ LET k == GetKernelVersionFromBoot(root)
           r == IF k = Refused THEN Refused ELSE UpdateInitramfs(root, k[1], t)
       IN  OrGiveUp(IF r = Refused THEN Refused ELSE <<PrepareESPDir(r[1])>>,
                    IF t.immutable THEN "verity" ELSE "ukify")

(* The root read-only, and a /tmp and one on the ESP in memory. *)
PrepareVeritySetup ==
    /\ pc = "verity"
    /\ LET frozen == [sys EXCEPT !.ro = TRUE]
       IN  IF ExtractRootHashPH(root.cmdline[1]) = Refused THEN GiveUp
           ELSE \/ /\ "/boot/efi" \in sys.mounts
                   /\ SysBecomes([frozen EXCEPT !.mounts = @ \cup {"/tmp", "/boot/efi/tmp"}], "hash")
                \/ /\ sys' = MountPath(frozen, "/tmp") /\ job' = [job EXCEPT !.failed = TRUE]
                   /\ ImageGoto("unwind") /\ UNCHANGED root

HashRoot == pc = "hash" /\ RootBecomes(GetVerityRootHash(root, ExtractRootHashPH(root.cmdline[1])[1]), "ukify")

(* The directories in memory go - when they do - and their mount points, if   *)
(* the root lets them, after the UKI is built or failed to be.               *)
RemoveVerityTmp(s) == Umounted(s, {"/tmp", "/boot/efi/tmp"})
MakeUKI ==
    /\ pc = "ukify"
    /\ LET options == IF t.immutable THEN ReplaceRootHashPH(root.cmdline[1], root.hashed) ELSE root.cmdline[1]
           built == BuildUKI(root, root.kernels[1], options, t)
           left(r) == IF t.immutable THEN WriteRoot(r, sys.ro) ELSE r
       IN  \/ /\ built # Refused /\ root' = left(built[1])
              /\ sys' = (IF t.immutable THEN RemoveVerityTmp(sys) ELSE sys)
              /\ ImageGoto("loader") /\ UNCHANGED job
           \/ /\ t.arch \in UkifyStubs /\ root' = left(root)
              /\ sys' = (IF t.immutable THEN RemoveVerityTmp(sys) ELSE sys)
              /\ job' = [job EXCEPT !.failed = TRUE] /\ ImageGoto("unwind")
           \/ t.arch \notin UkifyStubs /\ GiveUp

InstallLoader == pc = "loader" /\ RootBecomes(CopyBootloader(root, t), "sign")

Sign == pc = "sign" /\ OrGiveUp(SignImage(root, t), "post")

ReleaseNeeded == {"azure-linux", "edge-microvisor-toolkit"}
PostInstall ==
    /\ pc = "post"
    /\ IF t.os \in ReleaseNeeded /\ ~t.osRelease THEN GiveUp ELSE ImageGoto("unwind") /\ UNCHANGED <<sys, job, root>>

-----------------------------------------------------------------------------
(* What was deferred: a failure of it fails the installation. *)
UnwindMounts ==
    /\ pc = "unwind"
    /\ IF job.list = {} /\ ~job.bare THEN ImageGoto("close") /\ UNCHANGED <<sys, job, root>>
       ELSE \E r \in UmountDiskFromChroot(sys, job.list) :
              /\ sys' = r.sys
              /\ job' = IF r.ok THEN job ELSE [job EXCEPT !.failed = TRUE, !.unclean = TRUE]
              /\ ImageGoto("close") /\ UNCHANGED root

CloseMappers ==
    /\ pc = "close"
    /\ \E stuck \in {{}, sys.luks} :
         /\ sys' = [CloseLuksMappers(sys, job.opened) EXCEPT !.luks = @ \cup stuck]
         /\ job' = [job EXCEPT !.opened = {}, !.unclean = @ \/ (stuck # {})]
         /\ ImageGoto(IF job.failed THEN "failed" ELSE IF world.kind = "live" THEN "bootorder" ELSE "done")
    /\ UNCHANGED root

(* A command of the step fails, and leaves the host as it was. *)
ImageCommandFails ==
    /\ pc \in {"bootstrap", "sysfs", "packages", "install", "depmod", "configure", "users", "site", "boot", "sbom",
               "secure", "wire", "initramfs", "verity", "hash", "loader", "sign"}
    /\ pc # "install" \/ (job.packages # <<>> /\ ~(t.deb /\ Head(job.packages) \in EfiVariableAccess))
    /\ GiveUp

ImageInit ==
    /\ DiskInit
    /\ sys = [mounts |-> world.stale, sysfs |-> FALSE, luks |-> {}, crypt |-> {}, dev |-> <<>>, keyed |-> {}, ro |-> FALSE]
    /\ job = [list |-> {}, opened |-> {}, targets |-> <<>>, packages |-> <<>>, diverted |-> {}, backups |-> {},
              kernels |-> 0, users |-> 0, bare |-> FALSE, halfway |-> FALSE, failed |-> FALSE, unclean |-> FALSE]
    /\ root = [kernels |-> <<>>, modules |-> <<>>, initramfs |-> <<>>, gen |-> world.t.gen, defaultGrub |-> <<>>,
               cmdline |-> <<>>, grubStub |-> <<>>, grubCfg |-> <<>>, fstab |-> {}, crypttab |-> {}, key |-> FALSE,
               uki |-> <<>>, loader |-> "", hashed |-> <<>>, stale |-> FALSE, signed |-> {}, scaffold |-> {},
               etc |-> world.t.etc, tree |-> world.t.tree, sbom |-> FALSE,
               site |-> [units |-> <<>>, enabled |-> {}, files |-> world.t.brings, executable |-> {}, proxy |-> {}]]

ImageNext ==
    \/ StartInstall \/ MountDiskRoot \/ InitRootfsForDeb \/ MountSysfs \/ MountDisk
    \/ InitDebLocalRepo \/ InitImageRpmDb \/ PrepareInitramfsBinaries \/ InstallPackage \/ PackagesInstalled
    \/ RestoreInitramfsBinaries \/ DeInitDebLocalRepo \/ PrepareKernels \/ BuildDkms \/ EnsureDepmod
    \/ AddImageAdditionalFiles \/ CreateNextUser \/ UsersCreated \/ UpdateImageConfig \/ InstallBoot \/ GenerateSBOM \/ SecureImage
    \/ EnableFDE \/ EncryptPartition \/ RemountAfterFDE \/ WireFDE
    \/ RebuildInitramfs \/ PrepareVeritySetup \/ HashRoot \/ MakeUKI \/ InstallLoader \/ Sign \/ PostInstall
    \/ UnwindMounts \/ CloseMappers \/ ImageCommandFails

InstallNext == (DiskNext /\ UNCHANGED imageVars) \/ ImageNext
InstallSpec == ImageInit /\ [][InstallNext]_installVars

-----------------------------------------------------------------------------
Installed == pc \in {"bootorder", "bootentry", "setorder", "removeold", "done"}
Ended == Installed \/ pc = "failed"

(* What a partition is known by when the image starts: by its own identity    *)
(* while it is not encrypted, else as what the initramfs or the crypttab      *)
(* opens, asking for a passphrase or with the key it has.                    *)
Opens(entries, id) == \E e \in entries : e.name = id /\ (e.key => root.key /\ id \in sys.keyed)
AtBoot(device, entries) ==
    CASE device[1] = "partuuid" -> device[2] \notin sys.crypt
      [] device[1] = "mapper"   -> device[2] \in sys.crypt /\ Opens(entries, device[2])
      [] OTHER                  -> TRUE
NameOf(device) == IF device[1] = "part" THEN <<"partuuid", device[2]>> ELSE device

RootReached(options, initramfs) ==
    LET id == FdeRootPartitionID(Parts)
        names == {<<"partuuid", id>>, <<"mapper", id>>}
        reached(device) == /\ device \in names /\ AtBoot(device, options.luks)
                           /\ device[1] = "mapper" => "crypt" \in initramfs /\ (IsFDEAutoUnlock(t) => "key" \in initramfs)
    IN  IF ~t.immutable THEN reached(options.root)
        ELSE /\ options.root = <<"mapper", "root">> /\ "verity" \in initramfs
             /\ reached(options.verity[1]) /\ AtBoot(options.verity[2], {})
             /\ options.hash = root.hashed /\ ~root.stale
             /\ <<NameOf(root.hashed[1]), NameOf(root.hashed[2])>> = options.verity

(* Partitions are told from each other by their names, the root by its mount   *)
(* point, and what verity's hashes are in by either; that is not encrypted.   *)
PlainLayout ==
    LET hashes == {p \in Range(Parts) : p.mount = "none" \/ p.id \in {"roothashmap", "hash"}}
    IN  /\ \A p, q \in Range(Parts) : p.id = q.id \/ (p.mount = "/" /\ q.mount = "/") => p = q
        /\ t.immutable => \A p, q \in hashes : p = q /\ p.id # "" /\ p.id \notin Range(t.fde.partitions)
(* A template that names the root itself is on its own.  GRUB gets no verity, *)
(* and an initramfs for one kernel only; a mapper named root is verity's.    *)
BootSupported ==
    /\ PlainLayout
    /\ t.cmdlineRoot = "" \/ t.immutable
    /\ t.provider = "grub" => ~t.immutable /\ Len(root.kernels) = 1
    /\ t.immutable /\ t.fde.enabled => FdeRootPartitionID(Parts) # "root"

(* What is reported installed boots: the loader finds the kernel - a UKI on   *)
(* the ESP under the name the firmware looks for, GRUB's configuration on the *)
(* partition the stub names - its options lead through encryption and verity  *)
(* to the root it was given, whose hash is of what the root holds in the end; *)
(* the initramfs can do what they say; everything in the fstab can be found;  *)
(* and what should be signed is.                                             *)
BootReachesRoot ==
    IsDisk /\ Installed /\ ~job.unclean /\ BootSupported =>
        /\ IF t.provider = "systemd-boot"
           THEN /\ root.loader = (IF t.arch = "x86_64" THEN "BOOTX64" ELSE "BOOTAA64")
                /\ RootReached(root.uki[1].options, root.uki[1].initramfs)
                /\ t.extra => "extra" \in root.uki[1].initramfs
                /\ t.immutable /\ t.keys => root.signed = {"uki", "loader"}
           ELSE LET boots == {p.id : p \in {x \in Range(Parts) : x.mount = "/boot"}}
                IN  /\ root.grubCfg[1].kernels = root.kernels
                    /\ t.bootType = "efi" =>
                         /\ root.grubStub[1].boot \in (IF boots = {} THEN {FdeRootPartitionID(Parts)} ELSE boots)
                         /\ root.grubStub[1].prefix = (IF boots = {} THEN "/boot" ELSE "")
                         /\ root.grubStub[1].version = root.grubCfg[1].version
                    /\ t.deb => DOMAIN root.initramfs = Range(root.kernels)
                    /\ RootReached(root.defaultGrub[1], {})
        /\ \A k \in Range(root.kernels) : k \in DOMAIN root.modules => root.modules[k].dep
        /\ \A e \in root.fstab : e.mount # "/" => AtBoot(e.source, root.crypttab)
        /\ \A id \in sys.crypt : Opens(root.crypttab \cup root.uki[1].options.luks, id)

(* Wherever it ends, an installation leaves nothing on the host it took -     *)
(* mounts, open devices - and an image reported installed has none of the     *)
(* stand-ins; unless what takes it back failed, which was said.  A local      *)
(* repository that could be mounted but not used stays, in a directory.      *)
NothingLeftBehind ==
    Ended /\ ~job.unclean =>
        /\ sys.mounts \subseteq world.stale \cup IF job.halfway /\ ~IsDisk THEN {Repo} ELSE {}
        /\ sys.luks = {} /\ ~sys.sysfs
        /\ Installed => root.scaffold = {} /\ \A b \in DOMAIN root.gen : root.gen[b] # "dummy"

(* The users of an installed image get in as the template says, no other way. *)
UsersMayLogIn == Installed => MayLogInAs(t.etc, root.etc, t.users)

(* The scripts of the template run at the first boot, in order.              *)
ScriptsRun == Installed => ScriptsStart(root.site, t)

(* The kernels of an installed image have the vendor's modules, but for what   *)
(* dkms may leave out unseen: with none named, a source it did not install;   *)
(* and a module it built but left to what the kernel ships.                  *)
VendorModulesLoadUnlessLeft == IsDisk /\ Installed => ModulesLoad(root.tree, Range(root.kernels), t.dkms)
=============================================================================
