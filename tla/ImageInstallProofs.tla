------------------------- MODULE ImageInstallProofs --------------------------
(* What an installation promises, for every world.                           *)
EXTENDS ImageInstall, FiniteSetTheorems, WellFoundedInduction, TLAPS

(* NothingLeftBehind: the mounts of the installation are in what it remembers *)
(* to unmount, its open devices in what it remembers to close, and its        *)
(* stand-ins in what it remembers to restore.                                 *)

(* The stages: before anything of the host is taken; with the root there; of  *)
(* those, with a boot loader on it; and with the disk mounted.               *)
Untaken == {"select", "check", "wipe", "table", "release", "rewipe", "force", "partition", "image", "mountroot"}
OnRoot == {"kernels", "dkms", "depmod", "boot", "secure", "fde", "wire", "initramfs", "verity", "hash", "ukify",
           "loader", "sign"}
Bootable == {"secure", "fde", "encrypt", "wire", "initramfs", "verity", "hash", "ukify", "loader", "sign"}
Working == {"packages", "divert", "install", "restore", "deinit", "configure", "users", "site", "sbom", "post"} \cup OnRoot
Encrypted == {"encrypt", "wire", "initramfs", "verity", "hash", "ukify", "loader", "sign", "post", "unwind", "close",
              "failed", "bootorder", "bootentry", "setorder", "removeold", "done"}
Stages == Untaken \cup Working \cup {"bootstrap", "sysfs", "mount", "encrypt", "unwind", "close", "failed",
                                    "bootorder", "bootentry", "setorder", "removeold", "done"}

LocalRepo == {"local.list", "policy-rc.d"}
Dummies == {b \in DOMAIN root.gen : root.gen[b] = "dummy"}
CleanRoot == root.scaffold = {} /\ Dummies = {}
HasRoot == "/" \in MountPointInfoList

(* What the stages say of the world; and the records have their fields.      *)
StageInv ==
    /\ world \in Worlds /\ pc \in Stages
    /\ DOMAIN sys = {"mounts", "sysfs", "luks", "crypt", "dev", "keyed", "ro"}
    /\ DOMAIN job = {"list", "opened", "targets", "packages", "diverted", "backups", "kernels", "users",
                   "bare", "halfway", "failed", "unclean"}
    /\ {"scaffold", "gen", "etc", "site", "tree", "kernels", "modules"} \subseteq DOMAIN root
    /\ pc \in {"mountroot", "mount", "encrypt"} \cup OnRoot => IsDisk
    /\ pc \in {"mountroot", "bootstrap", "divert", "restore", "deinit"} => t.deb
    /\ pc = "sysfs" => ~IsDisk

(* Nothing is taken yet. *)
UntakenInv ==
    pc \in Untaken => /\ job.list = {} /\ job.opened = {} /\ ~job.bare
                     /\ sys.mounts = world.stale /\ ~sys.sysfs

(* A disk's mounts are those to be unmounted, or below the root that is.      *)
DiskInv ==
    IsDisk =>
        /\ sys.mounts \subseteq Range(MountOrder)
        /\ ~job.unclean => sys.mounts \subseteq job.list \/ "/" \in job.list \cap sys.mounts
        /\ pc \in {"bootstrap", "mount"} => IF t.deb THEN sys.mounts \subseteq {"/"} /\ job.list = {"/"} ELSE sys.mounts = {}
        /\ pc \in Working => job.list = MountPointInfoList /\ ("/" \in job.list => "/" \in sys.mounts)
        /\ pc \in Bootable \cup {"sbom"} \/ (t.deb /\ pc \in {"bootstrap", "mount"} \cup Working) => HasRoot
        /\ pc = "encrypt" /\ ~job.unclean => sys.mounts = {}

(* In a directory only the repository is mounted, while it is used. *)
DirectoryInv ==
    ~IsDisk =>
        /\ job.list = {}
        /\ sys.mounts \subseteq world.stale \cup
              IF job.halfway \/ job.unclean \/ (t.deb /\ pc \in {"divert", "install", "restore", "deinit"}) THEN {Repo} ELSE {}

(* The system's directories are unmounted with the list, or alone.           *)
SysfsInv ==
    /\ sys.sysfs => job.bare \/ job.list # {}
    /\ pc \in {"close", "failed", "bootorder", "bootentry", "setorder", "removeold", "done"} /\ ~job.unclean =>
          ~sys.sysfs /\ (IsDisk => sys.mounts = {})

(* What is open is to be closed. *)
LuksInv ==
    /\ pc \notin Encrypted => sys.luks = {}
    /\ ~IsDisk => sys.luks = {}
    /\ ~job.unclean => sys.luks \subseteq job.opened
    /\ Ended /\ ~job.unclean => sys.luks = {}

(* What stands in for commands of the image goes with its packages installed. *)
StandInInv ==
    /\ pc \in Untaken \cup {"bootstrap", "sysfs", "mount", "packages"} => CleanRoot
    /\ pc = "divert" => root.scaffold \subseteq LocalRepo /\ Dummies = {}
    /\ pc = "install" => /\ root.scaffold \subseteq IF t.deb THEN LocalRepo \cup {"wrapper"} ELSE {}
                         /\ Dummies \subseteq IF t.deb THEN job.diverted \cup job.backups ELSE {}
    /\ pc = "restore" => Dummies \subseteq job.diverted \cup job.backups
    /\ pc = "deinit" /\ ~job.unclean => Dummies = {}
    /\ pc \in {"restore", "deinit"} /\ ~job.failed => root.scaffold \subseteq LocalRepo
    /\ pc \in OnRoot \cup {"configure", "users", "site", "sbom", "encrypt", "post"} /\ ~job.unclean => CleanRoot
    /\ (pc \in {"unwind", "close"} /\ ~job.failed) \/ Installed => job.unclean \/ CleanRoot

InstallInv == StageInv /\ UntakenInv /\ DiskInv /\ DirectoryInv /\ SysfsInv /\ LuksInv /\ StandInInv

-----------------------------------------------------------------------------
(* Mounts. *)
SysFields == {"mounts", "sysfs", "luks", "crypt", "dev", "keyed", "ro"}

LEMMA OrderIsFixed ==
  /\ Len(MountOrder) = 10
  /\ \A i \in 1..10 : MountOrder[i] = "/" <=> i = 1
  /\ "/" \in Range(MountOrder) /\ Repo \in Range(MountOrder)
  /\ {"/tmp", "/boot/efi/tmp"} \subseteq Range(MountOrder)
<1>1. Len(MountOrder) = 10 /\ DOMAIN MountOrder = 1..10
  BY DEF MountOrder
<1>2. MountOrder[1] = "/" /\ MountOrder[5] = Repo /\ MountOrder[9] = "/tmp" /\ MountOrder[4] = "/boot/efi/tmp"
  BY DEF MountOrder, Repo
<1>3. \A i \in 2..10 : MountOrder[i] # "/"
  BY DEF MountOrder
<1>4. \A i \in DOMAIN MountOrder : MountOrder[i] \in Range(MountOrder)
  BY DEF Range
<1> QED
  BY <1>1, <1>2, <1>3, <1>4

LEMMA OrderIsAll ==
  ASSUME NEW k \in 0..10
  PROVE  Range(MountOrder) \subseteq First(k) \cup From(k)
<1>1. DOMAIN MountOrder = 1..10 /\ Len(MountOrder) = 10
  BY DEF MountOrder
<1> QED
  BY <1>1 DEF Range, First, From

(* What an unmount leaves. *)
\* What of the partitions is encrypted, and has a key.
SameSeals(u, s) == u.crypt = s.crypt /\ u.keyed = s.keyed

LEMMA UmountedLeaves ==
  ASSUME NEW s, DOMAIN s = SysFields, NEW points
  PROVE  LET u == Umounted(s, points) IN
         /\ DOMAIN u = SysFields /\ u.luks = s.luks /\ u.dev = s.dev /\ SameSeals(u, s)
         /\ u.mounts \subseteq s.mounts \ points
         /\ u.sysfs => s.sysfs
         /\ "/" \in s.mounts \ points => "/" \in u.mounts
         /\ s.mounts \subseteq Range(MountOrder) /\ "/" \in points \cap s.mounts => u.mounts = {}
<1> USE DEF SameSeals
<1> DEFINE gone == UNION {{m} \cup Below(m) : m \in points \cap s.mounts}
           u == Umounted(s, points)
<1>1. DOMAIN u = SysFields /\ u.luks = s.luks /\ u.dev = s.dev /\ SameSeals(u, s)
  BY DEF Umounted, SysFields
<1>2. u.mounts = s.mounts \ gone
  BY DEF Umounted, SysFields
<1>3. u.sysfs => s.sysfs
  BY DEF Umounted, SysFields
<1>4. points \cap s.mounts \subseteq gone
  OBVIOUS
<1>5. \A m : m # "/" => "/" \notin Below(m)
  BY DEF Below
<1>6. "/" \in points \cap s.mounts => Below("/") \subseteq gone
  OBVIOUS
<1>7. Below("/") = Range(MountOrder)
  BY DEF Below
<1>8. "/" \notin points => "/" \notin gone
  BY <1>5
<1> HIDE DEF u, gone
<1>9. u.mounts \subseteq s.mounts \ points
  BY <1>2, <1>4
<1>10. "/" \in s.mounts \ points => "/" \in u.mounts
  BY <1>2, <1>8
<1>11. s.mounts \subseteq Range(MountOrder) /\ "/" \in points \cap s.mounts => u.mounts = {}
  BY <1>2, <1>6, <1>7
<1> QED
  BY <1>1, <1>3, <1>9, <1>10, <1>11 DEF u

LEMMA Mounting ==
  ASSUME NEW s, DOMAIN s = SysFields, NEW r \in MountDiskToChroot(s)
  PROVE  /\ DOMAIN r.sys = SysFields /\ r.sys.luks = s.luks /\ r.sys.dev = s.dev /\ SameSeals(r.sys, s)
         /\ r.sys.mounts \subseteq s.mounts \cup MountPointInfoList
         /\ r.ok => r.sys.mounts = s.mounts \cup MountPointInfoList /\ MountPointInfoList # {}
         /\ ~r.ok => (r.sys.sysfs => s.sysfs)
         /\ ~r.ok /\ ~r.unclean => r.sys.mounts \subseteq s.mounts
<1> USE DEF SameSeals
<1> DEFINE list == MountPointInfoList
           with(points) == [s EXCEPT !.mounts = @ \cup points]
<1>1. \A points : /\ DOMAIN with(points) = SysFields /\ with(points).luks = s.luks /\ with(points).dev = s.dev /\ SameSeals(with(points), s)
                  /\ with(points).mounts = s.mounts \cup points /\ with(points).sysfs = s.sysfs
  BY DEF SysFields
<1>2. CASE r = [ok |-> FALSE, unclean |-> FALSE, sys |-> s]
  BY <1>2
<1>3. CASE r = [ok |-> TRUE, unclean |-> FALSE, sys |-> [with(list) EXCEPT !.sysfs = TRUE]] /\ list # {}
  BY <1>3, <1>1 DEF SysFields
<1>4. ASSUME NEW n \in 0..Len(MountOrder), NEW k \in 0..n,
             r = [ok |-> FALSE, unclean |-> list \cap First(k) # {},
                  sys |-> Umounted(with(list \cap First(n)), list \cap First(n) \cap From(k))]
      PROVE  /\ DOMAIN r.sys = SysFields /\ r.sys.luks = s.luks /\ r.sys.dev = s.dev /\ SameSeals(r.sys, s)
             /\ r.sys.mounts \subseteq s.mounts \cup list
             /\ ~r.ok /\ (r.sys.sysfs => s.sysfs)
             /\ ~r.unclean => r.sys.mounts \subseteq s.mounts
  <2> DEFINE up == with(list \cap First(n))
             points == list \cap First(n) \cap From(k)
  <2>1. k \in 0..10
    BY OrderIsFixed
  <2>2. list \subseteq First(k) \cup From(k)
    BY <2>1, OrderIsAll DEF MountPointInfoList
  <2>3. DOMAIN up = SysFields /\ up.luks = s.luks /\ up.dev = s.dev /\ SameSeals(up, s) /\ up.sysfs = s.sysfs
        /\ up.mounts = s.mounts \cup (list \cap First(n))
    BY <1>1
  <2>4. r.sys = Umounted(up, points) /\ r.unclean = (list \cap First(k) # {}) /\ r.ok = FALSE
    BY <1>4
  <2> HIDE DEF up, points
  <2>5. /\ DOMAIN r.sys = SysFields /\ r.sys.luks = up.luks /\ r.sys.dev = up.dev /\ SameSeals(r.sys, up)
        /\ r.sys.mounts \subseteq up.mounts \ points
        /\ r.sys.sysfs => up.sysfs
    BY <2>3, <2>4, UmountedLeaves
  <2> QED
    BY <2>2, <2>3, <2>4, <2>5 DEF points
<1> DEFINE rolledBack(n) ==
             {[ok |-> FALSE, unclean |-> list \cap First(k) # {},
               sys |-> Umounted(with(list \cap First(n)), list \cap First(n) \cap From(k))] : k \in 0..n}
<1>5. \/ r = [ok |-> FALSE, unclean |-> FALSE, sys |-> s]
      \/ r = [ok |-> TRUE, unclean |-> FALSE, sys |-> [with(list) EXCEPT !.sysfs = TRUE]] /\ list # {}
      \/ r \in UNION {rolledBack(n) : n \in 0..Len(MountOrder)}
  BY DEF MountDiskToChroot
<1>6. ASSUME NEW n \in 0..Len(MountOrder), r \in rolledBack(n)
      PROVE  /\ DOMAIN r.sys = SysFields /\ r.sys.luks = s.luks /\ r.sys.dev = s.dev /\ SameSeals(r.sys, s)
             /\ r.sys.mounts \subseteq s.mounts \cup list
             /\ ~r.ok /\ (r.sys.sysfs => s.sysfs)
             /\ ~r.unclean => r.sys.mounts \subseteq s.mounts
  BY <1>6, <1>4
<1> HIDE DEF rolledBack, with
<1>7. CASE \E n \in 0..Len(MountOrder) : r \in rolledBack(n)
  BY <1>6, <1>7
<1> QED
  BY <1>2, <1>3, <1>5, <1>7

LEMMA Unmounting ==
  ASSUME NEW s, DOMAIN s = SysFields, NEW list, NEW r \in UmountDiskFromChroot(s, list)
  PROVE  /\ DOMAIN r.sys = SysFields /\ r.sys.luks = s.luks /\ r.sys.dev = s.dev /\ SameSeals(r.sys, s)
         /\ r.sys.mounts \subseteq s.mounts
         /\ r.sys.sysfs => s.sysfs
         /\ r.ok => ~r.sys.sysfs /\ r.sys.mounts \cap list = {}
         /\ r.ok /\ "/" \in list \cap s.mounts /\ s.mounts \subseteq Range(MountOrder) => r.sys.mounts = {}
         /\ ~r.ok /\ "/" \in s.mounts => "/" \in r.sys.mounts
<1> USE DEF SameSeals
<1> DEFINE bare == [s EXCEPT !.sysfs = FALSE]
<1>1. /\ DOMAIN bare = SysFields /\ bare.luks = s.luks /\ bare.dev = s.dev /\ SameSeals(bare, s)
      /\ bare.mounts = s.mounts /\ ~bare.sysfs
  BY DEF SysFields
<1>2. CASE r = [ok |-> FALSE, sys |-> s]
  BY <1>2
<1>3. CASE r = [ok |-> TRUE, sys |-> Umounted(bare, list)]
  <2>1. r.sys = Umounted(bare, list) /\ r.ok
    BY <1>3
  <2> HIDE DEF bare
  <2> QED
    BY <1>1, <2>1, UmountedLeaves
<1>4. ASSUME NEW n \in {k \in 1..Len(MountOrder) : list \cap First(k) # {}},
             r = [ok |-> FALSE, sys |-> Umounted(bare, list \cap From(n))]
      PROVE  /\ DOMAIN r.sys = SysFields /\ r.sys.luks = s.luks /\ r.sys.dev = s.dev /\ SameSeals(r.sys, s)
             /\ r.sys.mounts \subseteq s.mounts /\ ~r.ok
             /\ r.sys.sysfs => s.sysfs
             /\ "/" \in s.mounts => "/" \in r.sys.mounts
  <2>1. r.sys = Umounted(bare, list \cap From(n)) /\ ~r.ok
    BY <1>4
  <2>2. "/" \notin From(n)
    BY OrderIsFixed DEF From
  <2> HIDE DEF bare
  <2>3. /\ DOMAIN r.sys = SysFields /\ r.sys.luks = bare.luks /\ r.sys.dev = bare.dev /\ SameSeals(r.sys, bare)
        /\ r.sys.mounts \subseteq bare.mounts
        /\ r.sys.sysfs => bare.sysfs
        /\ "/" \in bare.mounts \ (list \cap From(n)) => "/" \in r.sys.mounts
    BY <1>1, <2>1, UmountedLeaves
  <2> QED
    BY <1>1, <2>1, <2>2, <2>3
<1> QED
  BY <1>2, <1>3, <1>4 DEF UmountDiskFromChroot

-----------------------------------------------------------------------------
(* What the steps on the image leave alone: the stand-ins; and most of them    *)
(* its users, units, modules and kernels.                                     *)
Fields(r) == {"scaffold", "gen", "etc", "site", "tree", "kernels", "modules"} \subseteq DOMAIN r
Stands(r, q) == Fields(q) /\ q.scaffold = r.scaffold /\ q.gen = r.gen
Same(r, q) == Stands(r, q) /\ q.etc = r.etc /\ q.site = r.site /\ q.tree = r.tree /\ q.kernels = r.kernels
SameIfDone(r, x) == x # Refused => Same(r, x[1])

LEMMA KernelsKeep ==
  ASSUME NEW r, Fields(r)
  PROVE  /\ \A q \in FixKernelSymlinks(r) : Stands(r, q) /\ q.etc = r.etc /\ q.site = r.site /\ q.tree = r.tree
         /\ SameIfDone(r, EnsureDepmodForBootKernels(r))
         /\ \A k : SameIfDone(r, EnsureKernelModuleDependencies(r, k))
         /\ \A g, k, c : Same(r, Generated(r, g, k, c))
  BY DEF Fields, Same, Stands, SameIfDone, FixKernelSymlinks, EnsureDepmodForBootKernels, EnsureKernelModuleDependencies, Generated

LEMMA GrubKeeps ==
  ASSUME NEW r, Fields(r), NEW t0, NEW id, NEW boot, NEW prefix
  PROVE  SameIfDone(r, InstallGrub(r, id, boot, prefix, t0))
<1> DEFINE version == GetGrubVersion(r)
           stub == IF version = Refused THEN Refused
                   ELSE IF t0.bootType = "efi" THEN InstallGrubWithEfiMode(r, boot, prefix, version[1], t0)
                   ELSE IF t0.bootType = "legacy" THEN Refused
                   ELSE <<r>>
           options == IF stub = Refused THEN Refused ELSE UpdateBootConfigTemplate(stub[1], id, "", <<>>, t0)
           kernel == GetKernelVersionFromBoot(r)
           ready == IF options = Refused THEN Refused
                    ELSE IF ~t0.deb THEN options
                    ELSE IF kernel = Refused THEN Refused
                    ELSE UpdateInitramfsForGrub(options[1], kernel[1], t0)
<1>1. SameIfDone(r, stub)
  BY DEF InstallGrubWithEfiMode, SameIfDone, Same, Stands, Fields
<1>2. ASSUME NEW q, Same(r, q) PROVE SameIfDone(r, UpdateBootConfigTemplate(q, id, "", <<>>, t0))
  BY <1>2 DEF UpdateBootConfigTemplate, SameIfDone, Same, Stands, Fields, Refused
<1>3. ASSUME NEW q, Same(r, q), NEW k PROVE SameIfDone(r, UpdateInitramfsForGrub(q, k, t0))
  <2> DEFINE e == EnsureKernelModuleDependencies(q, k)
             content == {"base"} \cup IF t0.extra THEN {"extra"} ELSE {}
  <2>1. SameIfDone(q, e)
    BY <1>3, KernelsKeep DEF Same, Stands
  <2>2. ASSUME e # Refused, NEW g PROVE Same(r, Generated(e[1], g, k, content))
    <3>1. Same(q, e[1])
      BY <2>1, <2>2 DEF SameIfDone
    <3> HIDE DEF e, content
    <3>2. Fields(e[1])
      BY <3>1 DEF Same, Stands
    <3>3. Same(e[1], Generated(e[1], g, k, content))
      BY <3>2, KernelsKeep
    <3> QED
      BY <1>3, <3>1, <3>3 DEF Same, Stands
  <2>3. UpdateInitramfsForGrub(q, k, t0) \in {Refused, <<Generated(e[1], "update-initramfs", k, content)>>,
                                              <<Generated(e[1], "dracut", k, content)>>}
        /\ (e = Refused => UpdateInitramfsForGrub(q, k, t0) = Refused)
    BY DEF UpdateInitramfsForGrub
  <2> HIDE DEF e, content
  <2> QED
    BY <2>2, <2>3 DEF SameIfDone, Refused
<1> HIDE DEF stub
<1>4. SameIfDone(r, options)
  BY <1>1, <1>2 DEF SameIfDone
<1> HIDE DEF options
<1>5. SameIfDone(r, ready)
  BY <1>3, <1>4 DEF SameIfDone
<1>6. InstallGrub(r, id, boot, prefix, t0) = IF ready = Refused THEN Refused ELSE <<UpdateGrubConfig(ready[1], version[1])>>
  BY DEF InstallGrub, ready, options, stub
<1> HIDE DEF ready, version
<1> QED
  BY <1>5, <1>6 DEF SameIfDone, Same, Stands, Fields, UpdateGrubConfig

LEMMA BootKeeps ==
  ASSUME NEW r, Fields(r), NEW dev, NEW t0, NEW parts, NEW q \in InstallImageBoot(r, dev, t0, parts)
  PROVE  Same(r, q) /\ GetDiskPartByMountPoint("/", dev, parts) # {}
<1>1. CASE t0.provider = "grub"
  <2> DEFINE roots == GetDiskPartByMountPoint("/", dev, parts)
             boots == GetDiskPartByMountPoint("/boot", dev, parts)
             grub(id) == IF boots = {} THEN {InstallGrub(r, id, id, "/boot", t0)}
                         ELSE {InstallGrub(r, id, b, "", t0) : b \in boots}
  <2>1. q \in {x[1] : x \in (UNION {grub(id) : id \in roots}) \ {Refused}}
    BY <1>1 DEF InstallImageBoot
  <2>2. ASSUME NEW id, NEW x \in grub(id)
        PROVE  \E boot, prefix : x = InstallGrub(r, id, boot, prefix, t0)
    BY <2>2
  <2> HIDE DEF roots, grub
  <2>3. PICK x \in UNION {grub(id) : id \in roots} : x # Refused /\ q = x[1]
    BY <2>1
  <2>4. PICK id \in roots : x \in grub(id)
    BY <2>3
  <2>5. PICK boot, prefix : x = InstallGrub(r, id, boot, prefix, t0)
    BY <2>2, <2>4
  <2> QED
    BY <2>3, <2>4, <2>5, GrubKeeps DEF SameIfDone, roots
<1>2. CASE t0.provider = "systemd-boot"
  <2>1. PICK id \in GetDiskPartByMountPoint("/", dev, parts) : q \in InstallSystemdBoot(r, id, dev, t0, parts)
    BY <1>2 DEF InstallImageBoot
  <2>2. PICK h, pair : LET x == UpdateBootConfigTemplate(r, id, h, pair, t0) IN x # Refused /\ q = x[1]
    BY <2>1 DEF InstallSystemdBoot
  <2>3. SameIfDone(r, UpdateBootConfigTemplate(r, id, h, pair, t0))
    BY DEF UpdateBootConfigTemplate, SameIfDone, Same, Stands, Fields, Refused
  <2> QED
    BY <2>1, <2>2, <2>3 DEF SameIfDone
<1>3. t0.provider \in {"grub", "systemd-boot"}
  BY DEF InstallImageBoot
<1> QED
  BY <1>1, <1>2, <1>3

LEMMA ConfigureKeeps ==
  ASSUME NEW r, Fields(r), ConfigureImage(r) # Refused
  PROVE  LET q == ConfigureImage(r)[1] IN Stands(r, q) /\ q.etc = r.etc /\ q.tree = r.tree /\ q.kernels = r.kernels
<1> DEFINE mounted == IF IsDisk THEN UpdateImageFstab(r, sys.dev, t, Parts) ELSE r
<1>1. Same(r, mounted)
  BY DEF Same, Stands, Fields, UpdateImageFstab
<1> HIDE DEF mounted
<1>2. PICK site : ConfigureImage(r) = <<[mounted EXCEPT !.site = site]>>
  BY DEF ConfigureImage, mounted
<1>3. ConfigureImage(r)[1] = [mounted EXCEPT !.site = site]
  BY <1>2
<1> QED
  BY <1>1, <1>3 DEF Same, Stands, Fields

LEMMA SecureKeeps ==
  ASSUME NEW r, Fields(r), NEW t0
  PROVE  /\ Same(r, ConfigImageSecurity(r, t0))
         /\ \A dev, parts : SameIfDone(r, WireFDEBoot(r, dev, t0, parts))
         /\ \A k : SameIfDone(r, UpdateInitramfs(r, k, t0))
         /\ Same(r, PrepareESPDir(r))
         /\ \A pair : Same(r, GetVerityRootHash(r, pair))
         /\ \A ro : Same(r, WriteRoot(r, ro))
         /\ \A k, o : SameIfDone(r, BuildUKI(r, k, o, t0))
         /\ Same(r, CopyBootloader(r, t0))
         /\ SameIfDone(r, SignImage(r, t0))
<1>1. Same(r, ConfigImageSecurity(r, t0)) /\ Same(r, PrepareESPDir(r)) /\ Same(r, CopyBootloader(r, t0))
  BY DEF Same, Stands, Fields, ConfigImageSecurity, PrepareESPDir, CopyBootloader
<1>2. \A dev, parts : SameIfDone(r, WireFDEBoot(r, dev, t0, parts))
  BY DEF SameIfDone, Same, Stands, Fields, WireFDEBoot
<1>3. \A k : SameIfDone(r, UpdateInitramfs(r, k, t0))
  BY KernelsKeep DEF SameIfDone, UpdateInitramfs
<1>4. (\A pair : Same(r, GetVerityRootHash(r, pair))) /\ \A ro : Same(r, WriteRoot(r, ro))
  BY DEF Same, Stands, Fields, GetVerityRootHash, WriteRoot
<1>5. (\A k, o : SameIfDone(r, BuildUKI(r, k, o, t0))) /\ SameIfDone(r, SignImage(r, t0))
  BY DEF SameIfDone, Same, Stands, Fields, BuildUKI, SignImage
<1> QED
  BY <1>1, <1>2, <1>3, <1>4, <1>5

-----------------------------------------------------------------------------
(* Steps that take nothing and give nothing back.                            *)
SysKept == /\ DOMAIN sys' = SysFields
           /\ sys'.mounts = sys.mounts /\ sys'.sysfs = sys.sysfs /\ sys'.luks = sys.luks
           /\ DOMAIN sys'.dev = DOMAIN sys.dev
JobKept == /\ DOMAIN job' = DOMAIN job
           /\ job'.list = job.list /\ job'.opened = job.opened /\ job'.bare = job.bare
           /\ job'.halfway = job.halfway /\ (job.unclean => job'.unclean)

LEMMA ListKept ==
  ASSUME world' = world, DOMAIN sys'.dev = DOMAIN sys.dev
  PROVE  MountPointInfoList' = MountPointInfoList /\ HasRoot' = HasRoot
<1>1. MountPointInfoList' = MountPointInfoList
  BY DEF MountPointInfoList, MountableParts, Parts
<1> QED
  BY <1>1 DEF HasRoot

LEMMA QuietStep ==
  ASSUME InstallInv, world' = world, SysKept, JobKept, Stands(root, root'),
         pc \in OnRoot \cup {"configure", "users", "site", "sbom", "post"},
         pc' \in OnRoot \cup {"configure", "users", "site", "sbom", "post", "unwind"},
         pc' \in OnRoot => IsDisk,
         IsDisk /\ pc' \in Bootable \cup {"sbom"} => HasRoot,
         pc' \notin Encrypted => pc \notin Encrypted
  PROVE  InstallInv'
<1> USE DEF Installed, Ended
<1>1. MountPointInfoList' = MountPointInfoList /\ HasRoot' = HasRoot /\ IsDisk' = IsDisk /\ t' = t
  BY ListKept DEF SysKept, IsDisk, t
<1>2. CleanRoot' = CleanRoot
  BY DEF CleanRoot, Dummies, Same, Stands
<1>3. StageInv'
  BY <1>1 DEF InstallInv, StageInv, SysKept, JobKept, Same, Stands, Fields, SysFields, OnRoot, Stages, Untaken, Working
<1>4. UntakenInv'
  BY DEF InstallInv, UntakenInv, Untaken, OnRoot
<1>5. DiskInv'
  BY <1>1 DEF InstallInv, DiskInv, SysKept, JobKept, OnRoot, Working, Bootable
<1>6. DirectoryInv'
  BY <1>1 DEF InstallInv, DirectoryInv, SysKept, JobKept, OnRoot
<1>7. SysfsInv'
  BY <1>1 DEF InstallInv, SysfsInv, SysKept, JobKept, OnRoot
<1>8. LuksInv'
  BY <1>1 DEF InstallInv, LuksInv, SysKept, JobKept, OnRoot
<1>9. StandInInv'
  BY <1>1, <1>2 DEF InstallInv, StandInInv, JobKept, OnRoot, Untaken
<1> QED
  BY <1>3, <1>4, <1>5, <1>6, <1>7, <1>8, <1>9 DEF InstallInv

LEMMA GiveUpKeeps ==
  ASSUME InstallInv, GiveUp,
         pc \in OnRoot \cup {"configure", "users", "site", "sbom", "post", "mountroot", "bootstrap", "sysfs", "packages", "divert", "install"}
  PROVE  InstallInv'
<1> USE DEF Installed, Ended
<1>1. /\ world' = world /\ sys' = sys /\ root' = root /\ job' = [job EXCEPT !.failed = TRUE]
      /\ pc' = Unwinding
  BY DEF GiveUp, ImageGoto
<1>2. SysKept /\ JobKept /\ job'.failed
  BY <1>1 DEF SysKept, JobKept, InstallInv, StageInv, SysFields
<1>3. Same(root, root')
  BY <1>1 DEF Same, Stands, Fields, InstallInv, StageInv
<1>4. CASE pc \in OnRoot \cup {"configure", "users", "site", "sbom", "post"}
  <2>1. pc' = "unwind"
    BY <1>1, <1>4 DEF Unwinding, OnRoot
  <2> QED
    BY <1>1, <1>2, <1>3, <1>4, <2>1, QuietStep DEF Same, OnRoot, Bootable, Encrypted
<1>5. CASE pc \in {"mountroot", "bootstrap", "sysfs", "packages", "divert", "install"}
  <2>1. pc' = IF pc \in {"divert", "install"} /\ t.deb THEN "restore" ELSE "unwind"
    BY <1>1, <1>5 DEF Unwinding
  <2>2. MountPointInfoList' = MountPointInfoList /\ HasRoot' = HasRoot /\ IsDisk' = IsDisk /\ t' = t
    BY <1>1, <1>2, ListKept DEF SysKept, IsDisk, t
  <2>3. Dummies' = Dummies /\ CleanRoot' = CleanRoot
    BY <1>1 DEF CleanRoot, Dummies
  <2>4. StageInv'
    BY <1>1, <1>2, <1>5, <2>1, <2>2 DEF InstallInv, StageInv, SysKept, JobKept, Stages, Working, OnRoot
  <2>5. UntakenInv'
    BY <2>1 DEF UntakenInv, Untaken
  <2>6. DiskInv'
    <3>1. CASE pc' = "unwind"
      BY <1>2, <2>2, <3>1 DEF InstallInv, DiskInv, SysKept, JobKept, Working, OnRoot, Bootable
    <3>2. CASE pc' = "restore" /\ pc \in Working
      BY <1>2, <2>2, <3>2 DEF InstallInv, DiskInv, SysKept, JobKept, Working, OnRoot, Bootable
    <3> QED
      BY <1>5, <2>1, <3>1, <3>2 DEF Working
  <2>7. DirectoryInv'
    <3> DEFINE using == t.deb /\ pc \in {"divert", "install", "restore", "deinit"}
    <3>1. using => using'
      BY <1>5, <2>1, <2>2
    <3>2. using' => using
      BY <1>5, <2>1, <2>2
    <3>3. sys'.mounts = sys.mounts /\ job'.list = job.list /\ job'.halfway = job.halfway /\ job'.unclean = job.unclean
      BY <1>1 DEF InstallInv, StageInv
    <3>4. ~IsDisk => /\ job.list = {}
                     /\ sys.mounts \subseteq world.stale \cup IF job.halfway \/ job.unclean \/ using THEN {Repo} ELSE {}
      BY DEF InstallInv, DirectoryInv
    <3> QED
      BY <1>1, <2>2, <3>1, <3>2, <3>3, <3>4 DEF DirectoryInv
  <2>8. SysfsInv'
    BY <1>2, <2>1 DEF InstallInv, SysfsInv, SysKept, JobKept
  <2>9. LuksInv'
    BY <1>2, <1>5, <2>1, <2>2 DEF InstallInv, LuksInv, SysKept, JobKept, Encrypted
  <2>10. StandInInv'
    BY <1>1, <1>2, <1>5, <2>1, <2>2, <2>3 DEF InstallInv, StandInInv, Untaken, OnRoot
  <2> QED
    BY <2>4, <2>5, <2>6, <2>7, <2>8, <2>9, <2>10 DEF InstallInv
<1> QED
  BY <1>4, <1>5

\* A step that leaves the image's stand-ins alone, or gives up.
LEMMA DoneOrGivenUp ==
  ASSUME InstallInv, NEW x, NEW next, OrGiveUp(x, next), x # Refused => Stands(root, x[1]),
         pc \in OnRoot \cup {"configure", "users", "site", "sbom", "post"},
         next \in OnRoot \cup {"configure", "users", "site", "sbom", "post", "unwind"},
         next \in OnRoot => IsDisk,
         IsDisk /\ next \in Bootable \cup {"sbom"} => HasRoot,
         next \notin Encrypted => pc \notin Encrypted
  PROVE  InstallInv'
<1>1. CASE x = Refused
  BY <1>1, GiveUpKeeps DEF OrGiveUp
<1>2. CASE x # Refused
  <2>1. /\ root' = x[1] /\ pc' = next /\ world' = world /\ sys' = sys /\ job' = job
    BY <1>2 DEF OrGiveUp, RootBecomes, ImageGoto
  <2>2. SysKept /\ JobKept /\ Stands(root, root')
    BY <1>2, <2>1 DEF SysKept, JobKept, SysFields, InstallInv, StageInv, SameIfDone
  <2> QED
    BY <2>1, <2>2, QuietStep
<1> QED
  BY <1>1, <1>2

LEMMA RootStep ==
  ASSUME InstallInv, NEW r, NEW next, RootBecomes(r, next), Stands(root, r),
         pc \in OnRoot \cup {"configure", "users", "site", "sbom", "post"},
         next \in OnRoot \cup {"configure", "users", "site", "sbom", "post", "unwind"},
         next \in OnRoot => IsDisk,
         IsDisk /\ next \in Bootable \cup {"sbom"} => HasRoot,
         next \notin Encrypted => pc \notin Encrypted
  PROVE  InstallInv'
<1>1. /\ root' = r /\ pc' = next /\ world' = world /\ sys' = sys /\ job' = job
  BY DEF RootBecomes, ImageGoto
<1>2. SysKept /\ JobKept /\ Stands(root, root')
  BY <1>1 DEF SysKept, JobKept, SysFields, InstallInv, StageInv
<1> QED
  BY <1>1, <1>2, QuietStep

\* The root there is a mount point of, mounts: the template's own is no swap.
LEMMA RootIsListed ==
  ASSUME InstallInv, GetDiskPartByMountPoint("/", sys.dev, Parts) # {}
  PROVE  HasRoot
<1>1. PICK p \in Range(Parts) : p.mount = "/" /\ p.id \in DOMAIN sys.dev
  BY DEF GetDiskPartByMountPoint
<1>2. ~IsSwapFsType(p.fs)
  BY <1>1, ImageAssumption DEF InstallInv, StageInv, Parts
<1>3. p \in MountableParts
  BY <1>1, <1>2 DEF MountableParts, IsNonMountablePartition
<1> QED
  BY <1>1, <1>3, OrderIsFixed DEF HasRoot, MountPointInfoList

LEMMA ImageSteps ==
  ASSUME InstallInv,
         PrepareKernels \/ EnsureDepmod \/ AddImageAdditionalFiles \/ CreateNextUser \/ UsersCreated
         \/ UpdateImageConfig \/ InstallBoot \/ GenerateSBOM \/ SecureImage \/ RebuildInitramfs
         \/ HashRoot \/ InstallLoader \/ Sign \/ PostInstall
  PROVE  InstallInv'
<1>1. Fields(root) /\ Same(root, root) /\ (pc \in OnRoot => IsDisk)
  BY DEF InstallInv, StageInv, Fields, Same, Stands
<1>2. IsDisk /\ pc \in Bootable \cup {"sbom"} => HasRoot
  BY DEF InstallInv, DiskInv
<1>3. CASE PrepareKernels
  BY <1>1, <1>3, KernelsKeep, RootStep DEF PrepareKernels, OnRoot, Bootable, Encrypted
<1>4. CASE EnsureDepmod
  BY <1>1, <1>4, KernelsKeep, DoneOrGivenUp DEF Same, SameIfDone, EnsureDepmod, OnRoot, Bootable, Encrypted
<1>5. CASE UpdateImageConfig
  <2> DEFINE next == IF IsDisk THEN "boot" ELSE IF world.kind = "rootfs" THEN "sbom" ELSE "post"
  <2>1. pc = "site" /\ OrGiveUp(ConfigureImage(root), next)
    BY <1>5 DEF UpdateImageConfig
  <2>2. next \in {"boot", "sbom", "post"} /\ (next = "boot" <=> IsDisk)
    OBVIOUS
  <2> HIDE DEF next
  <2> QED
    BY <1>1, <2>1, <2>2, ConfigureKeeps, DoneOrGivenUp DEF OnRoot, Bootable, Encrypted
<1>6. CASE InstallBoot
  <2> DEFINE results == InstallImageBoot(root, sys.dev, t, Parts)
  <2>1. pc = "boot" /\ IF results = {} THEN GiveUp ELSE \E r \in results : RootBecomes(r, "sbom")
    BY <1>6 DEF InstallBoot
  <2>2. CASE results = {}
    BY <2>1, <2>2, GiveUpKeeps DEF OnRoot
  <2>3. CASE results # {}
    <3>1. PICK r \in results : RootBecomes(r, "sbom")
      BY <2>1, <2>3
    <3>2. Same(root, r) /\ HasRoot
      BY <1>1, BootKeeps, RootIsListed
    <3> QED
      BY <2>1, <3>1, <3>2, RootStep DEF Same, OnRoot, Encrypted
  <2> QED
    BY <2>2, <2>3
<1>7. CASE GenerateSBOM
  <2> DEFINE r == [root EXCEPT !.sbom = TRUE]
             next == IF IsDisk THEN "secure" ELSE "post"
  <2>1. pc = "sbom" /\ RootBecomes(r, next)
    BY <1>7 DEF GenerateSBOM
  <2>2. Same(root, r)
    BY <1>1 DEF Same, Stands, Fields
  <2>3. next \in {"secure", "post"} /\ (next = "secure" <=> IsDisk)
    OBVIOUS
  <2> HIDE DEF r, next
  <2> QED
    BY <1>2, <2>1, <2>2, <2>3, RootStep DEF Same, OnRoot, Bootable, Encrypted
<1>8. CASE SecureImage
  BY <1>1, <1>2, <1>8, SecureKeeps, RootStep DEF Same, SecureImage, OnRoot, Bootable, Encrypted
<1>9. CASE RebuildInitramfs
  <2> DEFINE k == GetKernelVersionFromBoot(root)
             r == IF k = Refused THEN Refused ELSE UpdateInitramfs(root, k[1], t)
             x == IF r = Refused THEN Refused ELSE <<PrepareESPDir(r[1])>>
             next == IF t.immutable THEN "verity" ELSE "ukify"
  <2>1. pc = "initramfs" /\ OrGiveUp(x, next)
    BY <1>9 DEF RebuildInitramfs
  <2>2. SameIfDone(root, r)
    BY <1>1, SecureKeeps DEF SameIfDone
  <2>3. r # Refused => Same(r[1], PrepareESPDir(r[1]))
    BY <2>2, SecureKeeps DEF SameIfDone, Same, Stands
  <2>4. next \in {"verity", "ukify"}
    OBVIOUS
  <2> HIDE DEF r, next
  <2>5. SameIfDone(root, x)
    BY <2>2, <2>3 DEF SameIfDone, Same, Stands
  <2> HIDE DEF x
  <2> QED
    BY <1>1, <1>2, <2>1, <2>4, <2>5, DoneOrGivenUp DEF Same, SameIfDone, OnRoot, Bootable, Encrypted
<1>10. CASE HashRoot
  BY <1>1, <1>2, <1>10, SecureKeeps, RootStep DEF Same, HashRoot, OnRoot, Bootable, Encrypted
<1>11. CASE InstallLoader
  BY <1>1, <1>2, <1>11, SecureKeeps, RootStep DEF Same, InstallLoader, OnRoot, Bootable, Encrypted
<1>12. CASE Sign
  BY <1>1, <1>2, <1>12, SecureKeeps, DoneOrGivenUp DEF Same, SameIfDone, Sign, OnRoot, Bootable, Encrypted
<1>13. CASE PostInstall
  <2>1. CASE t.os \in ReleaseNeeded /\ ~t.osRelease
    BY <1>13, <2>1, GiveUpKeeps DEF PostInstall
  <2>2. CASE ~(t.os \in ReleaseNeeded /\ ~t.osRelease)
    <3>1. RootBecomes(root, "unwind") /\ pc = "post"
      BY <1>13, <2>2 DEF PostInstall, RootBecomes
    <3> QED
      BY <1>1, <3>1, RootStep DEF Same, OnRoot, Bootable, Encrypted
  <2> QED
    BY <2>1, <2>2
<1>14. CASE AddImageAdditionalFiles
  <2> DEFINE r == [root EXCEPT !.site = Brought(@), !.etc.files = @ \cup t.files]
  <2>1. pc = "configure" /\ RootBecomes(r, "users")
    BY <1>14 DEF AddImageAdditionalFiles
  <2>2. Stands(root, r)
    BY <1>1 DEF Same, Stands, Fields
  <2> HIDE DEF r
  <2> QED
    BY <2>1, <2>2, RootStep DEF OnRoot, Bootable, Encrypted
<1>15. CASE UsersCreated
  <2>1. PICK r : pc = "users" /\ RootBecomes(r, "site") /\ Stands(root, r)
    BY <1>1, <1>15 DEF UsersCreated, Same, Stands, Fields
  <2> QED
    BY <2>1, RootStep DEF OnRoot, Bootable, Encrypted
<1>16. CASE CreateNextUser
  <2>1. CASE GiveUp
    BY <1>16, <2>1, GiveUpKeeps DEF CreateNextUser
  <2>2. ASSUME NEW etc, root' = [root EXCEPT !.etc = etc], job' = [job EXCEPT !.users = @ + 1],
               UNCHANGED <<sys, diskVars>>, pc = "users"
        PROVE  InstallInv'
    <3>1. pc' = pc /\ world' = world /\ SysKept
      BY <2>2 DEF diskVars, SysKept, SysFields, InstallInv, StageInv
    <3>2. JobKept /\ Stands(root, root')
      BY <1>1, <2>2 DEF JobKept, Same, Stands, Fields, InstallInv, StageInv
    <3> QED
      BY <2>2, <3>1, <3>2, QuietStep DEF OnRoot, Bootable, Encrypted
  <2> QED
    BY <1>16, <2>1, <2>2 DEF CreateNextUser
<1> QED
  BY <1>3, <1>4, <1>5, <1>6, <1>7, <1>8, <1>9, <1>10, <1>11, <1>12, <1>13, <1>14, <1>15, <1>16

-----------------------------------------------------------------------------
(* The disk's own steps come before anything is taken, or after it is back.   *)
LEMMA DiskPcs ==
  ASSUME DiskNext
  PROVE  /\ world' = world
         /\ \/ pc \in Untaken \ {"image", "mountroot"} /\ pc' \in (Untaken \ {"mountroot"}) \cup {"failed"}
            \/ Installed /\ (Installed' \/ pc' = "failed")
<1> USE DEF Goto, Fail, DiskBecomes, FirmwareBecomes, PartitionFails
<1>1. CASE SelectDisk \/ CheckLayout \/ WipePartitions \/ ReleaseDisk \/ WipeAgain \/ ForceTable
  BY <1>1 DEF SelectDisk, CheckLayout, WipePartitions, ReleaseDisk, WipeAgain, ForceTable, Untaken
<1>2. CASE CreatePartitionTable
  BY <1>2 DEF CreatePartitionTable, Untaken
<1>3. CASE CreateExtended
  BY <1>3 DEF CreateExtended, Untaken
<1>4. CASE CreatePartition
  BY <1>4 DEF CreatePartition, Untaken
<1>5. CASE InvalidIndexes \/ PartitionsCreated \/ CommandFails
  BY <1>5 DEF InvalidIndexes, PartitionsCreated, CommandFails, Untaken
<1>6. CASE UpdateBootOrder \/ CreateNewBootEntry \/ SetOrder \/ RemoveOldEntry \/ FirmwareFails
  BY <1>6 DEF UpdateBootOrder, CreateNewBootEntry, SetOrder, RemoveOldEntry, FirmwareFails, Installed
<1> QED
  BY <1>1, <1>2, <1>3, <1>4, <1>5, <1>6 DEF DiskNext

\* Nothing of a disk is mounted when the installation comes to it.
LEMMA NothingStale ==
  ASSUME InstallInv, IsDisk PROVE world.stale = {}
  BY ImageAssumption DEF InstallInv, StageInv, IsDisk

\* What the steps that change nothing of the image's need to say.
Unmoved == world' = world /\ sys' = sys /\ job' = job /\ root' = root

LEMMA UnmovedKeeps ==
  ASSUME Unmoved
  PROVE  /\ IsDisk' = IsDisk /\ t' = t /\ MountPointInfoList' = MountPointInfoList /\ HasRoot' = HasRoot
         /\ Dummies' = Dummies /\ CleanRoot' = CleanRoot
<1>1. MountPointInfoList' = MountPointInfoList /\ HasRoot' = HasRoot
  BY ListKept DEF Unmoved
<1> QED
  BY <1>1 DEF Unmoved, IsDisk, t, Dummies, CleanRoot

LEMMA DiskSteps ==
  ASSUME InstallInv, DiskNext, UNCHANGED imageVars
  PROVE  InstallInv'
<1>1. Unmoved
  BY DiskPcs DEF Unmoved, imageVars
<1>2. IsDisk' = IsDisk /\ t' = t /\ MountPointInfoList' = MountPointInfoList /\ HasRoot' = HasRoot
      /\ Dummies' = Dummies /\ CleanRoot' = CleanRoot
  BY <1>1, UnmovedKeeps
<1>3. CASE pc \in Untaken \ {"image", "mountroot"} /\ pc' \in (Untaken \ {"mountroot"}) \cup {"failed"}
  <2>1. /\ job.list = {} /\ job.opened = {} /\ ~job.bare /\ sys.mounts = world.stale /\ ~sys.sysfs
        /\ sys.luks = {} /\ CleanRoot
    BY <1>3 DEF InstallInv, UntakenInv, LuksInv, StandInInv, Untaken, Encrypted
  <2>2. StageInv'
    BY <1>1, <1>2, <1>3 DEF InstallInv, StageInv, Unmoved, Stages, Untaken, OnRoot
  <2>3. UntakenInv'
    BY <1>1, <2>1 DEF UntakenInv, Unmoved
  <2>4. DiskInv'
    BY <1>1, <1>2, <1>3, <2>1, NothingStale DEF DiskInv, Unmoved, Untaken, Working, OnRoot, Bootable
  <2>5. DirectoryInv'
    BY <1>1, <1>2, <2>1 DEF DirectoryInv, Unmoved
  <2>6. SysfsInv'
    BY <1>1, <1>2, <2>1, NothingStale DEF SysfsInv, Unmoved
  <2>7. LuksInv'
    BY <1>1, <2>1 DEF LuksInv, Unmoved
  <2>8. StandInInv'
    BY <1>1, <1>2, <1>3, <2>1 DEF StandInInv, Unmoved, Untaken, OnRoot
  <2> QED
    BY <2>2, <2>3, <2>4, <2>5, <2>6, <2>7, <2>8 DEF InstallInv
<1>4. CASE Installed /\ (Installed' \/ pc' = "failed")
  <2>2. StageInv'
    BY <1>1, <1>2, <1>4 DEF InstallInv, StageInv, Unmoved, Stages, OnRoot, Installed
  <2>3. UntakenInv'
    BY <1>4 DEF UntakenInv, Installed, Untaken
  <2>4. DiskInv'
    BY <1>1, <1>2, <1>4 DEF InstallInv, DiskInv, Unmoved, Working, OnRoot, Bootable, Installed
  <2>5. DirectoryInv'
    BY <1>1, <1>2, <1>4 DEF InstallInv, DirectoryInv, Unmoved, Installed
  <2>6. SysfsInv'
    BY <1>1, <1>2, <1>4 DEF InstallInv, SysfsInv, Unmoved, Installed
  <2>7. LuksInv'
    BY <1>1, <1>2, <1>4 DEF InstallInv, LuksInv, Unmoved, Installed, Ended, Encrypted
  <2>8. StandInInv'
    BY <1>1, <1>2, <1>4 DEF InstallInv, StandInInv, Unmoved, Installed, Untaken, OnRoot
  <2> QED
    BY <2>2, <2>3, <2>4, <2>5, <2>6, <2>7, <2>8 DEF InstallInv
<1> QED
  BY <1>3, <1>4, DiskPcs

-----------------------------------------------------------------------------
(* The steps that mount. *)
LEMMA StartKeeps ==
  ASSUME InstallInv, StartInstall PROVE InstallInv'
<1>1. /\ pc = "image" /\ world' = world /\ job' = job /\ root' = root
      /\ pc' = IF t.deb /\ IsDisk THEN "mountroot" ELSE IF t.deb THEN "bootstrap" ELSE IF IsDisk THEN "mount" ELSE "sysfs"
      /\ DOMAIN sys' = SysFields /\ sys'.mounts = sys.mounts /\ sys'.sysfs = sys.sysfs /\ sys'.luks = sys.luks
  BY DEF StartInstall, ImageGoto, InstallInv, StageInv, SysFields
<1>2. IsDisk' = IsDisk /\ t' = t /\ Dummies' = Dummies /\ CleanRoot' = CleanRoot
  BY <1>1 DEF IsDisk, t, Dummies, CleanRoot
<1>3. /\ job.list = {} /\ job.opened = {} /\ ~job.bare /\ sys.mounts = world.stale /\ ~sys.sysfs
      /\ sys.luks = {} /\ CleanRoot
  BY <1>1 DEF InstallInv, UntakenInv, LuksInv, StandInInv, Untaken, Encrypted
<1>4. StageInv'
  BY <1>1, <1>2 DEF InstallInv, StageInv, Stages, Untaken, OnRoot, SysFields
<1>5. UntakenInv'
  BY <1>1, <1>3 DEF UntakenInv
<1>6. DiskInv'
  BY <1>1, <1>2, <1>3, NothingStale DEF DiskInv, Working, OnRoot, Bootable
<1>7. DirectoryInv'
  BY <1>1, <1>2, <1>3 DEF DirectoryInv
<1>8. SysfsInv'
  BY <1>1, <1>3 DEF SysfsInv
<1>9. LuksInv'
  BY <1>1, <1>3 DEF LuksInv
<1>10. StandInInv'
  BY <1>1, <1>2, <1>3 DEF StandInInv, Untaken, OnRoot
<1> QED
  BY <1>4, <1>5, <1>6, <1>7, <1>8, <1>9, <1>10 DEF InstallInv

LEMMA MountRootKeeps ==
  ASSUME InstallInv, MountDiskRoot PROVE InstallInv'
<1>1. CASE GetDiskPartByMountPoint("/", sys.dev, Parts) = {}
  BY <1>1, GiveUpKeeps DEF MountDiskRoot
<1>2. CASE GetDiskPartByMountPoint("/", sys.dev, Parts) # {}
  <2>1. /\ pc = "mountroot" /\ pc' = "bootstrap" /\ world' = world /\ root' = root
        /\ sys' = MountPath(sys, "/") /\ job' = [job EXCEPT !.list = {"/"}]
    BY <1>2 DEF MountDiskRoot, ImageGoto
  <2>2. /\ job.list = {} /\ job.opened = {} /\ ~job.bare /\ sys.mounts = world.stale /\ ~sys.sysfs
        /\ sys.luks = {} /\ CleanRoot /\ IsDisk /\ t.deb /\ world.stale = {}
    BY <2>1, NothingStale DEF InstallInv, StageInv, UntakenInv, LuksInv, StandInInv, Untaken, Encrypted
  <2>3. /\ DOMAIN sys' = SysFields /\ sys'.mounts = sys.mounts \cup {"/"} /\ sys'.sysfs = sys.sysfs
        /\ sys'.luks = sys.luks /\ sys'.dev = sys.dev
    BY <2>1 DEF MountPath, InstallInv, StageInv, SysFields
  <2>4. /\ DOMAIN job' = DOMAIN job /\ job'.list = {"/"} /\ job'.opened = job.opened /\ job'.bare = job.bare
        /\ job'.halfway = job.halfway /\ job'.unclean = job.unclean /\ job'.failed = job.failed
    BY <2>1 DEF InstallInv, StageInv
  <2>5. IsDisk' = IsDisk /\ t' = t /\ HasRoot' = HasRoot /\ CleanRoot' = CleanRoot
    BY <2>1, <2>3, ListKept DEF IsDisk, t, CleanRoot, Dummies
  <2>6. HasRoot
    BY <1>2, RootIsListed
  <2>7. StageInv'
    BY <2>1, <2>2, <2>3, <2>4, <2>5 DEF InstallInv, StageInv, Stages, Untaken, OnRoot, SysFields
  <2>8. UntakenInv'
    BY <2>1 DEF UntakenInv, Untaken
  <2>9. DiskInv'
    BY <2>1, <2>2, <2>3, <2>4, <2>5, <2>6, OrderIsFixed DEF DiskInv, Working, OnRoot, Bootable
  <2>10. DirectoryInv' /\ SysfsInv'
    BY <2>1, <2>2, <2>3, <2>4, <2>5 DEF DirectoryInv, SysfsInv
  <2>11. LuksInv'
    BY <2>1, <2>2, <2>3, <2>4 DEF LuksInv
  <2>12. StandInInv'
    BY <2>1, <2>2, <2>5 DEF StandInInv, Untaken, OnRoot, Installed
  <2> QED
    BY <2>7, <2>8, <2>9, <2>10, <2>11, <2>12 DEF InstallInv
<1> QED
  BY <1>1, <1>2

LEMMA BootstrapKeeps ==
  ASSUME InstallInv, InitRootfsForDeb PROVE InstallInv'
<1> DEFINE s == IF t.wsl THEN PrepareInstallRoot(sys) ELSE sys
<1>1. /\ pc = "bootstrap" /\ world' = world /\ root' = root /\ sys' = s
      /\ \/ pc' = (IF IsDisk THEN "mount" ELSE "sysfs") /\ job' = job
         \/ pc' = "unwind" /\ job' = [job EXCEPT !.failed = TRUE]
  BY DEF InitRootfsForDeb, ImageGoto
<1>2. /\ DOMAIN sys' = SysFields /\ sys'.mounts \subseteq sys.mounts /\ (sys'.sysfs => sys.sysfs)
      /\ sys'.luks = sys.luks /\ sys'.dev = sys.dev
  BY <1>1 DEF PrepareInstallRoot, InstallInv, StageInv, SysFields
<1> HIDE DEF s
<1>3. JobKept
  BY <1>1 DEF JobKept, InstallInv, StageInv
<1>4. job'.failed = job.failed \/ job'.failed
  BY <1>1 DEF InstallInv, StageInv
<1>5. t.deb /\ sys.luks = {} /\ CleanRoot
  BY <1>1 DEF InstallInv, StageInv, LuksInv, StandInInv, Encrypted
<1>6. IsDisk' = IsDisk /\ t' = t /\ HasRoot' = HasRoot /\ CleanRoot' = CleanRoot
  BY <1>1, <1>2, ListKept DEF IsDisk, t, CleanRoot, Dummies
<1>7. IsDisk => sys.mounts \subseteq {"/"} /\ job.list = {"/"} /\ HasRoot
  BY <1>1, <1>5 DEF InstallInv, DiskInv
<1>8. StageInv'
  BY <1>1, <1>2, <1>3, <1>6 DEF InstallInv, StageInv, JobKept, Stages, Untaken, OnRoot, SysFields
<1>9. UntakenInv'
  BY <1>1 DEF UntakenInv, Untaken
<1>10. DiskInv'
  BY <1>1, <1>2, <1>3, <1>5, <1>6, <1>7, OrderIsFixed DEF DiskInv, JobKept, Working, OnRoot, Bootable
<1>11. DirectoryInv'
  <2>1. ~IsDisk => sys.mounts \subseteq world.stale \cup (IF job.halfway \/ job.unclean THEN {Repo} ELSE {}) /\ job.list = {}
    BY <1>1 DEF InstallInv, DirectoryInv
  <2> QED
    BY <1>1, <1>2, <1>3, <1>6, <2>1 DEF DirectoryInv, JobKept
<1>12. SysfsInv'
  BY <1>1, <1>2, <1>3 DEF InstallInv, SysfsInv, JobKept
<1>13. LuksInv'
  BY <1>1, <1>2, <1>3, <1>5 DEF LuksInv, JobKept
<1>14. StandInInv'
  BY <1>1, <1>5, <1>6 DEF StandInInv, Untaken, OnRoot, Installed
<1> QED
  BY <1>8, <1>9, <1>10, <1>11, <1>12, <1>13, <1>14 DEF InstallInv

LEMMA MountSysfsKeeps ==
  ASSUME InstallInv, MountSysfs PROVE InstallInv'
<1>1. /\ pc = "sysfs" /\ pc' = "packages" /\ world' = world /\ root' = root
      /\ sys' = [sys EXCEPT !.sysfs = TRUE] /\ job' = [job EXCEPT !.bare = TRUE]
  BY DEF MountSysfs, ImageGoto
<1>2. DOMAIN sys' = SysFields /\ sys'.mounts = sys.mounts /\ sys'.luks = sys.luks /\ sys'.dev = sys.dev
  BY <1>1 DEF InstallInv, StageInv, SysFields
<1>3. /\ DOMAIN job' = DOMAIN job /\ job'.list = job.list /\ job'.opened = job.opened /\ job'.bare
      /\ job'.halfway = job.halfway /\ job'.unclean = job.unclean
  BY <1>1 DEF InstallInv, StageInv
<1>4. IsDisk' = IsDisk /\ t' = t /\ CleanRoot' = CleanRoot
  BY <1>1 DEF IsDisk, t, CleanRoot, Dummies
<1>5. ~IsDisk /\ sys.luks = {} /\ CleanRoot
  BY <1>1 DEF InstallInv, StageInv, LuksInv, StandInInv, Encrypted
<1>6. job.list = {} /\ sys.mounts \subseteq world.stale \cup IF job.halfway \/ job.unclean THEN {Repo} ELSE {}
  BY <1>1, <1>5 DEF InstallInv, DirectoryInv
<1>7. StageInv'
  BY <1>1, <1>2, <1>3, <1>4 DEF InstallInv, StageInv, Stages, Working, Untaken, OnRoot, SysFields
<1>8. UntakenInv' /\ DiskInv' /\ DirectoryInv' /\ SysfsInv'
  BY <1>1, <1>2, <1>3, <1>4, <1>5, <1>6 DEF UntakenInv, DiskInv, DirectoryInv, SysfsInv, Untaken
<1>9. LuksInv'
  BY <1>1, <1>2, <1>3, <1>5 DEF LuksInv
<1>10. StandInInv'
  BY <1>1, <1>4, <1>5 DEF StandInInv, Untaken, OnRoot, Installed
<1> QED
  BY <1>7, <1>8, <1>9, <1>10 DEF InstallInv

LEMMA MountDiskKeeps ==
  ASSUME InstallInv, MountDisk PROVE InstallInv'
<1>1. PICK r \in MountDiskToChroot(sys) :
        /\ sys' = r.sys
        /\ job' = IF r.ok THEN [job EXCEPT !.list = MountPointInfoList]
                  ELSE [job EXCEPT !.failed = TRUE, !.unclean = @ \/ r.unclean]
        /\ pc' = IF r.ok THEN "packages" ELSE "unwind"
  BY DEF MountDisk, ImageGoto
<1>2. pc = "mount" /\ world' = world /\ root' = root
  BY DEF MountDisk, ImageGoto
<1>3. /\ DOMAIN r.sys = SysFields /\ r.sys.luks = sys.luks /\ r.sys.dev = sys.dev
      /\ r.sys.mounts \subseteq sys.mounts \cup MountPointInfoList
      /\ r.ok => r.sys.mounts = sys.mounts \cup MountPointInfoList /\ MountPointInfoList # {}
      /\ ~r.ok => (r.sys.sysfs => sys.sysfs)
      /\ ~r.ok /\ ~r.unclean => r.sys.mounts \subseteq sys.mounts
  BY Mounting DEF InstallInv, StageInv, SysFields
<1>4. IsDisk' = IsDisk /\ t' = t /\ MountPointInfoList' = MountPointInfoList /\ HasRoot' = HasRoot /\ CleanRoot' = CleanRoot
  BY <1>1, <1>2, <1>3, ListKept DEF IsDisk, t, CleanRoot, Dummies
<1>5. IsDisk /\ sys.luks = {} /\ CleanRoot
  BY <1>2 DEF InstallInv, StageInv, LuksInv, StandInInv, Encrypted
<1>6. /\ sys.mounts \subseteq Range(MountOrder) /\ MountPointInfoList \subseteq Range(MountOrder)
      /\ IF t.deb THEN sys.mounts \subseteq {"/"} /\ job.list = {"/"} /\ HasRoot ELSE sys.mounts = {}
  BY <1>2, <1>5 DEF InstallInv, DiskInv, MountPointInfoList
<1>7. CASE r.ok
  <2>1. /\ DOMAIN job' = DOMAIN job /\ job'.list = MountPointInfoList /\ job'.opened = job.opened /\ job'.bare = job.bare
        /\ job'.halfway = job.halfway /\ job'.unclean = job.unclean
    BY <1>1, <1>7 DEF InstallInv, StageInv
  <2>2. sys'.mounts = sys.mounts \cup MountPointInfoList /\ MountPointInfoList # {} /\ pc' = "packages"
    BY <1>1, <1>3, <1>7
  <2>3. sys'.mounts = MountPointInfoList
    BY <1>6, <2>2 DEF HasRoot
  <2>4. StageInv'
    BY <1>1, <1>2, <1>3, <1>4, <2>1, <2>2 DEF InstallInv, StageInv, Stages, Working, Untaken, OnRoot, SysFields
  <2>5. UntakenInv' /\ DirectoryInv' /\ SysfsInv'
    BY <1>4, <1>5, <2>1, <2>2 DEF UntakenInv, DirectoryInv, SysfsInv, Untaken
  <2>6. DiskInv'
    BY <1>4, <1>6, <2>1, <2>2, <2>3 DEF DiskInv, Bootable
  <2>7. LuksInv'
    BY <1>1, <1>3, <1>5, <2>1, <2>2 DEF LuksInv
  <2>8. StandInInv'
    BY <1>4, <1>5, <2>2 DEF StandInInv, Untaken, OnRoot, Installed
  <2> QED
    BY <2>4, <2>5, <2>6, <2>7, <2>8 DEF InstallInv
<1>8. CASE ~r.ok
  <2>1. /\ DOMAIN job' = DOMAIN job /\ job'.list = job.list /\ job'.opened = job.opened /\ job'.bare = job.bare
        /\ job'.halfway = job.halfway /\ job'.unclean = (job.unclean \/ r.unclean) /\ job'.failed
    BY <1>1, <1>8 DEF InstallInv, StageInv
  <2>2. pc' = "unwind"
    BY <1>1, <1>8
  <2>3. StageInv'
    BY <1>1, <1>2, <1>3, <1>4, <2>1, <2>2 DEF InstallInv, StageInv, Stages, Untaken, OnRoot, SysFields
  <2>4. UntakenInv' /\ DirectoryInv' /\ SysfsInv'
    BY <1>1, <1>3, <1>4, <1>5, <1>8, <2>1, <2>2 DEF InstallInv, UntakenInv, DirectoryInv, SysfsInv, Untaken
  <2>5. DiskInv'
    BY <1>1, <1>3, <1>4, <1>6, <1>8, <2>1, <2>2 DEF DiskInv, Bootable, Working, OnRoot
  <2>6. LuksInv'
    BY <1>1, <1>3, <1>5, <2>1, <2>2 DEF LuksInv
  <2>7. StandInInv'
    BY <1>4, <1>5, <2>1, <2>2 DEF StandInInv, Untaken, OnRoot, Installed
  <2> QED
    BY <2>3, <2>4, <2>5, <2>6, <2>7 DEF InstallInv
<1> QED
  BY <1>7, <1>8

-----------------------------------------------------------------------------
(* The packages: between them the mounts stay, but for the repository.       *)
LEMMA RepoKeeps ==
  ASSUME InstallInv, InitDebLocalRepo PROVE InstallInv'
<1>1. /\ pc = "packages" /\ t.deb /\ world' = world /\ sys' = MountPath(sys, Repo)
      /\ \/ /\ root' = [root EXCEPT !.scaffold = {"local.list", "policy-rc.d"}] /\ pc' = "divert"
            /\ job' = [job EXCEPT !.packages = GetDebPkgInstallList(t.packages)]
         \/ /\ root' = [root EXCEPT !.scaffold = {"local.list"}] /\ pc' = "unwind"
            /\ job' = [job EXCEPT !.failed = TRUE, !.halfway = TRUE]
  BY DEF InitDebLocalRepo, ImageGoto
<1>2. /\ DOMAIN sys' = SysFields /\ sys'.mounts = sys.mounts \cup {Repo} /\ sys'.sysfs = sys.sysfs
      /\ sys'.luks = sys.luks /\ sys'.dev = sys.dev
  BY <1>1 DEF MountPath, InstallInv, StageInv, SysFields
<1>3. /\ DOMAIN job' = DOMAIN job /\ job'.list = job.list /\ job'.opened = job.opened /\ job'.bare = job.bare
      /\ (job.halfway => job'.halfway) /\ job'.unclean = job.unclean
      /\ pc' = "unwind" => job'.failed /\ job'.halfway
  BY <1>1 DEF InstallInv, StageInv
<1>4. IsDisk' = IsDisk /\ t' = t /\ MountPointInfoList' = MountPointInfoList /\ HasRoot' = HasRoot
  BY <1>1, <1>2, ListKept DEF IsDisk, t
<1>5. /\ {"scaffold", "gen", "etc", "site", "tree", "kernels", "modules"} \subseteq DOMAIN root' /\ root'.gen = root.gen
      /\ root'.scaffold \subseteq LocalRepo
  BY <1>1 DEF InstallInv, StageInv, LocalRepo
<1>6. sys.luks = {} /\ CleanRoot /\ Dummies' = Dummies
  BY <1>1, <1>5 DEF InstallInv, LuksInv, StandInInv, Encrypted, Dummies
<1>7. IsDisk => /\ sys.mounts \subseteq Range(MountOrder) /\ job.list = MountPointInfoList /\ HasRoot /\ "/" \in sys.mounts
  BY <1>1 DEF InstallInv, DiskInv, Working, HasRoot
<1>8. StageInv'
  BY <1>1, <1>2, <1>3, <1>4, <1>5 DEF InstallInv, StageInv, Stages, Working, Untaken, OnRoot, SysFields
<1>9. UntakenInv'
  BY <1>1 DEF UntakenInv, Untaken
<1>10. DiskInv'
  BY <1>1, <1>2, <1>3, <1>4, <1>7, OrderIsFixed DEF DiskInv, HasRoot
<1>11. DirectoryInv'
  BY <1>1, <1>2, <1>3, <1>4 DEF InstallInv, DirectoryInv
<1>12. SysfsInv'
  BY <1>1, <1>2, <1>3 DEF InstallInv, SysfsInv
<1>13. LuksInv'
  BY <1>1, <1>2, <1>3, <1>6 DEF LuksInv
<1>14. StandInInv'
  BY <1>1, <1>3, <1>5, <1>6 DEF StandInInv, CleanRoot, Untaken, OnRoot, Installed
<1> QED
  BY <1>8, <1>9, <1>10, <1>11, <1>12, <1>13, <1>14 DEF InstallInv

\* A step between two packages' stages leaves the host as it is.
LEMMA HostKept ==
  ASSUME InstallInv, world' = world, sys' = sys, JobKept, Fields(root)',
         pc \in {"packages", "divert", "install", "restore"},
         pc' \in {"install", "restore", "deinit", "kernels", "configure"},
         pc' = "kernels" => IsDisk, pc' \in {"restore", "deinit"} => t.deb,
         pc' \in {"kernels", "configure"} => ~t.deb, pc' = "install" /\ t.deb => pc # "packages",
         pc = "restore" => pc' = "deinit"
  PROVE  StageInv' /\ UntakenInv' /\ DiskInv' /\ DirectoryInv' /\ SysfsInv' /\ LuksInv'
<1>1. IsDisk' = IsDisk /\ t' = t /\ MountPointInfoList' = MountPointInfoList /\ HasRoot' = HasRoot
  BY ListKept DEF IsDisk, t
<1>2. StageInv'
  BY <1>1 DEF InstallInv, StageInv, JobKept, Fields, Stages, Working, Untaken, OnRoot
<1>3. UntakenInv'
  BY DEF UntakenInv, Untaken
<1>4. DiskInv'
  BY <1>1 DEF InstallInv, DiskInv, JobKept, Working, OnRoot, Bootable
<1>5. DirectoryInv'
  BY <1>1 DEF InstallInv, DirectoryInv, StageInv, JobKept
<1>6. SysfsInv' /\ LuksInv'
  BY <1>1 DEF InstallInv, SysfsInv, LuksInv, JobKept, Encrypted, Ended, Installed
<1> QED
  BY <1>2, <1>3, <1>4, <1>5, <1>6

LEMMA RpmDbKeeps ==
  ASSUME InstallInv, InitImageRpmDb PROVE InstallInv'
<1>1. /\ pc = "packages" /\ ~t.deb /\ pc' = "install" /\ world' = world /\ sys' = sys /\ root' = root
      /\ job' = [job EXCEPT !.packages = GetRpmPkgInstallList(t.packages)]
  BY DEF InitImageRpmDb, ImageGoto
<1>2. JobKept /\ Fields(root)' /\ t' = t
  BY <1>1 DEF JobKept, Fields, InstallInv, StageInv, t
<1>3. StageInv' /\ UntakenInv' /\ DiskInv' /\ DirectoryInv' /\ SysfsInv' /\ LuksInv'
  BY <1>1, <1>2, HostKept
<1>4. StandInInv'
  BY <1>1, <1>2 DEF InstallInv, StandInInv, CleanRoot, Dummies, Untaken, OnRoot, Installed
<1> QED
  BY <1>3, <1>4 DEF InstallInv

LEMMA DivertKeeps ==
  ASSUME InstallInv, PrepareInitramfsBinaries PROVE InstallInv'
<1>1. PICK diverted, backups :
        /\ job' = [job EXCEPT !.diverted = diverted, !.backups = backups]
        /\ root' = [root EXCEPT !.gen = Over(@, [b \in diverted \cup backups |-> "dummy"])]
  BY DEF PrepareInitramfsBinaries
<1>2. pc = "divert" /\ pc' = "install" /\ world' = world /\ sys' = sys
  BY DEF PrepareInitramfsBinaries, ImageGoto
<1>3. JobKept /\ Fields(root)' /\ t' = t /\ t.deb
  BY <1>1, <1>2 DEF JobKept, Fields, InstallInv, StageInv, t
<1>4. StageInv' /\ UntakenInv' /\ DiskInv' /\ DirectoryInv' /\ SysfsInv' /\ LuksInv'
  BY <1>2, <1>3, HostKept
<1>5. root'.scaffold \subseteq LocalRepo
  BY <1>1, <1>2 DEF InstallInv, StageInv, StandInInv
<1>6. Dummies' \subseteq job'.diverted \cup job'.backups
  <2>1. root'.gen = Over(root.gen, [b \in diverted \cup backups |-> "dummy"])
    BY <1>1 DEF InstallInv, StageInv
  <2>2. job'.diverted = diverted /\ job'.backups = backups
    BY <1>1 DEF InstallInv, StageInv
  <2>3. Dummies = {}
    BY <1>2 DEF InstallInv, StandInInv
  <2> QED
    BY <2>1, <2>2, <2>3 DEF Dummies, Over
<1>7. StandInInv'
  BY <1>2, <1>3, <1>5, <1>6 DEF StandInInv, Untaken, OnRoot, Installed
<1> QED
  BY <1>4, <1>7 DEF InstallInv

LEMMA PackageKeeps ==
  ASSUME InstallInv, InstallPackage PROVE InstallInv'
<1>1. /\ pc = "install" /\ pc' = pc /\ world' = world /\ sys' = sys
      /\ job' = [job EXCEPT !.packages = Tail(@)]
      /\ root' = [root EXCEPT !.scaffold = @ \cup IF t.deb /\ Head(job.packages) = "apparmor" THEN {"wrapper"} ELSE {}]
  BY DEF InstallPackage, diskVars
<1>2. /\ JobKept /\ Fields(root)' /\ t' = t
      /\ job'.diverted = job.diverted /\ job'.backups = job.backups
      /\ root'.gen = root.gen /\ root'.scaffold \subseteq root.scaffold \cup IF t.deb THEN {"wrapper"} ELSE {}
  BY <1>1 DEF JobKept, Fields, InstallInv, StageInv, t
<1>3. StageInv' /\ UntakenInv' /\ DiskInv' /\ DirectoryInv' /\ SysfsInv' /\ LuksInv'
  BY <1>1, <1>2, HostKept
<1>4. StandInInv'
  BY <1>1, <1>2 DEF InstallInv, StandInInv, Dummies, Untaken, OnRoot, Installed
<1> QED
  BY <1>3, <1>4 DEF InstallInv

LEMMA InstalledKeeps ==
  ASSUME InstallInv, PackagesInstalled PROVE InstallInv'
<1> DEFINE brought == t.provides \ job.diverted
<1>1. /\ pc = "install" /\ world' = world /\ sys' = sys /\ job' = job
      /\ pc' = IF t.deb THEN "restore" ELSE IF IsDisk THEN "kernels" ELSE "configure"
      /\ root' = [root EXCEPT !.scaffold = @ \ {"wrapper"}, !.kernels = t.boot, !.modules = t.trees,
                              !.gen = Over(@, [b \in brought |-> "real"])]
  BY DEF PackagesInstalled, ImageGoto
<1>2. JobKept /\ Fields(root)' /\ t' = t
  BY <1>1 DEF JobKept, Fields, InstallInv, StageInv, t
<1>3. StageInv' /\ UntakenInv' /\ DiskInv' /\ DirectoryInv' /\ SysfsInv' /\ LuksInv'
  BY <1>1, <1>2, HostKept
<1>4. /\ root'.scaffold = root.scaffold \ {"wrapper"}
      /\ root'.gen = Over(root.gen, [b \in brought |-> "real"])
  BY <1>1 DEF InstallInv, StageInv
<1>5. Dummies' \subseteq Dummies
  BY <1>4 DEF Dummies, Over
<1>6. StandInInv'
  BY <1>1, <1>2, <1>4, <1>5 DEF InstallInv, StandInInv, CleanRoot, Untaken, OnRoot, Installed
<1> QED
  BY <1>3, <1>6 DEF InstallInv

LEMMA RestoreKeeps ==
  ASSUME InstallInv, RestoreInitramfsBinaries PROVE InstallInv'
<1> DEFINE taken == job.diverted \cup job.backups
           restored(b, lost) == IF b \in job.backups /\ b \in lost THEN "dummy"
                                ELSE IF b \in job.backups THEN "real"
                                ELSE IF b \in lost \/ b \notin t.provides THEN "absent"
                                ELSE "real"
<1>1. PICK lost :
        /\ root' = [root EXCEPT !.gen = Over(@, [b \in taken |-> restored(b, lost)])]
        /\ job' = [job EXCEPT !.unclean = @ \/ lost \cap taken # {}]
  BY DEF RestoreInitramfsBinaries
<1>2. pc = "restore" /\ pc' = "deinit" /\ world' = world /\ sys' = sys
  BY DEF RestoreInitramfsBinaries, ImageGoto
<1>3. /\ JobKept /\ Fields(root)' /\ t' = t /\ t.deb /\ job'.failed = job.failed
      /\ job'.unclean = (job.unclean \/ lost \cap taken # {})
  BY <1>1, <1>2 DEF JobKept, Fields, InstallInv, StageInv, t
<1>4. StageInv' /\ UntakenInv' /\ DiskInv' /\ DirectoryInv' /\ SysfsInv' /\ LuksInv'
  BY <1>2, <1>3, HostKept
<1>5. root'.scaffold = root.scaffold /\ root'.gen = Over(root.gen, [b \in taken |-> restored(b, lost)])
  BY <1>1 DEF InstallInv, StageInv
<1>6. Dummies \subseteq taken
  BY <1>2 DEF InstallInv, StandInInv
<1>7. ~job'.unclean => Dummies' = {}
  <2>1. ASSUME lost \cap taken = {}, NEW b \in taken PROVE restored(b, lost) # "dummy"
    BY <2>1
  <2> HIDE DEF taken, restored
  <2>2. \A b \in DOMAIN root'.gen : root'.gen[b] = IF b \in taken THEN restored(b, lost) ELSE root.gen[b]
    BY <1>5 DEF Over
  <2>3. DOMAIN root'.gen = DOMAIN root.gen \cup taken
    BY <1>5 DEF Over
  <2>4. \A b \in DOMAIN root.gen : root.gen[b] = "dummy" => b \in taken
    BY <1>6 DEF Dummies
  <2>5. ASSUME ~job'.unclean, NEW b \in DOMAIN root'.gen PROVE root'.gen[b] # "dummy"
    BY <1>3, <2>1, <2>2, <2>3, <2>4, <2>5
  <2> QED
    BY <2>5 DEF Dummies
<1>8. StandInInv'
  BY <1>2, <1>3, <1>5, <1>7 DEF InstallInv, StandInInv, Untaken, OnRoot, Installed
<1> QED
  BY <1>4, <1>8 DEF InstallInv

LEMMA DeInitKeeps ==
  ASSUME InstallInv, DeInitDebLocalRepo PROVE InstallInv'
<1> USE DEF Installed
<1>1. pc = "deinit" /\ world' = world /\ t.deb /\ DOMAIN sys = SysFields
  BY DEF DeInitDebLocalRepo, ImageGoto, InstallInv, StageInv, SysFields
<1>2. /\ sys.luks = {} /\ (job.unclean \/ Dummies = {}) /\ (job.failed \/ root.scaffold \subseteq LocalRepo)
  BY <1>1 DEF InstallInv, LuksInv, StandInInv, Encrypted
<1>3. IsDisk => /\ sys.mounts \subseteq Range(MountOrder) /\ job.list = MountPointInfoList /\ HasRoot
                /\ "/" \in job.list \cap sys.mounts
  BY <1>1 DEF InstallInv, DiskInv, Working, HasRoot
<1>4. ~IsDisk => job.list = {} /\ sys.mounts \subseteq world.stale \cup {Repo}
  BY DEF InstallInv, DirectoryInv
<1>5. "/" # Repo
  BY DEF Repo
<1>6. CASE /\ sys' = UmountPath(sys, Repo) /\ root' = [root EXCEPT !.scaffold = @ \ {"local.list", "policy-rc.d"}]
           /\ pc' = (IF job.failed THEN "unwind" ELSE IF IsDisk THEN "kernels" ELSE "configure") /\ job' = job
  <2>1. /\ DOMAIN sys' = SysFields /\ sys'.luks = sys.luks /\ sys'.dev = sys.dev
        /\ sys'.mounts \subseteq sys.mounts \ {Repo} /\ (sys'.sysfs => sys.sysfs)
        /\ "/" \in sys.mounts => "/" \in sys'.mounts
    BY <1>1, <1>5, <1>6, UmountedLeaves DEF UmountPath
  <2>2. IsDisk' = IsDisk /\ t' = t /\ MountPointInfoList' = MountPointInfoList /\ HasRoot' = HasRoot
    BY <1>1, <2>1, ListKept DEF IsDisk, t
  <2>3. /\ {"scaffold", "gen", "etc", "site", "tree", "kernels", "modules"} \subseteq DOMAIN root' /\ Dummies' = Dummies
        /\ root'.scaffold = root.scaffold \ {"local.list", "policy-rc.d"}
    BY <1>6 DEF InstallInv, StageInv, Dummies
  <2>4. StageInv'
    BY <1>1, <1>6, <2>1, <2>2, <2>3 DEF InstallInv, StageInv, Stages, Working, Untaken, OnRoot, SysFields
  <2>5. UntakenInv'
    BY <1>6 DEF UntakenInv, Untaken
  <2>6. DiskInv'
    BY <1>3, <1>6, <2>1, <2>2 DEF DiskInv, Working, OnRoot, Bootable
  <2>7. DirectoryInv'
    BY <1>1, <1>4, <1>6, <2>1, <2>2 DEF DirectoryInv
  <2>8. SysfsInv'
    BY <1>6, <2>1 DEF InstallInv, SysfsInv
  <2>9. LuksInv'
    BY <1>2, <1>6, <2>1, <2>2 DEF LuksInv, Ended
  <2>10. StandInInv'
    BY <1>2, <1>6, <2>2, <2>3 DEF StandInInv, CleanRoot, LocalRepo, Untaken, OnRoot
  <2> QED
    BY <2>4, <2>5, <2>6, <2>7, <2>8, <2>9, <2>10 DEF InstallInv
<1>7. ASSUME NEW mounted \in {{}, {Repo}}, sys' = [sys EXCEPT !.mounts = (@ \ {Repo}) \cup mounted],
             job' = [job EXCEPT !.failed = TRUE, !.unclean = TRUE], pc' = "unwind", root' = root
      PROVE  InstallInv'
  <2>1. /\ DOMAIN sys' = SysFields /\ sys'.luks = sys.luks /\ sys'.dev = sys.dev /\ sys'.sysfs = sys.sysfs
        /\ sys'.mounts \subseteq sys.mounts \cup {Repo}
    BY <1>1, <1>7 DEF SysFields
  <2>2. IsDisk' = IsDisk /\ t' = t
    BY <1>1 DEF IsDisk, t
  <2>3. /\ DOMAIN job' = DOMAIN job /\ job'.list = job.list /\ job'.opened = job.opened /\ job'.bare = job.bare
        /\ job'.unclean /\ job'.failed
    BY <1>7 DEF InstallInv, StageInv
  <2>4. StageInv'
    BY <1>1, <1>7, <2>1, <2>2, <2>3 DEF InstallInv, StageInv, Stages, Untaken, OnRoot, SysFields
  <2>5. UntakenInv'
    BY <1>7 DEF UntakenInv, Untaken
  <2>6. DiskInv'
    BY <1>3, <1>7, <2>1, <2>2, <2>3, OrderIsFixed DEF DiskInv, Working, OnRoot, Bootable
  <2>7. DirectoryInv'
    BY <1>1, <1>4, <2>1, <2>2, <2>3 DEF DirectoryInv
  <2>8. SysfsInv'
    BY <1>7, <2>1, <2>3 DEF InstallInv, SysfsInv
  <2>9. LuksInv' /\ StandInInv'
    BY <1>2, <1>7, <2>1, <2>3 DEF LuksInv, StandInInv, Untaken, OnRoot, Encrypted
  <2> QED
    BY <2>4, <2>5, <2>6, <2>7, <2>8, <2>9 DEF InstallInv
<1> QED
  BY <1>1, <1>6, <1>7 DEF DeInitDebLocalRepo, ImageGoto

LEMMA DkmsKeeps ==
  ASSUME InstallInv, BuildDkms PROVE InstallInv'
<1>1. pc = "dkms" /\ world' = world /\ IsDisk /\ Fields(root)
  BY DEF BuildDkms, ImageGoto, GiveUp, InstallInv, StageInv, OnRoot, Fields
<1>2. CASE GiveUp
  BY <1>1, <1>2, GiveUpKeeps DEF OnRoot
<1>3. CASE ImageGoto("depmod") /\ UNCHANGED <<sys, job, root>>
  BY <1>1, <1>3, RootStep DEF RootBecomes, Same, Stands, OnRoot, Bootable, Encrypted
<1>4. ASSUME NEW tree, root' = [root EXCEPT !.tree = tree], UNCHANGED sys, pc' \in {"dkms", "unwind"},
             job' = [job EXCEPT !.kernels = @ + 1] \/ job' = [job EXCEPT !.failed = TRUE]
      PROVE  InstallInv'
  <2>1. SysKept /\ JobKept /\ Stands(root, root')
    BY <1>1, <1>4 DEF SysKept, JobKept, Same, Stands, Fields, InstallInv, StageInv, SysFields
  <2> QED
    BY <1>1, <1>4, <2>1, QuietStep DEF OnRoot, Bootable, Encrypted
<1> QED
  BY <1>1, <1>2, <1>3, <1>4 DEF BuildDkms, ImageGoto

-----------------------------------------------------------------------------
(* Encryption: what is open is remembered, and closed once nothing uses it.   *)
LEMMA Closing ==
  ASSUME NEW s, DOMAIN s = SysFields, NEW ids
  PROVE  LET c == CloseLuksMappers(s, ids) IN
         /\ DOMAIN c = SysFields /\ c.mounts = s.mounts /\ c.sysfs = s.sysfs /\ c.dev = s.dev /\ SameSeals(c, s)
         /\ c.luks \subseteq s.luks
         /\ s.mounts = {} /\ s.luks \subseteq ids => c.luks = {}
<1> USE DEF SameSeals
<1> DEFINE c == CloseLuksMappers(s, ids)
<1>1. /\ DOMAIN c = SysFields /\ c.mounts = s.mounts /\ c.sysfs = s.sysfs /\ c.dev = s.dev /\ SameSeals(c, s)
      /\ c.luks = {id \in s.luks : id \in ids => LuksInUse(s, id)}
  BY DEF CloseLuksMappers, SysFields
<1>2. s.mounts = {} => \A id : ~LuksInUse(s, id)
  BY DEF LuksInUse
<1> HIDE DEF c
<1> QED
  BY <1>1, <1>2 DEF c

\* On the way to the last unmount, after an encryption that failed.
LEMMA FailedEncryption ==
  ASSUME InstallInv, pc = "encrypt", pc' = "unwind", world' = world, root' = root,
         DOMAIN sys' = SysFields, sys'.sysfs => sys.sysfs,
         sys'.mounts \subseteq Range(MountOrder),
         DOMAIN job' = DOMAIN job, job'.list = job.list, job'.bare = job.bare, job'.failed,
         job.unclean => job'.unclean,
         ~job'.unclean => sys'.mounts = {} /\ sys'.luks = {}
  PROVE  InstallInv'
<1>1. IsDisk /\ IsDisk' = IsDisk /\ t' = t
  BY DEF InstallInv, StageInv, IsDisk, t
<1>2. StageInv'
  BY <1>1 DEF InstallInv, StageInv, Stages, Untaken, OnRoot, SysFields
<1>3. UntakenInv' /\ DirectoryInv' /\ StandInInv'
  BY <1>1 DEF UntakenInv, DirectoryInv, StandInInv, Untaken, OnRoot, Installed
<1>4. DiskInv'
  BY <1>1 DEF DiskInv, Working, OnRoot, Bootable
<1>5. SysfsInv'
  BY DEF InstallInv, SysfsInv
<1>6. LuksInv'
  BY <1>1 DEF LuksInv, Encrypted, Ended, Installed
<1> QED
  BY <1>2, <1>3, <1>4, <1>5, <1>6 DEF InstallInv

LEMMA AbandonKeeps ==
  ASSUME InstallInv, pc = "encrypt", NEW s, NEW opened, AbandonFDE(s, opened),
         DOMAIN s = SysFields, s.mounts = sys.mounts, s.sysfs = sys.sysfs,
         ~job.unclean => s.luks \subseteq opened
  PROVE  InstallInv'
<1> DEFINE c == CloseLuksMappers(s, opened)
<1>1. PICK stuck \in {{}, s.luks} :
        /\ sys' = [c EXCEPT !.luks = @ \cup stuck]
        /\ job' = [job EXCEPT !.failed = TRUE, !.opened = {}, !.targets = <<>>, !.unclean = @ \/ (stuck # {})]
  BY DEF AbandonFDE
<1>2. pc' = "unwind" /\ world' = world /\ root' = root
  BY DEF AbandonFDE, ImageGoto
<1>3. /\ DOMAIN c = SysFields /\ c.mounts = s.mounts /\ c.sysfs = s.sysfs
      /\ c.luks \subseteq s.luks
      /\ s.mounts = {} /\ s.luks \subseteq opened => c.luks = {}
  BY Closing
<1> HIDE DEF c
<1>4. /\ DOMAIN sys' = SysFields /\ sys'.mounts = sys.mounts /\ sys'.sysfs = sys.sysfs
      /\ sys'.luks = c.luks \cup stuck
  BY <1>1, <1>3 DEF SysFields
<1>5. /\ DOMAIN job' = DOMAIN job /\ job'.list = job.list /\ job'.bare = job.bare /\ job'.failed
      /\ job'.unclean = (job.unclean \/ stuck # {})
  BY <1>1 DEF InstallInv, StageInv
<1>6. sys.mounts \subseteq Range(MountOrder) /\ (~job.unclean => sys.mounts = {})
  BY DEF InstallInv, StageInv, DiskInv
<1> QED
  BY <1>2, <1>3, <1>4, <1>5, <1>6, FailedEncryption

LEMMA EnableKeeps ==
  ASSUME InstallInv, EnableFDE PROVE InstallInv'
<1> USE DEF Installed, Ended
<1>1. pc = "fde" /\ IsDisk /\ HasRoot /\ Fields(root)
  BY DEF EnableFDE, InstallInv, StageInv, DiskInv, OnRoot, Bootable, Fields
<1>2. CASE ImageGoto("wire") /\ UNCHANGED <<sys, job, root>>
  <2>1. RootBecomes(root, "wire") /\ Same(root, root)
    BY <1>1, <1>2 DEF RootBecomes, Same, Stands
  <2> QED
    BY <1>1, <2>1, RootStep DEF Same, OnRoot, Encrypted
<1>3. CASE GiveUp
  BY <1>1, <1>3, GiveUpKeeps DEF OnRoot
<1>4. ASSUME NEW r \in UmountDiskFromChroot(sys, job.list), sys' = r.sys,
             job' = IF r.ok THEN [job EXCEPT !.targets = FdeTargetPartitionIDs(t, Parts)] ELSE [job EXCEPT !.failed = TRUE],
             ImageGoto(IF r.ok THEN "encrypt" ELSE "unwind"), root' = root
      PROVE  InstallInv'
  <2>1. /\ DOMAIN sys' = SysFields /\ sys'.luks = sys.luks /\ sys'.dev = sys.dev
        /\ sys'.mounts \subseteq sys.mounts /\ (sys'.sysfs => sys.sysfs)
        /\ r.ok => sys'.mounts \cap job.list = {}
        /\ r.ok /\ "/" \in job.list \cap sys.mounts /\ sys.mounts \subseteq Range(MountOrder) => sys'.mounts = {}
        /\ ~r.ok /\ "/" \in sys.mounts => "/" \in sys'.mounts
    BY <1>4, Unmounting DEF InstallInv, StageInv, SysFields
  <2>2. world' = world /\ pc' = IF r.ok THEN "encrypt" ELSE "unwind"
    BY <1>4 DEF ImageGoto
  <2>3. JobKept /\ (~r.ok => job'.failed)
    BY <1>4 DEF JobKept, InstallInv, StageInv
  <2>4. /\ IsDisk' = IsDisk /\ t' = t /\ MountPointInfoList' = MountPointInfoList /\ HasRoot' = HasRoot
        /\ CleanRoot' = CleanRoot
    BY <1>4, <2>1, <2>2, ListKept DEF IsDisk, t, CleanRoot, Dummies
  <2>5. /\ sys.luks = {} /\ (job.unclean \/ CleanRoot)
    BY <1>1 DEF InstallInv, LuksInv, StandInInv, OnRoot, Encrypted
  <2>6. sys.mounts \subseteq Range(MountOrder) /\ "/" \in job.list \cap sys.mounts
    BY <1>1 DEF InstallInv, DiskInv, HasRoot, Working, OnRoot
  <2>7. StageInv'
    BY <1>1, <1>4, <2>1, <2>2, <2>3, <2>4 DEF InstallInv, StageInv, JobKept, Stages, Untaken, OnRoot, SysFields
  <2>8. UntakenInv' /\ DirectoryInv'
    BY <1>1, <2>2, <2>4 DEF UntakenInv, DirectoryInv, Untaken
  <2>9. DiskInv'
    BY <1>1, <2>1, <2>2, <2>3, <2>4, <2>6 DEF DiskInv, JobKept, Working, OnRoot, Bootable
  <2>10. SysfsInv'
    BY <2>1, <2>2, <2>3 DEF InstallInv, SysfsInv, JobKept
  <2>11. LuksInv'
    BY <2>1, <2>2, <2>5 DEF LuksInv
  <2>12. StandInInv'
    BY <2>2, <2>3, <2>4, <2>5 DEF StandInInv, JobKept, Untaken, OnRoot
  <2> QED
    BY <2>7, <2>8, <2>9, <2>10, <2>11, <2>12 DEF InstallInv
<1> QED
  BY <1>2, <1>3, <1>4 DEF EnableFDE

LEMMA EncryptKeeps ==
  ASSUME InstallInv, EncryptPartition PROVE InstallInv'
<1> DEFINE id == Head(job.targets)
           open == [sys EXCEPT !.luks = @ \cup {id}, !.crypt = @ \cup {id}, !.dev[id] = <<"mapper", id>>]
           opened == job.opened \cup {id}
<1>1. /\ pc = "encrypt" /\ DOMAIN sys = SysFields
      /\ ~job.unclean => sys.luks \subseteq job.opened
  BY DEF EncryptPartition, InstallInv, StageInv, LuksInv, SysFields
<1>2. /\ DOMAIN open = SysFields /\ open.mounts = sys.mounts /\ open.sysfs = sys.sysfs
      /\ open.luks = sys.luks \cup {id} /\ DOMAIN open.dev = DOMAIN sys.dev
  BY <1>1 DEF SysFields
<1>3. CASE /\ sys' = open /\ job' = [job EXCEPT !.targets = Tail(@), !.opened = opened]
           /\ UNCHANGED <<root, diskVars>>
  <2> HIDE DEF open
  <2>1. pc' = "encrypt" /\ world' = world /\ root' = root /\ sys' = open
    BY <1>1, <1>3 DEF diskVars
  <2>2. /\ DOMAIN job' = DOMAIN job /\ job'.list = job.list /\ job'.opened = opened /\ job'.bare = job.bare
        /\ job'.halfway = job.halfway /\ job'.unclean = job.unclean
    BY <1>3 DEF InstallInv, StageInv
  <2> HIDE DEF opened
  <2>3. /\ IsDisk /\ IsDisk' = IsDisk /\ t' = t /\ HasRoot' = HasRoot /\ CleanRoot' = CleanRoot
    BY <1>1, <1>2, <2>1, ListKept DEF IsDisk, t, CleanRoot, Dummies, InstallInv, StageInv
  <2>4. ~job'.unclean => sys'.luks \subseteq job'.opened
    BY <1>1, <1>2, <2>1, <2>2 DEF opened
  <2>5. StageInv' /\ UntakenInv' /\ DirectoryInv'
    BY <1>1, <1>2, <2>1, <2>2, <2>3 DEF InstallInv, StageInv, UntakenInv, DirectoryInv, Untaken, SysFields
  <2>6. DiskInv'
    BY <1>1, <1>2, <2>1, <2>2, <2>3 DEF InstallInv, DiskInv, Working, OnRoot, Bootable
  <2>7. SysfsInv'
    BY <1>2, <2>1, <2>2 DEF InstallInv, SysfsInv
  <2>8. LuksInv' /\ StandInInv'
    BY <1>1, <2>1, <2>2, <2>3, <2>4 DEF InstallInv, LuksInv, StandInInv, Encrypted, Ended, Installed
  <2> QED
    BY <2>5, <2>6, <2>7, <2>8 DEF InstallInv
<1>4. CASE AbandonFDE(sys, job.opened)
  BY <1>1, <1>4, AbandonKeeps
<1>5. CASE AbandonFDE([open EXCEPT !.dev = sys.dev], opened)
  <2> DEFINE s == [open EXCEPT !.dev = sys.dev]
  <2>1. DOMAIN s = SysFields /\ s.mounts = sys.mounts /\ s.sysfs = sys.sysfs /\ s.luks = sys.luks \cup {id}
    BY <1>2 DEF SysFields
  <2> HIDE DEF open, s
  <2> QED
    BY <1>1, <1>5, <2>1, AbandonKeeps DEF s
<1> QED
  BY <1>3, <1>4, <1>5 DEF EncryptPartition

LEMMA RemountKeeps ==
  ASSUME InstallInv, RemountAfterFDE PROVE InstallInv'
<1>1. PICK r \in MountDiskToChroot(sys) :
         IF r.ok THEN /\ sys' = r.sys /\ job' = [job EXCEPT !.list = MountPointInfoList]
                      /\ ImageGoto("wire") /\ UNCHANGED root
         ELSE /\ sys' = CloseLuksMappers(r.sys, job.opened)
              /\ job' = [job EXCEPT !.failed = TRUE, !.opened = {}, !.unclean = @ \/ r.unclean]
              /\ ImageGoto("unwind") /\ UNCHANGED root
  BY DEF RemountAfterFDE
<1>2. /\ pc = "encrypt" /\ IsDisk /\ HasRoot /\ world' = world /\ root' = root
      /\ sys.mounts \subseteq Range(MountOrder) /\ (~job.unclean => sys.mounts = {} /\ sys.luks \subseteq job.opened)
  BY <1>1 DEF RemountAfterFDE, ImageGoto, InstallInv, StageInv, DiskInv, LuksInv, Bootable
<1>3. /\ DOMAIN r.sys = SysFields /\ r.sys.luks = sys.luks /\ r.sys.dev = sys.dev
      /\ r.sys.mounts \subseteq sys.mounts \cup MountPointInfoList
      /\ r.ok => r.sys.mounts = sys.mounts \cup MountPointInfoList
      /\ ~r.ok => (r.sys.sysfs => sys.sysfs)
      /\ ~r.ok /\ ~r.unclean => r.sys.mounts \subseteq sys.mounts
  BY Mounting DEF InstallInv, StageInv, SysFields
<1>4. MountPointInfoList \subseteq Range(MountOrder)
  BY DEF MountPointInfoList
<1>5. CASE r.ok
  <2>1. sys' = r.sys /\ job' = [job EXCEPT !.list = MountPointInfoList] /\ pc' = "wire"
    BY <1>1, <1>5 DEF ImageGoto
  <2>2. /\ DOMAIN job' = DOMAIN job /\ job'.list = MountPointInfoList /\ job'.opened = job.opened
        /\ job'.unclean = job.unclean
    BY <2>1 DEF InstallInv, StageInv
  <2>3. /\ IsDisk' = IsDisk /\ t' = t /\ MountPointInfoList' = MountPointInfoList /\ HasRoot' = HasRoot
        /\ CleanRoot' = CleanRoot
    BY <1>2, <1>3, <2>1, ListKept DEF IsDisk, t, CleanRoot, Dummies
  <2>4. StageInv'
    BY <1>2, <1>3, <2>1, <2>2, <2>3 DEF InstallInv, StageInv, Stages, Working, Untaken, OnRoot, SysFields
  <2>5. UntakenInv' /\ DirectoryInv'
    BY <1>2, <2>1, <2>3 DEF UntakenInv, DirectoryInv, Untaken
  <2>6. DiskInv'
    BY <1>2, <1>3, <1>4, <1>5, <2>1, <2>2, <2>3 DEF DiskInv, HasRoot
  <2>7. SysfsInv'
    BY <1>2, <2>1, <2>2 DEF SysfsInv, HasRoot
  <2>8. LuksInv'
    BY <1>2, <1>3, <2>1, <2>2, <2>3 DEF LuksInv, Encrypted, Ended, Installed
  <2>9. StandInInv'
    BY <1>2, <2>1, <2>2, <2>3 DEF InstallInv, StandInInv, Untaken, OnRoot, Installed
  <2> QED
    BY <2>4, <2>5, <2>6, <2>7, <2>8, <2>9 DEF InstallInv
<1>6. CASE ~r.ok
  <2> DEFINE c == CloseLuksMappers(r.sys, job.opened)
  <2>1. /\ sys' = c /\ pc' = "unwind"
        /\ job' = [job EXCEPT !.failed = TRUE, !.opened = {}, !.unclean = @ \/ r.unclean]
    BY <1>1, <1>6 DEF ImageGoto
  <2>2. /\ DOMAIN c = SysFields /\ c.mounts = r.sys.mounts /\ c.sysfs = r.sys.sysfs
        /\ r.sys.mounts = {} /\ r.sys.luks \subseteq job.opened => c.luks = {}
    BY <1>3, Closing
  <2> HIDE DEF c
  <2>3. /\ DOMAIN job' = DOMAIN job /\ job'.list = job.list /\ job'.bare = job.bare /\ job'.failed
        /\ job'.unclean = (job.unclean \/ r.unclean)
    BY <2>1 DEF InstallInv, StageInv
  <2> QED
    BY <1>2, <1>3, <1>4, <1>6, <2>1, <2>2, <2>3, FailedEncryption
<1> QED
  BY <1>5, <1>6

LEMMA WireKeeps ==
  ASSUME InstallInv, WireFDE PROVE InstallInv'
<1> DEFINE r == WireFDEBoot(root, sys.dev, t, Parts)
           next == IF t.provider = "systemd-boot" THEN "initramfs" ELSE "sign"
<1>1. pc = "wire" /\ IsDisk /\ HasRoot /\ Fields(root)
  BY DEF WireFDE, InstallInv, StageInv, DiskInv, OnRoot, Bootable, Fields
<1>2. CASE r = Refused
  BY <1>1, <1>2, GiveUpKeeps DEF WireFDE, OnRoot
<1>3. CASE r # Refused
  <2>1. PICK keyed : sys' = [sys EXCEPT !.keyed = keyed]
    BY <1>3 DEF WireFDE
  <2>2. root' = r[1] /\ pc' = next /\ job' = job /\ world' = world
    BY <1>3 DEF WireFDE, ImageGoto
  <2>3. Same(root, r[1])
    BY <1>1, <1>3, SecureKeeps DEF SameIfDone
  <2>4. SysKept /\ JobKept
    BY <2>1, <2>2 DEF SysKept, JobKept, SysFields, InstallInv, StageInv
  <2>5. next \in {"initramfs", "sign"}
    OBVIOUS
  <2> HIDE DEF r, next
  <2> QED
    BY <1>1, <2>2, <2>3, <2>4, <2>5, QuietStep DEF Same, OnRoot, Encrypted
<1> QED
  BY <1>2, <1>3

-----------------------------------------------------------------------------
(* The UKI: the directories in memory are below the root, which stays.        *)
LEMMA BootStep ==
  ASSUME InstallInv, world' = world, JobKept, Stands(root, root'),
         pc \in {"verity", "ukify"}, pc' \in {"hash", "loader", "unwind"}, pc' = "unwind" => job'.failed,
         DOMAIN sys' = SysFields, sys'.luks = sys.luks, sys'.dev = sys.dev, sys'.sysfs => sys.sysfs,
         sys'.mounts \subseteq Range(MountOrder), "/" \in sys.mounts => "/" \in sys'.mounts
  PROVE  InstallInv'
<1> USE DEF Installed, Ended
<1>1. MountPointInfoList' = MountPointInfoList /\ HasRoot' = HasRoot /\ IsDisk' = IsDisk /\ t' = t
  BY ListKept DEF IsDisk, t
<1>2. CleanRoot' = CleanRoot
  BY DEF CleanRoot, Dummies, Same, Stands
<1>3. IsDisk /\ HasRoot /\ job.list = MountPointInfoList /\ "/" \in job.list \cap sys.mounts
  BY DEF InstallInv, StageInv, DiskInv, HasRoot, Working, OnRoot, Bootable
<1>4. StageInv'
  BY <1>1, <1>3 DEF InstallInv, StageInv, JobKept, Same, Stands, Fields, SysFields, Stages, Working, OnRoot, Untaken
<1>5. UntakenInv' /\ DirectoryInv'
  BY <1>1, <1>3 DEF UntakenInv, DirectoryInv, Untaken
<1>6. DiskInv'
  BY <1>1, <1>3 DEF DiskInv, JobKept
<1>7. SysfsInv'
  BY DEF InstallInv, SysfsInv, JobKept
<1>8. LuksInv'
  BY <1>1, <1>3 DEF InstallInv, LuksInv, JobKept, Encrypted
<1>9. StandInInv'
  BY <1>2 DEF InstallInv, StandInInv, JobKept, Untaken, OnRoot
<1> QED
  BY <1>4, <1>5, <1>6, <1>7, <1>8, <1>9 DEF InstallInv

LEMMA VerityKeeps ==
  ASSUME InstallInv, PrepareVeritySetup PROVE InstallInv'
<1> DEFINE frozen == [sys EXCEPT !.ro = TRUE]
           points == {"/tmp", "/boot/efi/tmp"}
<1>1. pc = "verity" /\ DOMAIN sys = SysFields /\ IsDisk /\ sys.mounts \subseteq Range(MountOrder)
  BY DEF PrepareVeritySetup, InstallInv, StageInv, DiskInv, SysFields, OnRoot
<1>2. CASE GiveUp
  BY <1>1, <1>2, GiveUpKeeps DEF OnRoot
<1>3. ASSUME NEW some \in SUBSET points, sys' = [frozen EXCEPT !.mounts = @ \cup some],
             JobKept, pc' \in {"hash", "unwind"}, pc' = "unwind" => job'.failed,
             world' = world, root' = root
      PROVE  InstallInv'
  <2>1. /\ DOMAIN sys' = SysFields /\ sys'.mounts = sys.mounts \cup some /\ sys'.sysfs = sys.sysfs
        /\ sys'.luks = sys.luks /\ sys'.dev = sys.dev
    BY <1>1, <1>3 DEF SysFields
  <2>2. Same(root, root')
    BY <1>3 DEF Same, Stands, Fields, InstallInv, StageInv
  <2>3. sys'.mounts \subseteq Range(MountOrder)
    BY <1>1, <2>1, OrderIsFixed
  <2> QED
    BY <1>1, <1>3, <2>1, <2>2, <2>3, BootStep DEF Same
<1>4. CASE SysBecomes([frozen EXCEPT !.mounts = @ \cup points], "hash")
  <2>1. sys' = [frozen EXCEPT !.mounts = @ \cup points] /\ pc' = "hash" /\ world' = world /\ root' = root /\ JobKept
    BY <1>4 DEF SysBecomes, ImageGoto, JobKept
  <2> HIDE DEF frozen
  <2> QED
    BY <1>3, <2>1
<1>5. CASE sys' = MountPath(frozen, "/tmp") /\ job' = [job EXCEPT !.failed = TRUE] /\ ImageGoto("unwind") /\ UNCHANGED root
  <2>1. sys' = [frozen EXCEPT !.mounts = @ \cup {"/tmp"}] /\ pc' = "unwind" /\ world' = world /\ root' = root
    BY <1>5 DEF MountPath, ImageGoto
  <2>2. JobKept /\ job'.failed
    BY <1>5 DEF JobKept, InstallInv, StageInv
  <2> HIDE DEF frozen
  <2> QED
    BY <1>3, <2>1, <2>2
<1> QED
  BY <1>2, <1>4, <1>5 DEF PrepareVeritySetup

LEMMA UkiKeeps ==
  ASSUME InstallInv, MakeUKI PROVE InstallInv'
<1> DEFINE options == IF t.immutable THEN ReplaceRootHashPH(root.cmdline[1], root.hashed) ELSE root.cmdline[1]
           built == BuildUKI(root, root.kernels[1], options, t)
           left(r) == IF t.immutable THEN WriteRoot(r, sys.ro) ELSE r
           freed == IF t.immutable THEN RemoveVerityTmp(sys) ELSE sys
<1>1. /\ pc = "ukify" /\ DOMAIN sys = SysFields /\ IsDisk /\ sys.mounts \subseteq Range(MountOrder)
      /\ Fields(root)
  BY DEF MakeUKI, InstallInv, StageInv, DiskInv, SysFields, OnRoot, Fields
<1>2. /\ DOMAIN freed = SysFields /\ freed.luks = sys.luks /\ freed.dev = sys.dev /\ (freed.sysfs => sys.sysfs)
      /\ freed.mounts \subseteq sys.mounts /\ ("/" \in sys.mounts => "/" \in freed.mounts)
  BY <1>1, UmountedLeaves DEF RemoveVerityTmp
<1>3. \A r : Fields(r) => Same(r, left(r))
  BY SecureKeeps DEF Same, Stands
<1>4. SameIfDone(root, built)
  BY <1>1, SecureKeeps
<1> HIDE DEF built, left, freed
<1>5. ASSUME NEW r, Same(root, r), root' = left(r), sys' = freed, world' = world,
             JobKept, pc' \in {"loader", "unwind"}, pc' = "unwind" => job'.failed
      PROVE  InstallInv'
  <2>1. Same(root, root')
    BY <1>3, <1>5 DEF Same, Stands
  <2> QED
    BY <1>1, <1>2, <1>5, <2>1, BootStep DEF Same
<1>6. CASE built # Refused /\ root' = left(built[1]) /\ sys' = freed /\ ImageGoto("loader") /\ job' = job
  <2>1. Same(root, built[1])
    BY <1>4, <1>6 DEF SameIfDone
  <2>2. root' = left(built[1]) /\ sys' = freed /\ world' = world /\ pc' = "loader" /\ JobKept
    BY <1>6 DEF ImageGoto, JobKept
  <2> QED
    BY <1>5, <2>1, <2>2
<1>7. CASE root' = left(root) /\ sys' = freed /\ job' = [job EXCEPT !.failed = TRUE] /\ ImageGoto("unwind")
  <2>1. JobKept /\ job'.failed /\ Same(root, root)
    BY <1>1, <1>7 DEF JobKept, Same, Stands, InstallInv, StageInv
  <2> QED
    BY <1>5, <1>7, <2>1 DEF ImageGoto
<1>8. CASE GiveUp
  BY <1>1, <1>8, GiveUpKeeps DEF OnRoot
<1> QED
  BY <1>6, <1>7, <1>8 DEF MakeUKI, built, left, freed

-----------------------------------------------------------------------------
(* What was deferred. *)
LEMMA UnwindKeeps ==
  ASSUME InstallInv, UnwindMounts PROVE InstallInv'
<1> USE DEF Installed, Ended
<1>1. pc = "unwind" /\ pc' = "close" /\ world' = world /\ root' = root
  BY DEF UnwindMounts, ImageGoto
<1>2. /\ DOMAIN sys' = SysFields /\ sys'.luks = sys.luks /\ sys'.dev = sys.dev
      /\ sys'.mounts \subseteq sys.mounts /\ (sys'.sysfs => sys.sysfs)
      /\ DOMAIN job' = DOMAIN job /\ job'.list = job.list /\ job'.opened = job.opened /\ job'.bare = job.bare
      /\ job'.halfway = job.halfway /\ (job.unclean => job'.unclean) /\ (job.failed => job'.failed)
      /\ ~job'.unclean => ~sys'.sysfs /\ (IsDisk => sys'.mounts = {})
  <2>1. DOMAIN sys = SysFields
    BY DEF InstallInv, StageInv, SysFields
  <2>2. CASE job.list = {} /\ ~job.bare
    <3>1. sys' = sys /\ job' = job
      BY <2>2 DEF UnwindMounts
    <3> QED
      BY <2>1, <2>2, <3>1 DEF InstallInv, SysfsInv, DiskInv
  <2>3. CASE ~(job.list = {} /\ ~job.bare)
    <3>1. PICK r \in UmountDiskFromChroot(sys, job.list) :
            sys' = r.sys /\ job' = IF r.ok THEN job ELSE [job EXCEPT !.failed = TRUE, !.unclean = TRUE]
      BY <2>3 DEF UnwindMounts
    <3>2. /\ DOMAIN r.sys = SysFields /\ r.sys.luks = sys.luks /\ r.sys.dev = sys.dev
          /\ r.sys.mounts \subseteq sys.mounts
          /\ r.sys.sysfs => sys.sysfs
          /\ r.ok => ~r.sys.sysfs /\ r.sys.mounts \cap job.list = {}
          /\ r.ok /\ "/" \in job.list \cap sys.mounts /\ sys.mounts \subseteq Range(MountOrder) => r.sys.mounts = {}
      BY <2>1, Unmounting
    <3>3. CASE r.ok
      <4>1. IsDisk /\ ~job.unclean => sys.mounts \subseteq Range(MountOrder)
                                     /\ (sys.mounts \subseteq job.list \/ "/" \in job.list \cap sys.mounts)
        BY DEF InstallInv, DiskInv
      <4> QED
        BY <3>1, <3>2, <3>3, <4>1
    <3>4. CASE ~r.ok
      <4>1. /\ DOMAIN job' = DOMAIN job /\ job'.list = job.list /\ job'.opened = job.opened /\ job'.bare = job.bare
            /\ job'.halfway = job.halfway /\ job'.unclean /\ job'.failed
        BY <3>1, <3>4 DEF InstallInv, StageInv
      <4> QED
        BY <3>1, <3>2, <4>1
    <3> QED
      BY <3>3, <3>4
  <2> QED
    BY <2>2, <2>3
<1>3. IsDisk' = IsDisk /\ t' = t /\ CleanRoot' = CleanRoot
  BY <1>1 DEF IsDisk, t, CleanRoot, Dummies
<1>4. StageInv' /\ UntakenInv'
  BY <1>1, <1>2, <1>3 DEF InstallInv, StageInv, UntakenInv, Stages, Untaken, OnRoot, SysFields
<1>5. DiskInv'
  BY <1>1, <1>2, <1>3 DEF InstallInv, DiskInv, Working, OnRoot, Bootable
<1>6. DirectoryInv'
  BY <1>1, <1>2, <1>3 DEF InstallInv, DirectoryInv
<1>7. SysfsInv' /\ LuksInv'
  BY <1>1, <1>2, <1>3 DEF InstallInv, SysfsInv, LuksInv, Encrypted
<1>8. StandInInv'
  BY <1>1, <1>2, <1>3 DEF InstallInv, StandInInv, Untaken, OnRoot
<1> QED
  BY <1>4, <1>5, <1>6, <1>7, <1>8 DEF InstallInv

LEMMA CloseKeeps ==
  ASSUME InstallInv, CloseMappers PROVE InstallInv'
<1> USE DEF Installed, Ended
<1> DEFINE c == CloseLuksMappers(sys, job.opened)
<1>1. PICK stuck \in {{}, sys.luks} :
        sys' = [c EXCEPT !.luks = @ \cup stuck] /\ job' = [job EXCEPT !.opened = {}, !.unclean = @ \/ (stuck # {})]
  BY DEF CloseMappers
<1>2. /\ pc = "close" /\ world' = world /\ root' = root
      /\ pc' \in {"failed", "bootorder", "done"} /\ (pc' # "failed" => ~job.failed)
  BY DEF CloseMappers, ImageGoto
<1>3. /\ DOMAIN c = SysFields /\ c.mounts = sys.mounts /\ c.sysfs = sys.sysfs /\ c.luks \subseteq sys.luks
      /\ sys.mounts = {} /\ sys.luks \subseteq job.opened => c.luks = {}
  BY Closing DEF InstallInv, StageInv, SysFields
<1> HIDE DEF c
<1>4. DOMAIN sys' = SysFields /\ sys'.mounts = sys.mounts /\ sys'.sysfs = sys.sysfs /\ sys'.luks = c.luks \cup stuck
  BY <1>1, <1>3 DEF SysFields
<1>5. /\ DOMAIN job' = DOMAIN job /\ job'.list = job.list /\ job'.bare = job.bare /\ job'.halfway = job.halfway
      /\ job'.unclean = (job.unclean \/ stuck # {}) /\ job'.failed = job.failed
  BY <1>1 DEF InstallInv, StageInv
<1>6. IsDisk' = IsDisk /\ t' = t /\ CleanRoot' = CleanRoot
  BY <1>2 DEF IsDisk, t, CleanRoot, Dummies
<1>7. /\ ~IsDisk => sys.luks = {}
      /\ ~job.unclean => sys.luks \subseteq job.opened /\ (IsDisk => sys.mounts = {})
  BY <1>2 DEF InstallInv, LuksInv, SysfsInv
<1>8. (~IsDisk => sys'.luks = {}) /\ (~job'.unclean => sys'.luks = {})
  BY <1>3, <1>4, <1>5, <1>7
<1>9. StageInv' /\ UntakenInv'
  BY <1>2, <1>4, <1>5, <1>6 DEF InstallInv, StageInv, UntakenInv, Stages, Untaken, OnRoot, SysFields
<1>10. DiskInv'
  BY <1>2, <1>4, <1>5, <1>6 DEF InstallInv, DiskInv, Working, OnRoot, Bootable
<1>11. DirectoryInv'
  BY <1>2, <1>4, <1>5, <1>6 DEF InstallInv, DirectoryInv
<1>12. SysfsInv'
  BY <1>2, <1>4, <1>5, <1>6 DEF InstallInv, SysfsInv
<1>13. LuksInv'
  BY <1>2, <1>6, <1>8 DEF LuksInv, Encrypted
<1>14. StandInInv'
  BY <1>2, <1>5, <1>6 DEF InstallInv, StandInInv, Untaken, OnRoot
<1> QED
  BY <1>9, <1>10, <1>11, <1>12, <1>13, <1>14 DEF InstallInv

-----------------------------------------------------------------------------
LEMMA InitHolds ==
  ASSUME ImageInit PROVE InstallInv
<1>1. /\ world \in Worlds /\ pc \in {"select", "check", "image"}
      /\ sys = [mounts |-> world.stale, sysfs |-> FALSE, luks |-> {}, crypt |-> {}, dev |-> <<>>, keyed |-> {}, ro |-> FALSE]
      /\ job = [list |-> {}, opened |-> {}, targets |-> <<>>, packages |-> <<>>, diverted |-> {}, backups |-> {},
                kernels |-> 0, users |-> 0, bare |-> FALSE, halfway |-> FALSE, failed |-> FALSE, unclean |-> FALSE]
  BY DEF ImageInit, DiskInit
<1>2. {"scaffold", "gen", "etc", "site", "tree", "kernels", "modules"} \subseteq DOMAIN root /\ root.scaffold = {} /\ root.gen = world.t.gen
  BY DEF ImageInit
<1>3. IsDisk => world.stale = {}
  BY <1>1, ImageAssumption DEF IsDisk
<1>4. CleanRoot
  BY <1>1, <1>2, ImageAssumption DEF CleanRoot, Dummies
<1>5. StageInv /\ UntakenInv
  BY <1>1, <1>2 DEF StageInv, UntakenInv, Stages, Untaken, OnRoot
<1>6. DiskInv /\ DirectoryInv /\ SysfsInv
  BY <1>1, <1>3 DEF DiskInv, DirectoryInv, SysfsInv, Working, OnRoot, Bootable
<1>7. LuksInv /\ StandInInv
  BY <1>1, <1>4 DEF LuksInv, StandInInv, Untaken, OnRoot, Installed, Ended
<1> QED
  BY <1>5, <1>6, <1>7 DEF InstallInv

LEMMA StutterKeeps ==
  ASSUME InstallInv, UNCHANGED installVars PROVE InstallInv'
<1>1. Unmoved /\ pc' = pc
  BY DEF Unmoved, installVars, imageVars, diskVars
<1>2. IsDisk' = IsDisk /\ t' = t /\ MountPointInfoList' = MountPointInfoList /\ HasRoot' = HasRoot
      /\ Dummies' = Dummies /\ CleanRoot' = CleanRoot
  BY <1>1, UnmovedKeeps
<1>3. StageInv' /\ UntakenInv' /\ DirectoryInv' /\ SysfsInv' /\ LuksInv'
  BY <1>1, <1>2 DEF InstallInv, StageInv, UntakenInv, DirectoryInv, SysfsInv, LuksInv, Ended, Installed, Unmoved
<1>4. DiskInv'
  BY <1>1, <1>2 DEF InstallInv, DiskInv, Unmoved
<1>5. StandInInv'
  BY <1>1, <1>2 DEF InstallInv, StandInInv, Installed, Unmoved
<1> QED
  BY <1>3, <1>4, <1>5 DEF InstallInv

LEMMA FailureKeeps ==
  ASSUME InstallInv, ImageCommandFails PROVE InstallInv'
  BY GiveUpKeeps DEF ImageCommandFails, OnRoot

(* What is mounted, open or standing in is remembered to be taken back, at    *)
(* every step of every installation.                                         *)
THEOREM Invariant == InstallSpec => []InstallInv
<1>1. ImageInit => InstallInv
  BY InitHolds
<1>2. ASSUME InstallInv, [InstallNext]_installVars PROVE InstallInv'
  <2>1. CASE DiskNext /\ UNCHANGED imageVars
    BY <1>2, <2>1, DiskSteps
  <2>2. CASE StartInstall \/ MountDiskRoot \/ InitRootfsForDeb \/ MountSysfs \/ MountDisk
    BY <1>2, <2>2, StartKeeps, MountRootKeeps, BootstrapKeeps, MountSysfsKeeps, MountDiskKeeps
  <2>3. CASE InitDebLocalRepo \/ InitImageRpmDb \/ PrepareInitramfsBinaries \/ InstallPackage \/ PackagesInstalled
             \/ RestoreInitramfsBinaries \/ DeInitDebLocalRepo
    BY <1>2, <2>3, RepoKeeps, RpmDbKeeps, DivertKeeps, PackageKeeps, InstalledKeeps, RestoreKeeps, DeInitKeeps
  <2>4. CASE BuildDkms
    BY <1>2, <2>4, DkmsKeeps
  <2>5. CASE EnableFDE \/ EncryptPartition \/ RemountAfterFDE \/ WireFDE
    BY <1>2, <2>5, EnableKeeps, EncryptKeeps, RemountKeeps, WireKeeps
  <2>6. CASE PrepareVeritySetup \/ MakeUKI
    BY <1>2, <2>6, VerityKeeps, UkiKeeps
  <2>7. CASE UnwindMounts \/ CloseMappers \/ ImageCommandFails
    BY <1>2, <2>7, UnwindKeeps, CloseKeeps, FailureKeeps
  <2>8. CASE PrepareKernels \/ EnsureDepmod \/ AddImageAdditionalFiles \/ CreateNextUser \/ UsersCreated
             \/ UpdateImageConfig \/ InstallBoot \/ GenerateSBOM \/ SecureImage \/ RebuildInitramfs \/ HashRoot \/ InstallLoader \/ Sign \/ PostInstall
    BY <1>2, <2>8, ImageSteps
  <2>9. CASE UNCHANGED installVars
    BY <1>2, <2>9, StutterKeeps
  <2> QED
    BY <1>2, <2>1, <2>2, <2>3, <2>4, <2>5, <2>6, <2>7, <2>8, <2>9 DEF InstallNext, ImageNext
<1> QED
  BY <1>1, <1>2, PTL DEF InstallSpec

(* Wherever it ends, on whatever disk and template, an installation has       *)
(* unmounted and closed all it mounted and opened, and an image reported       *)
(* installed has no stand-in, unless taking it back failed and was said to.    *)
THEOREM NothingLeft == InstallSpec => []NothingLeftBehind
<1>1. InstallInv => NothingLeftBehind
  <2> SUFFICES ASSUME InstallInv, Ended, ~job.unclean
               PROVE  /\ sys.mounts \subseteq world.stale \cup IF job.halfway /\ ~IsDisk THEN {Repo} ELSE {}
                      /\ sys.luks = {} /\ ~sys.sysfs
                      /\ Installed => root.scaffold = {} /\ \A b \in DOMAIN root.gen : root.gen[b] # "dummy"
    BY DEF NothingLeftBehind
  <2>1. sys.luks = {} /\ ~sys.sysfs /\ (IsDisk => sys.mounts = {})
    BY DEF InstallInv, LuksInv, SysfsInv, Ended, Installed
  <2>2. ~IsDisk => sys.mounts \subseteq world.stale \cup IF job.halfway THEN {Repo} ELSE {}
    BY DEF InstallInv, DirectoryInv, Ended, Installed
  <2>3. Installed => CleanRoot
    BY DEF InstallInv, StandInInv
  <2> QED
    BY <2>1, <2>2, <2>3 DEF CleanRoot, Dummies
<1> QED
  BY <1>1, Invariant, PTL

-----------------------------------------------------------------------------
(* DiskAsAsked: the disk that is changed was listed, permitted and checked,  *)
(* and is laid out partition by partition.                                   *)
Early == {"select", "check"}
Clearing == {"wipe", "table", "release", "rewipe", "force"}

(* A disk is the one that was listed but for what is on it. *)
Changed == {"parts", "label", "used"}
Still(d, was) == DOMAIN d = DOMAIN was /\ \A f \in DOMAIN was \ Changed : d[f] = was[f]

Permitted(d) ==
    world.kind = "live" /\ world.cfg.path = <<>> =>
        /\ d.type = "disk" /\ ~d.mapped /\ ~d.iso
        /\ world.cfg.excludeRemovable => ~IsExternallyAttached(d)
        /\ world.cfg.requireEmpty => DOMAIN d.parts = {}
Chosen(d) == Permitted(d) /\ ValidatePartitionLayoutOrder(Parts) /\ CheckEndRelativeLayoutFits(d, Parts)

(* A disk that is changed is one that was permitted, and checked. *)
Cleared == \E was \in Range(world.devices) : Still(disk, was) /\ Chosen(was)
ChosenInv ==
    /\ pc \in Early => Untouched(disk)
    /\ pc = "check" => Permitted(disk)
    /\ pc \in Clearing \cup {"partition"} \/ ~Untouched(disk) => Cleared

(* Until there is a table nothing is made; and the table is the one asked for. *)
TableInv ==
    /\ pc \in Early \cup Clearing \cup {"partition"} => IsDisk
    /\ pc \in Early \cup Clearing => made = 0 /\ DOMAIN idMap = {}
    /\ pc \in {"table", "force"} => DOMAIN disk.parts = {}
    /\ pc = "failed" \/ pc \in Early \cup Clearing \/ ~IsDisk \/ disk.label = world.cfg.table

PartsApart(parts) ==
    \A n \in DOMAIN parts :
        /\ parts[n].from \in Nat /\ parts[n].to \in Nat /\ parts[n].from <= parts[n].to
        /\ \A m \in DOMAIN parts \ {n} : parts[m].to < parts[n].from \/ parts[n].to < parts[m].from
LastOf(n, i) == \A j \in i + 1 .. n : Parts[j].id # Parts[i].id
(* Every partition gone through has its file system, under its id, in sectors *)
(* of its own.                                                               *)
MadeInv ==
    IsDisk /\ pc \notin Early \cup Clearing \cup {"failed"} =>
        /\ made \in 0 .. Len(Parts)
        /\ pc # "partition" => made = Len(Parts)
        /\ IsFiniteSet(DOMAIN disk.parts) /\ Cardinality(DOMAIN disk.parts) = made
        /\ world.cfg.table = "mbr" => DOMAIN disk.parts = 1 .. made /\ (made < MaxPrimary \/ Len(Parts) <= MaxPrimary)
        /\ \A id \in DOMAIN idMap : idMap[id] \in DOMAIN disk.parts /\ disk.parts[idMap[id]].id = id
        /\ \A i \in 1 .. made : LET id == Parts[i].id IN
             id \in DOMAIN idMap /\ (LastOf(made, i) => disk.parts[idMap[id]].fs = Parts[i].fs)
        /\ PartsApart(disk.parts)

DisksInv == ChosenInv /\ TableInv /\ MadeInv

Frame == world' = world /\ disk' = disk /\ idMap' = idMap /\ made' = made /\ firmware' = firmware /\ old' = old
OnDisk == Early \cup Clearing \cup {"partition", "bootorder", "bootentry", "setorder", "removeold", "done", "failed"}

LEMMA GoesOn ==
  ASSUME NEW next, ImageGoto(next) PROVE Frame /\ pc' = next
  BY DEF ImageGoto, Frame

LEMMA GivenUp ==
  ASSUME GiveUp PROVE Frame /\ pc' \in {"unwind", "close", "deinit", "restore"}
  BY DEF GiveUp, Unwinding, ImageGoto, Frame

LEMMA ImageFrame ==
  ASSUME ImageNext
  PROVE  /\ Frame /\ pc \notin OnDisk
         /\ pc' \in OnDisk => pc = "close" /\ (pc' = "failed" \/ pc' = IF world.kind = "live" THEN "bootorder" ELSE "done")
<1> USE DEF OnDisk, Early, Clearing
<1>1. CASE StartInstall
  BY <1>1, GoesOn DEF StartInstall
<1>12. CASE MountDiskRoot \/ InitRootfsForDeb
  BY <1>12, GivenUp, GoesOn DEF MountDiskRoot, InitRootfsForDeb
<1>13. CASE MountSysfs
  BY <1>13, GoesOn DEF MountSysfs
<1>15. CASE MountDisk
  BY <1>15, GoesOn DEF MountDisk
<1>2. CASE InitDebLocalRepo \/ InitImageRpmDb \/ PrepareInitramfsBinaries
  BY <1>2, GoesOn DEF InitDebLocalRepo, InitImageRpmDb, PrepareInitramfsBinaries
<1>3. CASE InstallPackage
  BY <1>3 DEF InstallPackage, Frame, diskVars
<1>4. CASE PackagesInstalled \/ RestoreInitramfsBinaries \/ DeInitDebLocalRepo
  BY <1>4, GoesOn DEF PackagesInstalled, RestoreInitramfsBinaries, DeInitDebLocalRepo
<1>5. CASE PrepareKernels \/ BuildDkms \/ EnsureDepmod \/ UpdateImageConfig
  BY <1>5, GoesOn, GivenUp DEF PrepareKernels, BuildDkms, EnsureDepmod, UpdateImageConfig, RootBecomes, OrGiveUp
<1>16. CASE AddImageAdditionalFiles \/ UsersCreated
  BY <1>16, GoesOn DEF AddImageAdditionalFiles, UsersCreated, RootBecomes
<1>17. CASE CreateNextUser
  BY <1>17, GivenUp DEF CreateNextUser, Frame, diskVars
<1>6. CASE InstallBoot \/ GenerateSBOM \/ SecureImage
  BY <1>6, GoesOn, GivenUp DEF InstallBoot, GenerateSBOM, SecureImage, RootBecomes, OrGiveUp
<1>7. CASE EnableFDE \/ WireFDE
  BY <1>7, GoesOn, GivenUp DEF EnableFDE, WireFDE
<1>8. CASE EncryptPartition
  BY <1>8, GoesOn DEF EncryptPartition, AbandonFDE, Frame, diskVars
<1>14. CASE RemountAfterFDE
  BY <1>14, GoesOn DEF RemountAfterFDE
<1>9. CASE RebuildInitramfs \/ HashRoot \/ InstallLoader \/ Sign \/ PostInstall
  BY <1>9, GoesOn, GivenUp DEF RebuildInitramfs, HashRoot, InstallLoader, Sign, PostInstall, RootBecomes, OrGiveUp
<1>10. CASE PrepareVeritySetup \/ MakeUKI
  BY <1>10, GoesOn, GivenUp DEF PrepareVeritySetup, MakeUKI, SysBecomes
<1>11. CASE UnwindMounts \/ CloseMappers \/ ImageCommandFails
  BY <1>11, GoesOn, GivenUp DEF UnwindMounts, CloseMappers, ImageCommandFails
<1> QED
  BY <1>1, <1>2, <1>3, <1>4, <1>5, <1>6, <1>7, <1>8, <1>9, <1>10, <1>11, <1>12, <1>13, <1>14, <1>15, <1>16, <1>17 DEF ImageNext

(* A disk and its layout. *)
DeviceFields == {"name", "size", "hw", "phys", "parts", "label", "used"}
Sized(d) == d.size \in Nat /\ d.hw \in Nat \ {0} /\ d.phys \in 1 .. Align
Boundary == [fromEnd : BOOLEAN, bytes : Int]

LEMMA Listed ==
  ASSUME world \in Worlds
  PROVE  /\ \A was \in Range(world.devices) : DeviceFields \subseteq DOMAIN was /\ Sized(was)
         /\ Len(Parts) \in Nat /\ DOMAIN Parts = 1 .. Len(Parts)
         /\ \A i \in DOMAIN Parts : Parts[i].start \in Boundary /\ Parts[i].end \in Boundary
         /\ world.cfg.table \in {"gpt", "mbr"}
<1>1. PICK w \in Worlds : w = world
  OBVIOUS
<1>2. w.cfg.partitions \in Seq(Range(w.cfg.partitions)) /\ w.cfg.table \in {"gpt", "mbr"}
  BY DisksAssumption
<1>3. \A was \in Range(w.devices) : DeviceFields \subseteq DOMAIN was /\ Sized(was)
  BY DisksAssumption DEF DeviceFields, Sized
<1>4. \A b \in Boundaries(w.cfg.partitions) : b \in Boundary
  BY DisksAssumption DEF Boundary
<1>5. \A i \in DOMAIN w.cfg.partitions : {w.cfg.partitions[i].start, w.cfg.partitions[i].end} \subseteq Boundaries(w.cfg.partitions)
  BY DEF Boundaries, Range
<1> QED
  BY <1>1, <1>2, <1>3, <1>4, <1>5 DEF Parts

LEMMA SectorOfBoundary ==
  ASSUME NEW d, Sized(d), NEW b \in Boundary, ParseBoundary(b), BoundarySector(d, b) # Refused
  PROVE  /\ BoundarySector(d, b)[1] \in Nat
         /\ b.fromEnd => BoundarySector(d, b)[1] <= d.size \div d.hw
         /\ ~b.fromEnd /\ b.bytes <= d.size /\ (b.bytes + Align <= d.size \/ b.bytes < d.phys)
               => BoundarySector(d, b)[1] <= d.size \div d.hw
<1>1. d.size \in Nat /\ d.hw \in Nat \ {0} /\ d.phys \in Nat \ {0} /\ d.phys <= Align /\ Align \in Nat \ {0} /\ b.bytes \in Nat
  BY DEF Sized, ParseBoundary, IsSize, Boundary, Align
<1>2. \A x, y \in Nat : x <= y => x \div d.hw <= y \div d.hw /\ x \div d.hw \in Nat
  BY <1>1, SMTT(30)
<1>3. CASE b.fromEnd
  <2>1. b.bytes # 0 /\ b.bytes < d.size
    BY <1>1, <1>3 DEF BoundarySector, EndRelativeSector
  <2> DEFINE x == ((d.size - b.bytes) \div Align) * Align
  <2>2. d.size - b.bytes \in Nat
    BY <1>1, <2>1
  <2>3. x \in Nat /\ x <= d.size - b.bytes
    BY <1>1, <2>2, SMTT(30) DEF Align
  <2>4. BoundarySector(d, b)[1] = x \div d.hw
    BY <1>3, <2>1 DEF BoundarySector, EndRelativeSector
  <2> HIDE DEF x
  <2>5. x <= d.size
    BY <1>1, <2>3
  <2> QED
    BY <1>1, <1>2, <1>3, <2>3, <2>4, <2>5
<1>4. CASE ~b.fromEnd /\ b.bytes < d.phys
  <2>1. BoundarySector(d, b)[1] = b.bytes \div d.hw
    BY <1>4 DEF BoundarySector, SectorOffsetFromSize
  <2> QED
    BY <1>1, <1>2, <1>4, <2>1
<1>5. CASE ~b.fromEnd /\ ~(b.bytes < d.phys)
  <2> DEFINE x == ((b.bytes + d.phys - 1) \div d.phys) * d.phys
  <2>1. BoundarySector(d, b)[1] = x \div d.hw
    BY <1>5 DEF BoundarySector, SectorOffsetFromSize
  <2>2. b.bytes + d.phys - 1 \in Nat
    BY <1>1
  <2>3. \A y \in Nat : (y \div d.phys) * d.phys \in Nat /\ (y \div d.phys) * d.phys <= y
    BY <1>1, SMTT(30)
  <2>4. x \in Nat /\ x <= b.bytes + d.phys - 1
    BY <2>2, <2>3
  <2> HIDE DEF x
  <2>5. b.bytes + Align <= d.size => x <= d.size
    BY <1>1, <2>4
  <2> QED
    BY <1>1, <1>2, <1>5, <2>1, <2>4, <2>5
<1> QED
  BY <1>3, <1>4, <1>5

LEMMA SectorsOf ==
  ASSUME NEW d, Sized(d), NEW p, p.start \in Boundary, p.end \in Boundary, PartitionSectors(d, p) # Refused
  PROVE  /\ PartitionSectors(d, p)[1][1] \in Nat /\ PartitionSectors(d, p)[1][2] \in Int
         /\ p.end = Zero => PartitionSectors(d, p)[1][2] = 0
         /\ p.end # Zero => /\ ParseBoundary(p.end) /\ BoundarySector(d, p.end) # Refused
                            /\ PartitionSectors(d, p)[1][2] = BoundarySector(d, p.end)[1] - 1
<1> DEFINE at(b) == IF b = Zero THEN <<0>> ELSE IF ParseBoundary(b) THEN BoundarySector(d, b) ELSE Refused
<1>1. /\ at(p.start) # Refused /\ at(p.end) # Refused
      /\ PartitionSectors(d, p)[1][1] = at(p.start)[1]
      /\ PartitionSectors(d, p)[1][2] = IF p.end = Zero THEN 0 ELSE at(p.end)[1] - 1
  BY DEF PartitionSectors, Refused
<1>2. \A b \in Boundary : at(b) # Refused => at(b)[1] \in Nat
  BY SectorOfBoundary
<1> QED
  BY <1>1, <1>2

(* The tools. *)
LEMMA LeastNatural ==
  ASSUME NEW S \in SUBSET Nat, S # {}
  PROVE  Min(S) \in S /\ \A n \in S : Min(S) <= n
<1>1. PICK m \in S : \A n \in S : ~(<<n, m>> \in OpToRel(<, Nat))
  BY NatLessThanWellFounded, WFMin
<1>2. \A n \in S : ~(n < m)
  BY <1>1 DEF OpToRel
<1>3. \A n \in S : m <= n
  BY <1>2
<1> QED
  BY <1>3 DEF Min

LEMMA ToolPlaces ==
  ASSUME NEW d, Sized(d), PartsApart(d.parts), NEW num, NEW start \in Nat, NEW end \in Int,
         ToolCreates(d, num, "primary", start, end) # Refused
  PROVE  \E n : \E from, to \in Nat :
            /\ ToolCreates(d, num, "primary", start, end) = <<<<n, from, to>>>>
            /\ n \notin DOMAIN d.parts /\ from <= to
            /\ \A m \in DOMAIN d.parts : d.parts[m].to < from \/ to < d.parts[m].from
            /\ n = IF d.label = "gpt" THEN num ELSE Min((1 .. MaxPrimary + 1) \ DOMAIN d.parts)
<1> DEFINE taken == Taken(d, "primary")
           free == Usable(d) \ taken
           from == IF start = 0 /\ free # {} THEN Min(free) ELSE start
           next == {s \in taken : s > from}
           rest == IF next = {} THEN LastSector(d) - IF d.label = "gpt" THEN GptReserved ELSE 0 ELSE Min(next) - 1
           to == IF end = 0 THEN rest ELSE end
           n == IF d.label = "gpt" THEN num ELSE Min((1 .. MaxPrimary + 1) \ DOMAIN d.parts)
<1>1. taken = UNION {d.parts[m].from .. d.parts[m].to : m \in DOMAIN d.parts}
  BY DEF Taken
<1>2. taken \subseteq Nat
  BY <1>1 DEF PartsApart
<1>3. LastSector(d) \in Int
  <2>1. d.size \in Nat /\ d.hw \in Nat \ {0}
    BY DEF Sized
  <2>2. \A x, y \in Nat : y # 0 => x \div y \in Nat
    BY SMTT(30)
  <2>3. d.size \div d.hw \in Nat
    BY <2>1, <2>2
  <2> QED
    BY <2>3 DEF LastSector
<1>4. Usable(d) \subseteq Nat
  BY <1>3 DEF Usable, GptReserved
<1>5. from \in Nat
  BY <1>4, LeastNatural
<1>6. next \subseteq Nat
  BY <1>2
<1> HIDE DEF next
<1>12. next # {} => Min(next) \in Nat
  BY <1>6, LeastNatural
<1>13. rest \in Int
  BY <1>3, <1>12 DEF GptReserved
<1> HIDE DEF rest
<1>7. to \in Int
  BY <1>13
<1>8. ToolCreates(d, num, "primary", start, end) =
         IF n \in DOMAIN d.parts \/ from > to \/ ~(from .. to \subseteq free) THEN Refused ELSE <<<<n, from, to>>>>
  BY DEF ToolCreates, rest, next
<1> HIDE DEF from, to, n, free, taken
<1>9. n \notin DOMAIN d.parts /\ ~(from > to) /\ from .. to \subseteq free
      /\ ToolCreates(d, num, "primary", start, end) = <<<<n, from, to>>>>
  BY <1>8
<1>10. from <= to /\ to \in Nat
  BY <1>5, <1>7, <1>9
<1>11. ASSUME NEW m \in DOMAIN d.parts PROVE d.parts[m].to < from \/ to < d.parts[m].from
  <2>1. /\ d.parts[m].from \in Nat /\ d.parts[m].to \in Nat /\ d.parts[m].from <= d.parts[m].to
    BY DEF PartsApart
  <2>2. d.parts[m].from .. d.parts[m].to \subseteq taken
    BY <1>1
  <2>3. (from .. to) \cap (d.parts[m].from .. d.parts[m].to) = {}
    BY <1>9, <2>2 DEF free
  <2> HIDE DEF free
  <2>4. from \in from .. to /\ d.parts[m].from \in d.parts[m].from .. d.parts[m].to
    BY <1>5, <1>10, <2>1
  <2> QED
    BY <1>5, <1>10, <2>1, <2>3, <2>4
<1> QED
  BY <1>5, <1>9, <1>10, <1>11 DEF n

LEMMA Created ==
  ASSUME NEW d, Sized(d), DeviceFields \subseteq DOMAIN d, PartsApart(d.parts), NEW num,
         NEW p, p.start \in Boundary, p.end \in Boundary,
         DiskPartitionCreate(d, num, p, "primary") # Refused
  PROVE  \E n : \E from, to \in Nat :
            /\ DiskPartitionCreate(d, num, p, "primary") =
                 <<[d EXCEPT !.parts = Put(@, n, [from |-> from, to |-> to, kind |-> "primary", fs |-> "", id |-> p.id])]>>
            /\ n \notin DOMAIN d.parts /\ from <= to
            /\ \A m \in DOMAIN d.parts : d.parts[m].to < from \/ to < d.parts[m].from
            /\ n = IF d.label = "gpt" THEN num ELSE Min((1 .. MaxPrimary + 1) \ DOMAIN d.parts)
<1> DEFINE sectors == PartitionSectors(d, p)
           start == sectors[1][1]
           end == IF sectors[1][2] = 0 THEN 0 ELSE sectors[1][2] - IF d.label = "gpt" THEN 0 ELSE 1
           placed == ToolCreates(d, num, "primary", start, end)
<1>1. DiskPartitionCreate(d, num, p, "primary") =
        IF ~ParseBoundary(p.start) \/ ~ParseBoundary(p.end) \/ p.fs \notin FsTypes
           \/ sectors = Refused \/ placed = Refused \/ (d.label # "gpt" /\ start = 0)
        THEN Refused
        ELSE <<[d EXCEPT !.parts = Put(@, placed[1][1],
                 [from |-> placed[1][2], to |-> placed[1][3], kind |-> "primary", fs |-> "", id |-> p.id])]>>
  BY DEF DiskPartitionCreate
<1>2. sectors # Refused /\ placed # Refused
  BY <1>1
<1>3. start \in Nat /\ end \in Int
  BY <1>2, SectorsOf
<1> HIDE DEF start, end
<1>4. PICK n : \E from, to \in Nat :
            /\ placed = <<<<n, from, to>>>>
            /\ n \notin DOMAIN d.parts /\ from <= to
            /\ \A m \in DOMAIN d.parts : d.parts[m].to < from \/ to < d.parts[m].from
            /\ n = IF d.label = "gpt" THEN num ELSE Min((1 .. MaxPrimary + 1) \ DOMAIN d.parts)
  BY <1>2, <1>3, ToolPlaces
<1>5. PICK from \in Nat, to \in Nat :
            /\ placed = <<<<n, from, to>>>>
            /\ n \notin DOMAIN d.parts /\ from <= to
            /\ \A m \in DOMAIN d.parts : d.parts[m].to < from \/ to < d.parts[m].from
            /\ n = IF d.label = "gpt" THEN num ELSE Min((1 .. MaxPrimary + 1) \ DOMAIN d.parts)
  BY <1>4
<1> HIDE DEF placed, sectors
<1>6. placed[1][1] = n /\ placed[1][2] = from /\ placed[1][3] = to
  BY <1>5
<1>7. DiskPartitionCreate(d, num, p, "primary") =
        <<[d EXCEPT !.parts = Put(@, n, [from |-> from, to |-> to, kind |-> "primary", fs |-> "", id |-> p.id])]>>
  BY <1>1, <1>6
<1> QED
  BY <1>5, <1>7

-----------------------------------------------------------------------------
(* The steps that make the disk. *)
LEMMA StillChosen ==
  ASSUME Cleared, world' = world, Still(disk', disk) PROVE Cleared'
<1>1. PICK was \in Range(world.devices) : Still(disk, was) /\ Chosen(was)
  BY DEF Cleared
<1>2. Still(disk', was)
  BY <1>1 DEF Still
<1>3. Chosen(was)' <=> Chosen(was)
  BY DEF Chosen, Permitted, Parts
<1> QED
  BY <1>1, <1>2, <1>3 DEF Cleared, Still, Chosen, Permitted, Parts

LEMMA ClearedSized ==
  ASSUME world \in Worlds, Cleared PROVE DeviceFields \subseteq DOMAIN disk /\ Sized(disk)
  BY Listed DEF Cleared, Still, Changed, DeviceFields, Sized

\* The disk as it was, or not yet of an installation that comes this far.
LEMMA DiskStays ==
  ASSUME DisksInv, world' = world, disk' = disk, idMap' = idMap, made' = made,
         pc' = "failed" \/ pc' = pc
         \/ (pc \notin Early \cup Clearing \cup {"partition", "failed"} /\ pc' \notin Early \cup Clearing \cup {"partition"})
  PROVE  DisksInv'
<1>1. IsDisk' = IsDisk /\ Parts' = Parts /\ Untouched(disk)' = Untouched(disk) /\ Permitted(disk)' = Permitted(disk)
  BY DEF IsDisk, Parts, Untouched, Permitted
<1>2. Cleared => Cleared'
  BY StillChosen DEF Still
<1>3. ChosenInv'
  BY <1>1, <1>2 DEF DisksInv, ChosenInv, Early, Clearing
<1>4. TableInv'
  BY <1>1 DEF DisksInv, TableInv, Early, Clearing
<1>5. MadeInv'
  BY <1>1 DEF DisksInv, MadeInv, Early, Clearing, LastOf
<1> QED
  BY <1>3, <1>4, <1>5 DEF DisksInv

LEMMA SelectKeeps ==
  ASSUME DisksInv, SelectDisk PROVE DisksInv'
<1>1. CASE Fail
  BY <1>1, DiskStays DEF Fail, Goto
<1>2. ASSUME NEW i \in ResolveInstallDisk(world.devices, world.cfg), DiskBecomes(world.devices[i], "check")
      PROVE  DisksInv'
  <2>1. /\ disk' = world.devices[i] /\ pc' = "check" /\ world' = world /\ idMap' = idMap /\ made' = made /\ pc = "select"
    BY <1>2 DEF DiskBecomes, SelectDisk
  <2>2. i \in DOMAIN world.devices
    BY <1>2 DEF ResolveInstallDisk, EligibleCandidates, SystemBlockDevices
  <2>3. world.cfg.path = <<>> => i \in EligibleCandidates(world.devices, world.cfg)
    BY <1>2 DEF ResolveInstallDisk
  <2>4. Untouched(disk)'
    BY <2>1, <2>2 DEF Untouched, Range
  <2>5. Permitted(disk)'
    BY <2>1, <2>3 DEF Permitted, EligibleCandidates, SystemBlockDevices
  <2>6. ChosenInv'
    BY <2>1, <2>4, <2>5 DEF ChosenInv, Clearing
  <2>7. TableInv' /\ MadeInv'
    BY <2>1 DEF DisksInv, TableInv, MadeInv, Early, Clearing, IsDisk
  <2> QED
    BY <2>6, <2>7 DEF DisksInv
<1> QED
  BY <1>1, <1>2 DEF SelectDisk

LEMMA CheckKeeps ==
  ASSUME DisksInv, CheckLayout PROVE DisksInv'
<1>1. CASE Fail
  BY <1>1, DiskStays DEF Fail, Goto
<1>2. CASE ~Fail
  <2>1. /\ pc = "check" /\ ValidatePartitionLayoutOrder(Parts) /\ CheckEndRelativeLayoutFits(disk, Parts)
        /\ Goto(IF DOMAIN disk.parts = {} THEN "table" ELSE "wipe")
    BY <1>2 DEF CheckLayout
  <2>2. /\ disk' = disk /\ world' = world /\ idMap' = idMap /\ made' = made
        /\ pc' = IF DOMAIN disk.parts = {} THEN "table" ELSE "wipe"
    BY <2>1 DEF Goto
  <2>3. disk \in Range(world.devices) /\ Permitted(disk)
    BY <2>1 DEF DisksInv, ChosenInv, Untouched, Early
  <2>4. Cleared
    BY <2>1, <2>3 DEF Cleared, Still, Chosen
  <2>5. Cleared'
    BY <2>2, <2>4, StillChosen DEF Still
  <2>6. ChosenInv'
    BY <2>2, <2>5 DEF ChosenInv, Early
  <2>7. TableInv' /\ MadeInv'
    BY <2>1, <2>2 DEF DisksInv, TableInv, MadeInv, Early, Clearing, IsDisk
  <2> QED
    BY <2>6, <2>7 DEF DisksInv
<1> QED
  BY <1>1, <1>2

\* What the clearing makes of a disk.
LEMMA Cleans ==
  ASSUME world \in Worlds, DisksInv, pc \in Clearing, NEW d, Still(d, disk), NEW next, DiskBecomes(d, next),
         next \in Clearing \cup {"partition"}, next \in {"table", "force", "partition"} => DOMAIN d.parts = {},
         next = "partition" => d.label = world.cfg.table
  PROVE  DisksInv'
<1>1. world' = world /\ disk' = d /\ idMap' = idMap /\ made' = made /\ pc' = next
  BY DEF DiskBecomes
<1>2. Cleared' /\ IsDisk' = IsDisk /\ Parts' = Parts
  BY <1>1, StillChosen DEF DisksInv, ChosenInv, IsDisk, Parts
<1>3. ChosenInv'
  BY <1>1, <1>2 DEF ChosenInv, Early, Clearing
<1>4. made = 0 /\ DOMAIN idMap = {}
  BY DEF DisksInv, TableInv
<1>5. TableInv'
  BY <1>1, <1>2, <1>4 DEF DisksInv, TableInv, Early, Clearing
<1>6. MadeInv'
  <2>1. Len(Parts) \in Nat
    BY Listed
  <2>2. next = "partition" => IsFiniteSet(DOMAIN d.parts) /\ Cardinality(DOMAIN d.parts) = 0 /\ DOMAIN d.parts = {}
    BY FS_EmptySet
  <2> QED
    BY <1>1, <1>2, <1>4, <2>1, <2>2 DEF MadeInv, Clearing, MaxPrimary, PartsApart
<1> QED
  BY <1>3, <1>5, <1>6 DEF DisksInv

LEMMA Cleaned ==
  ASSUME world \in Worlds, DisksInv, pc \in Clearing
  PROVE  /\ Still(disk, disk)
         /\ Still(Wiped(disk), disk) /\ DOMAIN Wiped(disk).parts = {}
         /\ Still(Labelled(disk), disk) /\ DOMAIN Labelled(disk).parts = {}
         /\ Still([disk EXCEPT !.used = FALSE], disk) /\ [disk EXCEPT !.used = FALSE].parts = disk.parts
<1>1. DeviceFields \subseteq DOMAIN disk
  BY ClearedSized DEF DisksInv, ChosenInv
<1>2. Still(disk, disk)
  BY DEF Still
<1>3. Wiped(disk).parts = <<>> /\ Still(Wiped(disk), disk)
  BY <1>1 DEF Still, Wiped, Changed, DeviceFields
<1>4. Labelled(disk).parts = <<>> /\ Still(Labelled(disk), disk)
  BY <1>1 DEF Still, Labelled, Changed, DeviceFields
<1>5. Still([disk EXCEPT !.used = FALSE], disk) /\ [disk EXCEPT !.used = FALSE].parts = disk.parts
  BY <1>1 DEF Still, Changed, DeviceFields
<1>6. DOMAIN <<>> = {}
  OBVIOUS
<1> QED
  BY <1>2, <1>3, <1>4, <1>5, <1>6

LEMMA ClearingKeeps ==
  ASSUME world \in Worlds, DisksInv,
         WipePartitions \/ CreatePartitionTable \/ ReleaseDisk \/ WipeAgain \/ ForceTable \/ CommandFails
  PROVE  DisksInv'
<1> USE DEF Clearing
<1>1. pc \in {"table", "force"} => DOMAIN disk.parts = {}
  BY DEF DisksInv, TableInv
<1>2. CASE WipePartitions
  BY <1>2, Cleans, Cleaned DEF WipePartitions
<1>3. CASE CreatePartitionTable
  <2>1. pc = "table"
    BY <1>3 DEF CreatePartitionTable
  <2>2. CASE Goto("release")
    BY <2>1, <2>2, Cleans, Cleaned DEF Goto, DiskBecomes
  <2>3. ASSUME NEW d \in {disk, Labelled(disk)},
               DiskBecomes(d, "release") \/ DiskBecomes(d, IF Verified(d) THEN "partition" ELSE "rewipe")
        PROVE  DisksInv'
    <3>1. Still(d, disk) /\ DOMAIN d.parts = {}
      BY <1>1, <2>1, Cleaned
    <3> QED
      BY <2>1, <2>3, <3>1, Cleans DEF Verified
  <2> QED
    BY <1>3, <2>2, <2>3 DEF CreatePartitionTable
<1>4. CASE ReleaseDisk
  BY <1>4, Cleans, Cleaned DEF ReleaseDisk
<1>5. CASE WipeAgain
  <2>1. PICK d \in {disk, Wiped(disk)} : DiskBecomes(d, IF DOMAIN d.parts = {} THEN "force" ELSE "rewipe")
    BY <1>5 DEF WipeAgain
  <2>2. pc \in Clearing /\ Still(d, disk)
    BY <1>5, Cleaned DEF WipeAgain
  <2> QED
    BY <2>1, <2>2, Cleans
<1>6. CASE ForceTable
  <2>1. PICK d \in {disk, Labelled(disk)} : DiskBecomes(d, IF Verified(d) THEN "partition" ELSE "force")
    BY <1>6 DEF ForceTable
  <2>2. pc \in Clearing /\ Still(d, disk) /\ DOMAIN d.parts = {}
    BY <1>1, <1>6, Cleaned DEF ForceTable
  <2> QED
    BY <2>1, <2>2, Cleans DEF Verified
<1>7. CASE CommandFails
  BY <1>7, DiskStays DEF CommandFails, Fail, Goto
<1> QED
  BY <1>2, <1>3, <1>4, <1>5, <1>6, <1>7

LEMMA RefusedPartition ==
  ASSUME world \in Worlds, DisksInv, NEW d, Still(d, disk), NEW num, PartitionFails(d, num), pc = "partition"
  PROVE  DisksInv'
<1>1. /\ disk' = [d EXCEPT !.parts = Restrict(@, {n \in DOMAIN @ : n >= num})]
      /\ pc' = "failed" /\ world' = world /\ idMap' = idMap /\ made' = made
  BY DEF PartitionFails, DiskBecomes
<1>2. Cleared /\ DeviceFields \subseteq DOMAIN disk
  BY ClearedSized DEF DisksInv, ChosenInv
<1>3. Still(disk', disk)
  BY <1>1, <1>2 DEF Still, Changed, DeviceFields
<1>4. Cleared'
  BY <1>1, <1>2, <1>3, StillChosen
<1>5. ChosenInv'
  BY <1>1, <1>4 DEF ChosenInv, Early, Clearing
<1>6. TableInv' /\ MadeInv'
  BY <1>1 DEF TableInv, MadeInv, Early, Clearing
<1> QED
  BY <1>5, <1>6 DEF DisksInv

\* The tools change nothing but the partitions.
LEMMA CreatedStill ==
  ASSUME world \in Worlds, DisksInv, pc = "partition", NEW num, NEW p, NEW kind, NEW d \in Range(DiskPartitionCreate(disk, num, p, kind))
  PROVE  Still(d, disk)
<1>1. Cleared /\ DeviceFields \subseteq DOMAIN disk
  BY ClearedSized DEF DisksInv, ChosenInv
<1> DEFINE r == DiskPartitionCreate(disk, num, p, kind)
<1>2. r = Refused \/ \E parts : r = <<[disk EXCEPT !.parts = parts]>>
  BY DEF DiskPartitionCreate
<1>3. CASE r = Refused
  BY <1>3 DEF Range, Refused
<1>4. ASSUME NEW parts, r = <<[disk EXCEPT !.parts = parts]>> PROVE Still(d, disk)
  <2>1. d = [disk EXCEPT !.parts = parts]
    BY <1>4 DEF Range
  <2> QED
    BY <1>1, <2>1 DEF Still, Changed, DeviceFields
<1> QED
  BY <1>2, <1>3, <1>4

LEMMA ExtendedKeeps ==
  ASSUME world \in Worlds, DisksInv, CreateExtended PROVE DisksInv'
<1> DEFINE r == DiskPartitionCreate(disk, MaxPrimary, Extended(made + 1), "extended")
<1>1. pc = "partition" /\ PartitionFails(IF r = Refused THEN disk ELSE r[1], MaxPrimary)
  BY DEF CreateExtended
<1>2. r # Refused => r[1] \in Range(r)
  <2>1. r = Refused \/ \E d : r = <<d>>
    BY DEF DiskPartitionCreate
  <2> QED
    BY <2>1 DEF Range
<1>3. Still(IF r = Refused THEN disk ELSE r[1], disk)
  BY <1>1, <1>2, CreatedStill DEF Still
<1> HIDE DEF r
<1> QED
  BY <1>1, <1>3, RefusedPartition

LEMMA FirstFree ==
  ASSUME NEW k \in 0 .. MaxPrimary, NEW D, D = 1 .. k
  PROVE  Min((1 .. MaxPrimary + 1) \ D) = k + 1
<1> DEFINE S == (1 .. MaxPrimary + 1) \ D
<1>1. S = k + 1 .. MaxPrimary + 1 /\ k + 1 \in S
  BY DEF MaxPrimary
<1>2. Min(S) \in S /\ \A n \in S : Min(S) <= n
  <2>1. S \subseteq Nat /\ S # {}
    BY <1>1
  <2> QED
    BY <2>1, LeastNatural
<1> HIDE DEF S
<1>3. Min(S) <= k + 1 /\ Min(S) >= k + 1 /\ Min(S) \in Int
  BY <1>1, <1>2
<1> QED
  BY <1>3 DEF S

LEMMA PartitionKeeps ==
  ASSUME world \in Worlds, DisksInv, CreatePartition PROVE DisksInv'
<1> DEFINE p == Parts[made + 1]
           num == PartitionNum(Parts, made + 1, world.cfg.table)
           kind == PartitionKind(Parts, made + 1, world.cfg.table)
           r == DiskPartitionCreate(disk, num, p, kind)
           f == IF r = Refused THEN Refused ELSE Format(r[1], num, p)
<1>1. /\ pc = "partition" /\ made < Len(Parts) /\ ~NeedsExtended(made + 1)
      /\ \/ f # Refused /\ disk' = f[1] /\ made' = made + 1 /\ idMap' = Put(idMap, p.id, num) /\ UNCHANGED <<world, pc, firmware, old>>
         \/ \E d \in {disk} \cup Range(r) : PartitionFails(d, num)
  BY DEF CreatePartition
<1>2. CASE \E d \in {disk} \cup Range(r) : PartitionFails(d, num)
  <2>1. PICK d \in {disk} \cup Range(r) : PartitionFails(d, num)
    BY <1>2
  <2>2. Still(d, disk)
    BY <1>1, CreatedStill DEF Still
  <2> QED
    BY <1>1, <2>1, <2>2, RefusedPartition
<1>3. CASE f # Refused /\ disk' = f[1] /\ made' = made + 1 /\ idMap' = Put(idMap, p.id, num) /\ UNCHANGED <<world, pc, firmware, old>>
  <2>1. Cleared /\ DeviceFields \subseteq DOMAIN disk /\ Sized(disk)
    BY <1>1, ClearedSized DEF DisksInv, ChosenInv
  <2>2. /\ Len(Parts) \in Nat /\ DOMAIN Parts = 1 .. Len(Parts) /\ world.cfg.table \in {"gpt", "mbr"}
        /\ p.start \in Boundary /\ p.end \in Boundary /\ IsDisk
    <3>1. IsDisk /\ made + 1 \in DOMAIN Parts
      BY <1>1, Listed DEF DisksInv, TableInv, MadeInv, Early, Clearing
    <3> QED
      BY <3>1, Listed
  <2>3. /\ made \in 0 .. Len(Parts) /\ PartsApart(disk.parts)
        /\ IsFiniteSet(DOMAIN disk.parts) /\ Cardinality(DOMAIN disk.parts) = made
        /\ world.cfg.table = "mbr" => DOMAIN disk.parts = 1 .. made /\ (made < MaxPrimary \/ Len(Parts) <= MaxPrimary)
        /\ \A id \in DOMAIN idMap : idMap[id] \in DOMAIN disk.parts /\ disk.parts[idMap[id]].id = id
        /\ \A i \in 1 .. made : LET id == Parts[i].id IN
             id \in DOMAIN idMap /\ (LastOf(made, i) => disk.parts[idMap[id]].fs = Parts[i].fs)
        /\ disk.label = world.cfg.table
    BY <1>1, <2>2 DEF DisksInv, MadeInv, TableInv, Early, Clearing
  <2>4. world.cfg.table = "mbr" => made < MaxPrimary /\ (made + 1 < MaxPrimary \/ Len(Parts) <= MaxPrimary)
    BY <1>1, <2>2, <2>3 DEF NeedsExtended, MaxPrimary
  <2>5. kind = "primary"
    BY <2>2, <2>3, <2>4 DEF PartitionKind, MaxPrimary
  <2>6. r # Refused /\ f = Format(r[1], num, p)
    BY <1>3
  <2>25. r = DiskPartitionCreate(disk, num, p, "primary")
    BY <2>5
  <2> HIDE DEF kind, num, p, r, f
  <2>26. PartsApart(disk.parts) /\ DiskPartitionCreate(disk, num, p, "primary") # Refused
    BY <2>3, <2>6, <2>25
  <2>7. PICK n : \E from, to \in Nat :
            /\ r = <<[disk EXCEPT !.parts = Put(@, n, [from |-> from, to |-> to, kind |-> "primary", fs |-> "", id |-> p.id])]>>
            /\ n \notin DOMAIN disk.parts /\ from <= to
            /\ \A m \in DOMAIN disk.parts : disk.parts[m].to < from \/ to < disk.parts[m].from
            /\ n = IF disk.label = "gpt" THEN num ELSE Min((1 .. MaxPrimary + 1) \ DOMAIN disk.parts)
    BY <2>1, <2>2, <2>25, <2>26, Created, Zenon
  <2>8. PICK from \in Nat, to \in Nat :
            /\ r = <<[disk EXCEPT !.parts = Put(@, n, [from |-> from, to |-> to, kind |-> "primary", fs |-> "", id |-> p.id])]>>
            /\ n \notin DOMAIN disk.parts /\ from <= to
            /\ \A m \in DOMAIN disk.parts : disk.parts[m].to < from \/ to < disk.parts[m].from
            /\ n = IF disk.label = "gpt" THEN num ELSE Min((1 .. MaxPrimary + 1) \ DOMAIN disk.parts)
    BY <2>7
  <2>9. n = num
    <3>1. CASE world.cfg.table = "gpt"
      BY <2>3, <2>8, <3>1
    <3>2. CASE world.cfg.table = "mbr"
      <4>1. made \in 0 .. MaxPrimary /\ DOMAIN disk.parts = 1 .. made
        BY <2>3, <2>4, <3>2 DEF MaxPrimary
      <4>2. n = made + 1
        BY <2>3, <2>8, <3>2, <4>1, FirstFree
      <4> QED
        BY <3>2, <4>2 DEF PartitionNum, num
    <3> QED
      BY <2>2, <3>1, <3>2
  <2>27. num \notin DOMAIN disk.parts /\ from <= to
    BY <2>8, <2>9
  <2> DEFINE rec == [from |-> from, to |-> to, kind |-> "primary", fs |-> "", id |-> p.id]
  <2>10. r[1] = [disk EXCEPT !.parts = Put(@, num, rec)]
    BY <2>8, <2>9
  <2>11. DOMAIN r[1] = DOMAIN disk /\ r[1].parts = Put(disk.parts, num, rec) /\ \A x \in DOMAIN disk \ {"parts"} : r[1][x] = disk[x]
    BY <2>1, <2>10 DEF DeviceFields
  <2>12. f = <<[r[1] EXCEPT !.parts[num].fs = p.fs]>>
    BY <1>3, <2>6 DEF Format, f
  <2>13. /\ DOMAIN disk' = DOMAIN disk /\ \A x \in DOMAIN disk \ {"parts"} : disk'[x] = disk[x]
         /\ disk'.parts = [Put(disk.parts, num, rec) EXCEPT ![num] = [rec EXCEPT !.fs = p.fs]]
    <3>1. disk' = [r[1] EXCEPT !.parts[num].fs = p.fs]
      BY <1>3, <2>12
    <3>2. "parts" \in DOMAIN r[1]
      BY <2>1, <2>11 DEF DeviceFields
    <3>3. DOMAIN disk' = DOMAIN r[1] /\ \A x \in DOMAIN r[1] \ {"parts"} : disk'[x] = r[1][x]
      BY <3>1
    <3>4. disk'.parts = [r[1].parts EXCEPT ![num].fs = p.fs]
      BY <3>1, <3>2
    <3>5. Put(disk.parts, num, rec)[num] = rec
      BY DEF Put
    <3> HIDE DEF rec
    <3> QED
      BY <2>11, <3>3, <3>4, <3>5
  <2>14. /\ DOMAIN disk'.parts = DOMAIN disk.parts \cup {num}
         /\ disk'.parts[num] = [from |-> from, to |-> to, kind |-> "primary", fs |-> p.fs, id |-> p.id]
         /\ \A m \in DOMAIN disk.parts : disk'.parts[m] = disk.parts[m]
    BY <2>8, <2>9, <2>13 DEF Put
  <2> HIDE DEF rec
  <2>15. ChosenInv'
    <3>1. Still(disk', disk)
      BY <2>1, <2>13 DEF Still, Changed
    <3>2. Cleared'
      BY <1>3, <2>1, <3>1, StillChosen
    <3> QED
      BY <1>1, <1>3, <3>2 DEF ChosenInv, Early, Clearing
  <2>16. Parts' = Parts /\ IsDisk' = IsDisk /\ pc' = pc /\ world' = world /\ made' = made + 1
    BY <1>3 DEF Parts, IsDisk
  <2>17. TableInv'
    BY <1>1, <2>1, <2>2, <2>3, <2>13, <2>16 DEF TableInv, Early, Clearing, DeviceFields
  <2>18. /\ DOMAIN idMap' = DOMAIN idMap \cup {p.id} /\ idMap'[p.id] = num
         /\ \A id \in DOMAIN idMap \ {p.id} : idMap'[id] = idMap[id]
    BY <1>3 DEF Put
  <2>19. IsFiniteSet(DOMAIN disk'.parts) /\ Cardinality(DOMAIN disk'.parts) = made + 1
    <3>1. num \notin DOMAIN disk.parts /\ made \in Nat
      BY <2>2, <2>3, <2>27
    <3>2. IsFiniteSet(DOMAIN disk.parts \cup {num}) /\ Cardinality(DOMAIN disk.parts \cup {num}) = Cardinality(DOMAIN disk.parts) + 1
      BY <2>3, <3>1, FS_AddElement
    <3> QED
      BY <2>3, <2>14, <3>2
  <2>20. world.cfg.table = "mbr" => DOMAIN disk'.parts = 1 .. made + 1 /\ (made + 1 < MaxPrimary \/ Len(Parts) <= MaxPrimary)
    <3>1. world.cfg.table = "mbr" => num = made + 1
      BY DEF num, PartitionNum
    <3> QED
      BY <2>3, <2>4, <2>14, <3>1
  <2>21. \A id \in DOMAIN idMap' : idMap'[id] \in DOMAIN disk'.parts /\ disk'.parts[idMap'[id]].id = id
    BY <2>3, <2>14, <2>18
  <2>22. ASSUME NEW i \in 1 .. made + 1
         PROVE  /\ Parts[i].id \in DOMAIN idMap'
                /\ (\A j \in i + 1 .. made + 1 : Parts[j].id # Parts[i].id) => disk'.parts[idMap'[Parts[i].id]].fs = Parts[i].fs
    <3>1. CASE i = made + 1
      BY <2>14, <2>18, <3>1 DEF p
    <3>2. CASE i # made + 1
      <4>1. i \in 1 .. made /\ made + 1 \in i + 1 .. made + 1
        BY <2>3, <3>2
      <4>2. Parts[i].id \in DOMAIN idMap /\ (LastOf(made, i) => disk.parts[idMap[Parts[i].id]].fs = Parts[i].fs)
        BY <2>3, <4>1
      <4>3. ASSUME \A j \in i + 1 .. made + 1 : Parts[j].id # Parts[i].id
            PROVE  disk'.parts[idMap'[Parts[i].id]].fs = Parts[i].fs
        <5>1. p.id # Parts[i].id
          BY <4>1, <4>3 DEF p
        <5>2. LastOf(made, i)
          BY <2>2, <2>3, <4>1, <4>3 DEF LastOf
        <5> QED
          BY <2>3, <2>14, <2>18, <4>2, <5>1, <5>2
      <4> QED
        BY <2>18, <4>2, <4>3
    <3> QED
      BY <3>1, <3>2
  <2>23. PartsApart(disk'.parts)
    <3>1. ASSUME NEW m \in DOMAIN disk'.parts
          PROVE  /\ disk'.parts[m].from \in Nat /\ disk'.parts[m].to \in Nat /\ disk'.parts[m].from <= disk'.parts[m].to
                 /\ m # num => disk'.parts[m].to < from \/ to < disk'.parts[m].from
      <4>1. CASE m = num
        BY <2>14, <2>27, <4>1
      <4>2. CASE m # num
        BY <2>3, <2>8, <2>14, <2>27, <4>2 DEF PartsApart
      <4> QED
        BY <4>1, <4>2
    <3>2. \A m, k \in DOMAIN disk.parts : m # k =>
             disk'.parts[m].to < disk'.parts[k].from \/ disk'.parts[k].to < disk'.parts[m].from
      BY <2>3, <2>14 DEF PartsApart
    <3>3. disk'.parts[num].from = from /\ disk'.parts[num].to = to
      BY <2>14
    <3> QED
      BY <2>14, <3>1, <3>2, <3>3 DEF PartsApart
  <2>24. MadeInv'
    <3>1. made + 1 \in 0 .. Len(Parts) /\ pc' = "partition"
      BY <1>1, <2>2, <2>3, <2>16
    <3> QED
      BY <2>16, <2>19, <2>20, <2>21, <2>22, <2>23, <3>1 DEF MadeInv, LastOf
  <2> QED
    BY <2>15, <2>17, <2>24 DEF DisksInv
<1> QED
  BY <1>1, <1>2, <1>3

LEMMA DiskStepsKeep ==
  ASSUME world \in Worlds, DisksInv, DiskNext PROVE DisksInv'
<1>1. CASE InvalidIndexes
  BY <1>1, DiskStays DEF InvalidIndexes, Fail, Goto
<1>2. CASE PartitionsCreated
  <2>1. pc = "partition" /\ made = Len(Parts) /\ pc' = "image" /\ UNCHANGED <<world, disk, idMap, made>>
    BY <1>2 DEF PartitionsCreated, Goto
  <2>2. IsDisk' = IsDisk /\ Parts' = Parts /\ Cleared /\ Untouched(disk)' = Untouched(disk)
    BY <2>1 DEF IsDisk, Parts, DisksInv, ChosenInv, Untouched
  <2>3. ChosenInv'
    BY <2>1, <2>2, StillChosen DEF ChosenInv, Early, Clearing, Still
  <2>4. TableInv' /\ MadeInv'
    BY <2>1, <2>2 DEF DisksInv, TableInv, MadeInv, Early, Clearing, LastOf
  <2> QED
    BY <2>3, <2>4 DEF DisksInv
<1>3. CASE UpdateBootOrder \/ CreateNewBootEntry \/ SetOrder \/ RemoveOldEntry \/ FirmwareFails
  <2>1. UNCHANGED <<world, disk, idMap, made>>
    BY <1>3 DEF UpdateBootOrder, CreateNewBootEntry, SetOrder, RemoveOldEntry, FirmwareFails, Fail, Goto, FirmwareBecomes
  <2>2. pc \in {"bootorder", "bootentry", "setorder", "removeold"}
    BY <1>3 DEF UpdateBootOrder, CreateNewBootEntry, SetOrder, RemoveOldEntry, FirmwareFails
  <2>3. pc' \in {"bootentry", "setorder", "removeold", "done", "failed"}
    BY <1>3 DEF UpdateBootOrder, CreateNewBootEntry, SetOrder, RemoveOldEntry, FirmwareFails, Fail, Goto, FirmwareBecomes
  <2> QED
    BY <2>1, <2>2, <2>3, DiskStays DEF Early, Clearing
<1> QED
  BY <1>1, <1>2, <1>3, SelectKeeps, CheckKeeps, ClearingKeeps, ExtendedKeeps, PartitionKeeps DEF DiskNext

LEMMA DisksStart ==
  ASSUME ImageInit PROVE DisksInv
<1>1. /\ world \in Worlds /\ disk = world.devices[1] /\ idMap = <<>> /\ made = 0
      /\ pc = CASE world.kind = "live" -> "select" [] world.kind = "raw" -> "check" [] OTHER -> "image"
  BY DEF ImageInit, DiskInit
<1>2. PICK w \in Worlds : w = world
  BY <1>1
<1>3. Untouched(disk)
  <2>1. w.devices # <<>> /\ w.devices \in Seq(Range(w.devices))
    BY DisksAssumption
  <2>2. 1 \in DOMAIN w.devices
    BY <2>1
  <2> QED
    BY <1>1, <1>2, <2>2 DEF Untouched, Range
<1>4. ChosenInv
  BY <1>1, <1>3 DEF ChosenInv, Early, Clearing, Permitted
<1>5. TableInv /\ MadeInv
  BY <1>1 DEF TableInv, MadeInv, Early, Clearing, IsDisk
<1> QED
  BY <1>4, <1>5 DEF DisksInv

LEMMA SameSectors ==
  ASSUME NEW d, NEW was, Still(d, was), DeviceFields \subseteq DOMAIN was, NEW p
  PROVE  PartitionSectors(d, p) = PartitionSectors(was, p) /\ LastSector(d) = LastSector(was)
<1>1. d.size = was.size /\ d.hw = was.hw /\ d.phys = was.phys
  BY DEF Still, DeviceFields, Changed
<1>2. \A b : BoundarySector(d, b) = BoundarySector(was, b)
  BY <1>1 DEF BoundarySector, SectorOffsetFromSize, EndRelativeSector
<1> QED
  BY <1>1, <1>2 DEF PartitionSectors, LastSector

LEMMA CheckedFits ==
  ASSUME NEW d, Sized(d), NEW parts, Len(parts) \in Nat, DOMAIN parts = 1 .. Len(parts),
         \A i \in DOMAIN parts : parts[i].start \in Boundary /\ parts[i].end \in Boundary,
         HasEndRelativeBoundary(parts), ValidatePartitionLayoutOrder(parts), CheckEndRelativeLayoutFits(d, parts),
         NEW i \in DOMAIN parts
  PROVE  LET s(j) == PartitionSectors(d, parts[j]) IN
         /\ s(i) # Refused
         /\ s(i)[1][2] # 0 => s(i)[1][1] <= s(i)[1][2] /\ s(i)[1][2] <= LastSector(d)
         /\ s(i)[1][1] <= LastSector(d)
         /\ i > 1 => s(i)[1][1] > s(i - 1)[1][2]
<1> DEFINE s(j) == PartitionSectors(d, parts[j])
           last(j) == IF parts[j].end = Zero THEN LastSector(d) ELSE s(j)[1][2]
<1>1. /\ HasRequiredInstallDiskBytes(d.size, parts)
      /\ \A j \in DOMAIN parts : /\ s(j) # Refused /\ s(j)[1][1] <= last(j)
                                 /\ j > 1 => s(j)[1][1] > last(j - 1)
  <2>1. \A j \in DOMAIN parts : j > 1 => j - 1 \in DOMAIN parts
    OBVIOUS
  <2> QED
    BY <2>1 DEF CheckEndRelativeLayoutFits
<1>2. \A j \in DOMAIN parts : /\ s(j)[1][1] \in Nat /\ s(j)[1][2] \in Int
                              /\ parts[j].end = Zero => s(j)[1][2] = 0
                              /\ parts[j].end # Zero => /\ ParseBoundary(parts[j].end) /\ BoundarySector(d, parts[j].end) # Refused
                                                        /\ s(j)[1][2] = BoundarySector(d, parts[j].end)[1] - 1
  BY <1>1, SectorsOf
<1>3. PICK e \in Boundaries(parts) : e.fromEnd
  BY DEF HasEndRelativeBoundary
<1>4. LastSector(d) \in Int /\ LastSector(d) = d.size \div d.hw - 1 /\ d.size \div d.hw \in Nat
  <2>1. d.size \in Nat /\ d.hw \in Nat \ {0}
    BY DEF Sized
  <2>2. \A n, m \in Nat : m # 0 => n \div m \in Nat
    BY SMTT(30)
  <2>3. d.size \div d.hw \in Nat
    BY <2>1, <2>2
  <2> QED
    BY <2>3 DEF LastSector
<1>5. ASSUME parts[i].end # Zero PROVE s(i)[1][2] <= LastSector(d)
  <2> DEFINE b == parts[i].end
  <2>1. b \in Boundary /\ b \in Boundaries(parts) /\ ParseBoundary(b) /\ BoundarySector(d, b) # Refused
        /\ s(i)[1][2] = BoundarySector(d, b)[1] - 1
    BY <1>2, <1>5 DEF Boundaries, Range
  <2>2. ~b.fromEnd => b.bytes <= d.size /\ b.bytes + Align <= d.size
    <3>1. e.bytes \in Int /\ e.bytes > 0
      <4>1. e \in Boundary
        BY <1>3 DEF Boundaries, Range
      <4>2. ParseBoundary(e)
        BY <1>1, <1>3 DEF HasRequiredInstallDiskBytes
      <4> QED
        BY <1>3, <4>1, <4>2 DEF ParseBoundary, Boundary
    <3>2. ~b.fromEnd => d.size >= b.bytes + (e.bytes + Align)
      BY <1>1, <1>3, <2>1 DEF HasRequiredInstallDiskBytes
    <3>3. b.bytes \in Int /\ d.size \in Nat
      BY <2>1 DEF Boundary, Sized
    <3> QED
      BY <3>1, <3>2, <3>3 DEF Align
  <2> HIDE DEF b
  <2>3. BoundarySector(d, b)[1] \in Nat /\ BoundarySector(d, b)[1] <= d.size \div d.hw
    BY <2>1, <2>2, SectorOfBoundary DEF Boundary
  <2> QED
    BY <1>4, <2>1, <2>3
<1>6. s(i)[1][1] <= LastSector(d)
  <2>1. CASE parts[i].end = Zero
    BY <1>1, <2>1
  <2>2. CASE parts[i].end # Zero
    <3>1. s(i)[1][1] <= s(i)[1][2]
      BY <1>1, <2>2
    <3> QED
      BY <1>2, <1>4, <1>5, <2>2, <3>1
  <2> QED
    BY <2>1, <2>2
<1>7. s(i)[1][2] # 0 => s(i)[1][1] <= s(i)[1][2] /\ s(i)[1][2] <= LastSector(d)
  BY <1>1, <1>2, <1>5
<1>8. ASSUME i > 1 PROVE s(i)[1][1] > s(i - 1)[1][2]
  <2>1. i - 1 \in DOMAIN parts /\ i - 1 # Len(parts)
    BY <1>8
  <2>2. parts[i - 1].end # Zero
    BY <2>1 DEF ValidatePartitionLayoutOrder
  <2> QED
    BY <1>1, <1>8, <2>2
<1> QED
  BY <1>1, <1>6, <1>7, <1>8

LEMMA Asked ==
  ASSUME world \in Worlds, DisksInv PROVE DiskAsAsked
<1>1. ASSUME ~Untouched(disk)
      PROVE  \E was \in Range(world.devices) : Still(disk, was) /\ Chosen(was) /\ DeviceFields \subseteq DOMAIN was /\ Sized(was)
  BY <1>1, Listed DEF DisksInv, ChosenInv, Cleared
<1>2. OccupiedDisksAreKept
  <2> SUFFICES ASSUME world.kind = "live", world.cfg.path = <<>>, ~Untouched(disk),
                      NEW d \in Range(world.devices), d.name = disk.name
               PROVE  /\ ~d.iso /\ d.type = "disk"
                      /\ world.cfg.requireEmpty => DOMAIN d.parts = {}
                      /\ world.cfg.excludeRemovable => ~(d.removable \/ d.hotplug \/ d.usb \/ d.tran = "usb")
    BY DEF OccupiedDisksAreKept
  <2>1. PICK was \in Range(world.devices) : Still(disk, was) /\ Chosen(was) /\ DeviceFields \subseteq DOMAIN was
    BY <1>1
  <2>2. disk.name = was.name
    BY <2>1 DEF Still, DeviceFields, Changed
  <2>3. d = was
    BY <2>2, DisksAssumption
  <2> QED
    BY <2>1, <2>3 DEF Chosen, Permitted, IsExternallyAttached
<1>3. CheckedLayoutFits
  <2> SUFFICES ASSUME ~Untouched(disk), HasEndRelativeBoundary(Parts), NEW i \in DOMAIN Parts
               PROVE  LET s(j) == PartitionSectors(disk, Parts[j]) IN
                      /\ s(i) # Refused
                      /\ s(i)[1][2] # 0 => s(i)[1][1] <= s(i)[1][2] /\ s(i)[1][2] <= LastSector(disk)
                      /\ s(i)[1][1] <= LastSector(disk)
                      /\ i > 1 => s(i)[1][1] > s(i - 1)[1][2]
    <3>1. Len(Parts) \in Nat /\ DOMAIN Parts = 1 .. Len(Parts)
      BY Listed
    <3>2. \A i \in DOMAIN Parts : i > 1 => i - 1 \in DOMAIN Parts
      BY <3>1
    <3> QED
      BY <3>2 DEF CheckedLayoutFits
  <2>1. PICK was \in Range(world.devices) : Still(disk, was) /\ Chosen(was) /\ DeviceFields \subseteq DOMAIN was /\ Sized(was)
    BY <1>1
  <2>2. LastSector(disk) = LastSector(was) /\ \A p : PartitionSectors(disk, p) = PartitionSectors(was, p)
    BY <2>1, SameSectors
  <2>3. LET s(j) == PartitionSectors(was, Parts[j]) IN
        /\ s(i) # Refused
        /\ s(i)[1][2] # 0 => s(i)[1][1] <= s(i)[1][2] /\ s(i)[1][2] <= LastSector(was)
        /\ s(i)[1][1] <= LastSector(was)
        /\ i > 1 => s(i)[1][1] > s(i - 1)[1][2]
    BY <2>1, Listed, CheckedFits DEF Chosen
  <2> QED
    BY <2>2, <2>3
<1>4. IdsNameTheirPartitions
  <2> SUFFICES ASSUME Partitioned PROVE IdsNameTheirPartitions
    BY DEF IdsNameTheirPartitions
  <2>1. /\ made = Len(Parts) /\ Cardinality(DOMAIN disk.parts) = made /\ PartsApart(disk.parts)
        /\ disk.label = world.cfg.table
        /\ \A id \in DOMAIN idMap : idMap[id] \in DOMAIN disk.parts /\ disk.parts[idMap[id]].id = id
        /\ \A i \in 1 .. made : LET id == Parts[i].id IN
             id \in DOMAIN idMap /\ (LastOf(made, i) => disk.parts[idMap[id]].fs = Parts[i].fs)
    BY DEF Partitioned, DisksInv, TableInv, MadeInv, Early, Clearing
  <2>2. DOMAIN Parts = 1 .. made
    BY <2>1, Listed
  <2> QED
    BY <2>1, <2>2 DEF IdsNameTheirPartitions, LastOf, PartsApart
<1> QED
  BY <1>2, <1>3, <1>4 DEF DiskAsAsked

LEMMA DisksKept == InstallSpec => []DisksInv
<1>1. ImageInit => DisksInv
  BY DisksStart
<1>2. ASSUME InstallInv, DisksInv, [InstallNext]_installVars PROVE DisksInv'
  <2>1. world \in Worlds
    BY <1>2 DEF InstallInv, StageInv
  <2>2. CASE DiskNext
    BY <1>2, <2>1, <2>2, DiskStepsKeep
  <2>3. CASE ImageNext
    <3>1. Frame /\ pc \notin OnDisk /\ (pc' \in OnDisk => pc' \in {"failed", "bootorder", "done"})
      BY <2>3, ImageFrame
    <3> QED
      BY <1>2, <3>1, DiskStays DEF Frame, OnDisk, Early, Clearing
  <2>4. CASE UNCHANGED installVars
    BY <1>2, <2>4, DiskStays DEF installVars, diskVars
  <2> QED
    BY <1>2, <2>2, <2>3, <2>4 DEF InstallNext
<1> QED
  BY <1>1, <1>2, Invariant, PTL DEF InstallSpec

(* The disk an image lies on is one the installer was allowed to clear, laid  *)
(* out as it was checked to fit, and has by the id of each partition asked     *)
(* for a file system of its kind in sectors of its own; of any number of       *)
(* disks and partitions, whatever the tools do.                                *)
THEOREM Disk == InstallSpec => []DiskAsAsked
<1>1. InstallInv /\ DisksInv => DiskAsAsked
  BY Asked DEF InstallInv, StageInv
<1> QED
  BY <1>1, Invariant, DisksKept, PTL

-----------------------------------------------------------------------------
(* FirmwareKeepsBooting: between the entry that is made and the old ones that *)
(* go, the order names one that exists.                                      *)
(* Of an installation that replaces earlier ones: fw is the firmware with a   *)
(* new entry n of the disk's ESP.                                            *)
Was == world.firmware
Foreign == {n \in DOMAIN Was.entries : Was.entries[n].label # BootEntryLabel}
Replacing == pc = "removeold" \/ (pc = "done" /\ world.kind = "live" /\ world.efi)
IsNew(n) ==
    /\ n \in Int /\ n \notin DOMAIN Was.entries
    /\ firmware.entries[n].label = BootEntryLabel /\ firmware.entries[n].disk = disk.name
    /\ LET esp == EspPartition(Parts, idMap)
       IN  esp # <<>> /\ esp[1] \in DOMAIN idMap /\ firmware.entries[n].part = idMap[esp[1]]
Boots(fw) == Range(fw.order) \cap DOMAIN fw.entries # {}

(* What of the entries there were is gone is of earlier installations, and    *)
(* none before the new one is first.                                         *)
EntriesInv ==
    /\ DOMAIN firmware = {"order", "entries"}
    /\ pc \notin {"setorder", "removeold", "done", "failed"} => firmware = Was
    /\ pc \in {"bootorder", "bootentry", "setorder", "removeold"} => world.kind = "live"
    /\ pc \in {"bootentry", "setorder", "removeold"} => world.efi /\ old = OldBootEntries(Was)
    /\ \A n \in DOMAIN Was.entries :
         IF n \in DOMAIN firmware.entries THEN firmware.entries[n] = Was.entries[n] ELSE n \in OldBootEntries(Was)
    /\ Boots(Was) => Boots(firmware)
OrderInv ==
    /\ pc = "setorder" =>
         \E n \in DOMAIN firmware.entries :
           /\ IsNew(n) /\ DOMAIN firmware.entries = DOMAIN Was.entries \cup {n}
           /\ \E place \in DOMAIN firmware.order \ DOMAIN Was.order : firmware.order = Put(Was.order, place, n)
    /\ Replacing =>
         \E n \in DOMAIN firmware.entries :
           /\ IsNew(n) /\ DOMAIN firmware.entries \subseteq DOMAIN Was.entries \cup {n}
           /\ 0 \in DOMAIN firmware.order /\ firmware.order[0] = n
           /\ Trying(firmware.order, DOMAIN firmware.entries) =
                PutFirst(Trying(Was.order, IF world.policy = "exclusive" THEN {} ELSE Foreign), n)
           /\ Range(firmware.order) \cap OldBootEntries(Was) = {}
    /\ pc = "done" /\ world.kind = "live" /\ world.efi => DOMAIN firmware.entries \cap OldBootEntries(Was) = {}
FirmwareInv == EntriesInv /\ OrderInv

BootStages == {"bootorder", "bootentry", "setorder", "removeold"}

LEMMA FirmwareStays ==
  ASSUME FirmwareInv, world' = world, firmware' = firmware, disk' = disk, idMap' = idMap,
         \/ pc' = "failed"
         \/ pc' = pc /\ old' = old
         \/ /\ pc \notin {"setorder", "removeold", "done", "failed"} /\ pc' \notin {"bootentry", "setorder", "removeold"}
            /\ pc' = "bootorder" => world.kind = "live"
            /\ pc' = "done" => ~(world.kind = "live" /\ world.efi)
  PROVE  FirmwareInv'
<1>1. EntriesInv'
  BY DEF FirmwareInv, EntriesInv, Was, Boots, OldBootEntries
<1>2. CASE pc' = "failed"
  BY <1>1, <1>2 DEF FirmwareInv, OrderInv, Replacing
<1>3. CASE pc' = pc /\ old' = old
  BY <1>1, <1>3, SMTT(30) DEF FirmwareInv, OrderInv, Replacing, IsNew, Was, Foreign, Parts
<1>4. CASE /\ pc \notin {"setorder", "removeold", "done", "failed"} /\ pc' \notin {"bootentry", "setorder", "removeold"}
           /\ pc' = "bootorder" => world.kind = "live"
           /\ pc' = "done" => ~(world.kind = "live" /\ world.efi)
  BY <1>1, <1>4 DEF FirmwareInv, OrderInv, Replacing
<1> QED
  BY <1>2, <1>3, <1>4

\* While the disk is made, nothing of the firmware is touched.
LEMMA DiskLeavesFirmware ==
  ASSUME DiskNext, pc \notin BootStages
  PROVE  /\ world' = world /\ firmware' = firmware /\ old' = old
         /\ pc \in Early \cup Clearing \cup {"partition"}
         /\ pc' \in Early \cup Clearing \cup {"partition", "image", "failed"}
<1> USE DEF Goto, Fail, DiskBecomes, PartitionFails, Early, Clearing
<1>1. CASE SelectDisk \/ CheckLayout \/ WipePartitions \/ ReleaseDisk \/ WipeAgain \/ ForceTable
  BY <1>1 DEF SelectDisk, CheckLayout, WipePartitions, ReleaseDisk, WipeAgain, ForceTable
<1>2. CASE CreatePartitionTable
  BY <1>2 DEF CreatePartitionTable
<1>3. CASE CreateExtended
  BY <1>3 DEF CreateExtended
<1>4. CASE CreatePartition
  BY <1>4 DEF CreatePartition
<1>5. CASE InvalidIndexes \/ PartitionsCreated \/ CommandFails
  BY <1>5 DEF InvalidIndexes, PartitionsCreated, CommandFails
<1>6. ~(UpdateBootOrder \/ CreateNewBootEntry \/ SetOrder \/ RemoveOldEntry \/ FirmwareFails)
  BY DEF UpdateBootOrder, CreateNewBootEntry, SetOrder, RemoveOldEntry, FirmwareFails, BootStages
<1> QED
  BY <1>1, <1>2, <1>3, <1>4, <1>5, <1>6 DEF DiskNext

LEMMA MakingKeepsFirmware ==
  ASSUME FirmwareInv, DiskNext, pc \notin BootStages PROVE FirmwareInv'
<1>1. /\ world' = world /\ firmware' = firmware /\ old' = old
      /\ pc \in Early \cup Clearing \cup {"partition"}
      /\ pc' \in Early \cup Clearing \cup {"partition", "image", "failed"}
  BY DiskLeavesFirmware
<1>2. EntriesInv'
  BY <1>1 DEF FirmwareInv, EntriesInv, Was, Boots, OldBootEntries, Early, Clearing
<1>3. OrderInv'
  BY <1>1 DEF OrderInv, Replacing, Early, Clearing
<1> QED
  BY <1>2, <1>3 DEF FirmwareInv

LEMMA EspMade ==
  ASSUME world \in Worlds, EspPartition(Parts, idMap) # <<>>
  PROVE  EspPartition(Parts, idMap)[1] \in DOMAIN idMap
<1> DEFINE known == {i \in DOMAIN Parts : Parts[i].id \in DOMAIN idMap}
           typed == {i \in known : Parts[i].type = "esp"}
           mounted == {i \in known : Parts[i].mount = "/boot/efi"}
<1>1. DOMAIN Parts \subseteq Nat
  BY Listed
<1>2. typed \subseteq Nat /\ mounted \subseteq Nat
  BY <1>1
<1>3. typed # {} => Min(typed) \in typed
  BY <1>2, LeastNatural
<1>4. mounted # {} => Min(mounted) \in mounted
  BY <1>2, LeastNatural
<1>5. EspPartition(Parts, idMap) = IF typed # {} THEN <<Parts[Min(typed)].id>>
                                   ELSE IF mounted # {} THEN <<Parts[Min(mounted)].id>> ELSE <<>>
  BY DEF EspPartition
<1> QED
  BY <1>3, <1>4, <1>5

LEMMA OrderListed ==
  ASSUME world \in Worlds
  PROVE  /\ DOMAIN Was = {"order", "entries"} /\ Len(Was.order) \in Nat /\ DOMAIN Was.order = 1 .. Len(Was.order)
         /\ 0 \notin DOMAIN Was.order /\ Len(Was.order) + 1 \notin DOMAIN Was.order
<1>1. PICK w \in Worlds : w = world
  OBVIOUS
<1>2. w.firmware.order \in Seq(Int) /\ DOMAIN w.firmware = {"order", "entries"}
  BY DisksAssumption
<1> QED
  BY <1>1, <1>2 DEF Was

LEMMA OldAndForeign ==
  /\ OldBootEntries(Was) \subseteq DOMAIN Was.entries
  /\ Foreign = DOMAIN Was.entries \ OldBootEntries(Was)
  BY DEF OldBootEntries, Foreign

LEMMA UpdateKeepsFirmware ==
  ASSUME FirmwareInv, UpdateBootOrder PROVE FirmwareInv'
<1>1. CASE (Goto("done") /\ ~world.efi) \/ Fail
  BY <1>1, FirmwareStays DEF UpdateBootOrder, Goto, Fail
<1>2. CASE old' = OldBootEntries(firmware) /\ pc' = "bootentry" /\ UNCHANGED <<world, disk, idMap, made, firmware>> /\ world.efi
  <2>1. pc = "bootorder" /\ firmware = Was /\ world.kind = "live"
    BY DEF UpdateBootOrder, FirmwareInv, EntriesInv
  <2>2. EntriesInv'
    BY <1>2, <2>1 DEF FirmwareInv, EntriesInv, Was, Boots, OldBootEntries
  <2>3. OrderInv'
    BY <1>2 DEF OrderInv, Replacing
  <2> QED
    BY <2>2, <2>3 DEF FirmwareInv
<1> QED
  BY <1>1, <1>2 DEF UpdateBootOrder

LEMMA CreateKeepsFirmware ==
  ASSUME world \in Worlds, FirmwareInv, CreateNewBootEntry PROVE FirmwareInv'
<1> DEFINE esp == EspPartition(Parts, idMap)
<1>1. CASE Fail
  BY <1>1, FirmwareStays DEF Fail, Goto
<1>2. CASE ~Fail
  <2>1. pc = "bootentry" /\ esp # <<>>
    BY <1>2 DEF CreateNewBootEntry
  <2>2. PICK first \in BOOLEAN, n \in FreeNumbers(firmware) :
             FirmwareBecomes(CreateBootEntry(firmware, n, disk.name, idMap[esp[1]], first), "setorder")
    BY <1>2, <2>1 DEF CreateNewBootEntry
  <2>3. /\ firmware = Was /\ old = OldBootEntries(Was) /\ world.kind = "live" /\ world.efi
    BY <2>1 DEF FirmwareInv, EntriesInv
  <2>4. n \in Int /\ n \notin DOMAIN Was.entries
    BY <2>3 DEF FreeNumbers
  <2>5. /\ pc' = "setorder" /\ world' = world /\ disk' = disk /\ idMap' = idMap /\ old' = old
        /\ firmware' = CreateBootEntry(Was, n, disk.name, idMap[esp[1]], first)
    BY <2>2, <2>3 DEF FirmwareBecomes
  <2> DEFINE place == IF first THEN 0 ELSE Len(Was.order) + 1
  <2>6. /\ DOMAIN firmware' = {"order", "entries"}
        /\ firmware'.order = Put(Was.order, place, n)
        /\ firmware'.entries = Put(Was.entries, n, [label |-> BootEntryLabel, disk |-> disk.name, part |-> idMap[esp[1]]])
    BY <2>5 DEF CreateBootEntry
  <2>7. place \notin DOMAIN Was.order
    BY OrderListed
  <2> HIDE DEF place
  <2>8. /\ DOMAIN firmware'.order = DOMAIN Was.order \cup {place} /\ firmware'.order[place] = n
        /\ \A k \in DOMAIN Was.order : firmware'.order[k] = Was.order[k]
    BY <2>6, <2>7 DEF Put
  <2>9. /\ DOMAIN firmware'.entries = DOMAIN Was.entries \cup {n}
        /\ firmware'.entries[n] = [label |-> BootEntryLabel, disk |-> disk.name, part |-> idMap[esp[1]]]
        /\ \A x \in DOMAIN Was.entries : firmware'.entries[x] = Was.entries[x]
    BY <2>4, <2>6 DEF Put
  <2>10. Was' = Was /\ Parts' = Parts /\ OldBootEntries(Was)' = OldBootEntries(Was)
    BY <2>5 DEF Was, Parts, OldBootEntries
  <2>11. Boots(Was) => Boots(firmware)'
    BY <2>8, <2>9 DEF Boots, Range
  <2>12. EntriesInv'
    BY <2>3, <2>5, <2>6, <2>9, <2>10, <2>11 DEF EntriesInv
  <2>13. IsNew(n)'
    BY <2>1, <2>4, <2>5, <2>9, <2>10, EspMade DEF IsNew
  <2>14. OrderInv'
    BY <2>5, <2>6, <2>7, <2>8, <2>9, <2>10, <2>13 DEF OrderInv, Replacing
  <2> QED
    BY <2>12, <2>14 DEF FirmwareInv
<1> QED
  BY <1>1, <1>2

LEMMA ReorderKeepsFirmware ==
  ASSUME world \in Worlds, FirmwareInv, SetOrder PROVE FirmwareInv'
<1>1. CASE Fail
  BY <1>1, FirmwareStays DEF Fail, Goto
<1>2. CASE ~Fail
  <2>1. /\ pc = "setorder" /\ world.kind = "live" /\ world.efi /\ old = OldBootEntries(Was)
        /\ EntriesInv /\ DOMAIN firmware = {"order", "entries"}
    BY DEF SetOrder, FirmwareInv, EntriesInv
  <2>2. PICK n \in DOMAIN firmware.entries :
           /\ IsNew(n) /\ DOMAIN firmware.entries = DOMAIN Was.entries \cup {n}
           /\ \E place \in DOMAIN firmware.order \ DOMAIN Was.order : firmware.order = Put(Was.order, place, n)
    BY <2>1 DEF FirmwareInv, OrderInv
  <2>3. PICK place \in DOMAIN firmware.order \ DOMAIN Was.order : firmware.order = Put(Was.order, place, n)
    BY <2>2
  <2>4. n \in Int /\ n \notin DOMAIN Was.entries /\ firmware.entries[n].label = BootEntryLabel
    BY <2>2 DEF IsNew
  <2>5. \A x \in DOMAIN Was.entries : firmware.entries[x] = Was.entries[x]
    BY <2>1, <2>2 DEF EntriesInv
  <2>6. OldBootEntries(firmware) \ old = {n}
    BY <2>1, <2>2, <2>4, <2>5 DEF OldBootEntries
  <2>7. Max({n}) = n
    BY <2>4 DEF Max
  <2> DEFINE current == Trying(firmware.order, Range(firmware.order) \ old)
             kept == IF world.policy = "exclusive" THEN <<>> ELSE Trying(current, Range(current) \ {n})
  <2>8. FirmwareBecomes([firmware EXCEPT !.order = BootOrderFor(world.policy, n, current)], "removeold")
    BY <1>2, <2>6, <2>7 DEF SetOrder, SetBootOrder
  <2>9. /\ pc' = "removeold" /\ world' = world /\ disk' = disk /\ idMap' = idMap /\ old' = old
        /\ DOMAIN firmware' = {"order", "entries"}
        /\ firmware'.entries = firmware.entries /\ firmware'.order = Put(kept, 0, n)
    BY <2>1, <2>8 DEF FirmwareBecomes, BootOrderFor, PutFirst
  <2>10. /\ DOMAIN current = {k \in DOMAIN firmware.order : firmware.order[k] \notin old}
         /\ \A k \in DOMAIN current : current[k] = firmware.order[k]
    BY DEF Trying, Restrict, Range
  <2>11. /\ DOMAIN firmware.order = DOMAIN Was.order \cup {place} /\ firmware.order[place] = n
         /\ \A k \in DOMAIN Was.order : firmware.order[k] = Was.order[k]
    BY <2>3 DEF Put
  <2> DEFINE others == IF world.policy = "exclusive" THEN {} ELSE {k \in DOMAIN Was.order : Was.order[k] \notin old \cup {n}}
  <2>12. DOMAIN kept = others /\ \A k \in others : kept[k] = Was.order[k]
    <3> HIDE DEF current
    <3>1. CASE world.policy = "exclusive"
      BY <3>1
    <3>2. CASE world.policy # "exclusive"
      <4>1. /\ DOMAIN kept = {k \in DOMAIN current : current[k] # n}
            /\ \A k \in DOMAIN kept : kept[k] = current[k]
        BY <3>2 DEF Trying, Restrict, Range
      <4> HIDE DEF kept
      <4> QED
        BY <3>2, <4>1, <2>10, <2>11
    <3> QED
      BY <3>1, <3>2
  <2> HIDE DEF current, kept
  <2>13. /\ DOMAIN firmware'.order = others \cup {0} /\ firmware'.order[0] = n
         /\ \A k \in others : firmware'.order[k] = Was.order[k]
    <3>1. 0 \notin others
      BY OrderListed
    <3> HIDE DEF others
    <3> QED
      BY <2>9, <2>12, <3>1 DEF Put
  <2>14. Was' = Was /\ Parts' = Parts /\ OldBootEntries(Was)' = OldBootEntries(Was) /\ Foreign' = Foreign
    BY <2>9 DEF Was, Parts, OldBootEntries, Foreign
  <2>15. Boots(firmware)'
    BY <2>9, <2>13 DEF Boots, Range
  <2>16. EntriesInv'
    BY <2>1, <2>9, <2>14, <2>15 DEF EntriesInv
  <2>17. IsNew(n)'
    BY <2>2, <2>9, <2>14 DEF IsNew
  <2>18. Range(firmware'.order) \cap OldBootEntries(Was) = {}
    BY <2>1, <2>4, <2>13, OldAndForeign DEF Range
  <2> DEFINE places == IF world.policy = "exclusive" THEN {} ELSE {k \in DOMAIN Was.order : Was.order[k] \in Foreign}
  <2>19. /\ {k \in DOMAIN firmware'.order : firmware'.order[k] \in DOMAIN firmware'.entries} = places \cup {0}
         /\ \A k \in places : firmware'.order[k] = Was.order[k]
    <3>1. others = IF world.policy = "exclusive" THEN {} ELSE {k \in DOMAIN Was.order : Was.order[k] \notin old \cup {n}}
      OBVIOUS
    <3> HIDE DEF others
    <3> QED
      BY <2>1, <2>2, <2>4, <2>9, <2>13, <3>1, OldAndForeign
  <2>20. 0 \notin places
    BY OrderListed
  <2>21. Trying(firmware'.order, DOMAIN firmware'.entries) = [k \in places \cup {0} |-> firmware'.order[k]]
    BY <2>19 DEF Trying, Restrict
  <2>22. Trying(Was.order, IF world.policy = "exclusive" THEN {} ELSE Foreign) = [k \in places |-> Was.order[k]]
    BY DEF Trying, Restrict
  <2> HIDE DEF places, others
  <2>23. Put([k \in places |-> Was.order[k]], 0, n) = [k \in places \cup {0} |-> firmware'.order[k]]
    BY <2>13, <2>19, <2>20 DEF Put
  <2>24. Trying(firmware'.order, DOMAIN firmware'.entries) =
           PutFirst(Trying(Was.order, IF world.policy = "exclusive" THEN {} ELSE Foreign), n)
    BY <2>21, <2>22, <2>23 DEF PutFirst
  <2>25. OrderInv'
    BY <2>2, <2>9, <2>13, <2>14, <2>17, <2>18, <2>24 DEF OrderInv, Replacing
  <2> QED
    BY <2>16, <2>25 DEF FirmwareInv
<1> QED
  BY <1>1, <1>2

LEMMA RemoveKeepsFirmware ==
  ASSUME world \in Worlds, FirmwareInv, RemoveOldEntry PROVE FirmwareInv'
<1> DEFINE left == old \cap DOMAIN firmware.entries
           kept == PutFirst(Trying(Was.order, IF world.policy = "exclusive" THEN {} ELSE Foreign), firmware.order[0])
<1>1. /\ pc = "removeold" /\ world.kind = "live" /\ world.efi /\ old = OldBootEntries(Was)
      /\ EntriesInv /\ DOMAIN firmware = {"order", "entries"}
  BY DEF RemoveOldEntry, FirmwareInv, EntriesInv
<1>2. PICK n \in DOMAIN firmware.entries :
           /\ IsNew(n) /\ DOMAIN firmware.entries \subseteq DOMAIN Was.entries \cup {n}
           /\ 0 \in DOMAIN firmware.order /\ firmware.order[0] = n
           /\ Trying(firmware.order, DOMAIN firmware.entries) =
                PutFirst(Trying(Was.order, IF world.policy = "exclusive" THEN {} ELSE Foreign), n)
           /\ Range(firmware.order) \cap OldBootEntries(Was) = {}
  BY <1>1 DEF FirmwareInv, OrderInv, Replacing
<1>3. CASE left = {}
  <2>1. pc' = "done" /\ UNCHANGED <<world, disk, idMap, firmware, old>>
    BY <1>3 DEF RemoveOldEntry, Goto
  <2>2. /\ Was' = Was /\ Parts' = Parts /\ OldBootEntries(Was)' = OldBootEntries(Was) /\ Foreign' = Foreign
        /\ IsNew(n)' /\ Boots(Was)' = Boots(Was) /\ Boots(firmware)' = Boots(firmware)
    BY <2>1, <1>2 DEF Was, Parts, OldBootEntries, Foreign, IsNew, Boots
  <2>3. EntriesInv'
    BY <1>1, <2>1, <2>2 DEF EntriesInv
  <2>4. OrderInv'
    BY <1>1, <1>2, <1>3, <2>1, <2>2 DEF OrderInv, Replacing
  <2> QED
    BY <2>3, <2>4 DEF FirmwareInv
<1>4. CASE left # {}
  <2>1. PICK x \in left : FirmwareBecomes(RemoveBootEntry(firmware, x), pc)
    BY <1>4 DEF RemoveOldEntry
  <2>2. /\ pc' = "removeold" /\ world' = world /\ disk' = disk /\ idMap' = idMap /\ old' = old
        /\ DOMAIN firmware' = {"order", "entries"}
        /\ firmware'.entries = [y \in DOMAIN firmware.entries \ {x} |-> firmware.entries[y]]
        /\ firmware'.order = Trying(firmware.order, Range(firmware.order) \ {x})
    BY <1>1, <2>1 DEF FirmwareBecomes, RemoveBootEntry, Restrict
  <2>3. x \in OldBootEntries(Was) /\ x \in DOMAIN Was.entries /\ x \in DOMAIN firmware.entries
    BY <1>1, <2>1, OldAndForeign
  <2>4. x # n
    BY <2>3, <1>2 DEF IsNew
  <2>5. /\ DOMAIN firmware'.order = DOMAIN firmware.order
        /\ \A k \in DOMAIN firmware.order : firmware'.order[k] = firmware.order[k]
    BY <1>2, <2>2, <2>3 DEF Trying, Restrict, Range
  <2>6. /\ DOMAIN firmware'.entries = DOMAIN firmware.entries \ {x}
        /\ \A y \in DOMAIN firmware'.entries : firmware'.entries[y] = firmware.entries[y]
    BY <2>2
  <2>7. Was' = Was /\ Parts' = Parts /\ OldBootEntries(Was)' = OldBootEntries(Was) /\ Foreign' = Foreign
    BY <2>2 DEF Was, Parts, OldBootEntries, Foreign
  <2>8. n \in DOMAIN firmware'.entries
    BY <2>4, <2>6
  <2>9. IsNew(n)'
    BY <1>2, <2>2, <2>6, <2>7, <2>8 DEF IsNew
  <2>10. Range(firmware'.order) = Range(firmware.order)
    BY <2>5 DEF Range
  <2>11. Boots(firmware)'
    BY <1>2, <2>5, <2>8 DEF Boots, Range
  <2>12. EntriesInv'
    BY <1>1, <2>2, <2>3, <2>6, <2>7, <2>11 DEF EntriesInv
  <2>13. Trying(firmware'.order, DOMAIN firmware'.entries) = Trying(firmware.order, DOMAIN firmware.entries)
    <3> DEFINE tried == {k \in DOMAIN firmware.order : firmware.order[k] \in DOMAIN firmware.entries}
    <3>1. {k \in DOMAIN firmware'.order : firmware'.order[k] \in DOMAIN firmware'.entries} = tried
      BY <1>2, <2>3, <2>5, <2>6 DEF Range
    <3>2. Trying(firmware'.order, DOMAIN firmware'.entries) = [k \in tried |-> firmware'.order[k]]
      BY <3>1 DEF Trying, Restrict
    <3>3. Trying(firmware.order, DOMAIN firmware.entries) = [k \in tried |-> firmware.order[k]]
      BY DEF Trying, Restrict
    <3> QED
      BY <2>5, <3>2, <3>3
  <2>14. OrderInv'
    BY <1>2, <2>2, <2>5, <2>6, <2>7, <2>8, <2>9, <2>10, <2>13 DEF OrderInv, Replacing
  <2> QED
    BY <2>12, <2>14 DEF FirmwareInv
<1> QED
  BY <1>3, <1>4

LEMMA FirmwareKept ==
  ASSUME world \in Worlds, FirmwareInv, [InstallNext]_installVars PROVE FirmwareInv'
<1>1. CASE DiskNext /\ pc \in BootStages
  <2>1. CASE UpdateBootOrder \/ CreateNewBootEntry \/ SetOrder \/ RemoveOldEntry
    BY <2>1, UpdateKeepsFirmware, CreateKeepsFirmware, ReorderKeepsFirmware, RemoveKeepsFirmware
  <2>2. CASE FirmwareFails
    BY <2>2, FirmwareStays DEF FirmwareFails, Fail, Goto
  <2>3. pc \notin Early \cup Clearing \cup {"partition"}
    BY <1>1 DEF BootStages, Early, Clearing
  <2>4. ~(SelectDisk \/ CheckLayout \/ WipePartitions \/ CreatePartitionTable \/ ReleaseDisk \/ WipeAgain \/ ForceTable
          \/ CreateExtended \/ CreatePartition \/ InvalidIndexes \/ PartitionsCreated \/ CommandFails)
    BY <2>3 DEF SelectDisk, CheckLayout, WipePartitions, CreatePartitionTable, ReleaseDisk, WipeAgain, ForceTable,
       CreateExtended, CreatePartition, InvalidIndexes, PartitionsCreated, CommandFails, Early, Clearing
  <2> QED
    BY <1>1, <2>1, <2>2, <2>4 DEF DiskNext
<1>2. CASE DiskNext /\ pc \notin BootStages
  BY <1>2, MakingKeepsFirmware
<1>3. CASE ImageNext
  <2>1. /\ Frame /\ pc \notin OnDisk
        /\ pc' \in OnDisk => pc = "close" /\ (pc' = "failed" \/ pc' = IF world.kind = "live" THEN "bootorder" ELSE "done")
    BY <1>3, ImageFrame
  <2> QED
    BY <2>1, FirmwareStays DEF Frame, OnDisk, Early, Clearing
<1>4. CASE UNCHANGED installVars
  BY <1>4, FirmwareStays DEF installVars, diskVars
<1> QED
  BY <1>1, <1>2, <1>3, <1>4 DEF InstallNext

LEMMA FirmwareStart == ASSUME ImageInit PROVE FirmwareInv
<1>1. /\ world \in Worlds /\ firmware = Was
      /\ pc \notin BootStages \cup {"done"}
  BY DEF ImageInit, DiskInit, Was, BootStages
<1>2. EntriesInv
  BY <1>1, OrderListed DEF EntriesInv, BootStages
<1>3. OrderInv
  BY <1>1 DEF OrderInv, Replacing, BootStages
<1> QED
  BY <1>2, <1>3 DEF FirmwareInv

LEMMA Booting ==
  ASSUME world \in Worlds, DisksInv, FirmwareInv PROVE FirmwareKeepsBooting
<1>1. \A n \in Foreign : n \in DOMAIN firmware.entries /\ firmware.entries[n] = Was.entries[n]
  BY OldAndForeign DEF FirmwareInv, EntriesInv
<1>2. Boots(Was) => Boots(firmware)
  BY DEF FirmwareInv, EntriesInv
<1>3. ASSUME pc = "done", world.kind = "live", world.efi
      PROVE  LET new == firmware.order[0] IN
              /\ OldBootEntries(firmware) = {new}
              /\ firmware.entries[new].disk = disk.name
              /\ disk.parts[firmware.entries[new].part].id = EspPartition(Parts, idMap)[1]
              /\ Trying(firmware.order, DOMAIN firmware.entries) =
                    PutFirst(Trying(Was.order, IF world.policy = "exclusive" THEN {} ELSE Foreign), new)
  <2>1. PICK n \in DOMAIN firmware.entries :
           /\ IsNew(n) /\ DOMAIN firmware.entries \subseteq DOMAIN Was.entries \cup {n}
           /\ 0 \in DOMAIN firmware.order /\ firmware.order[0] = n
           /\ Trying(firmware.order, DOMAIN firmware.entries) =
                PutFirst(Trying(Was.order, IF world.policy = "exclusive" THEN {} ELSE Foreign), n)
    BY <1>3 DEF FirmwareInv, OrderInv, Replacing
  <2>2. DOMAIN firmware.entries \cap OldBootEntries(Was) = {}
    BY <1>3 DEF FirmwareInv, OrderInv
  <2>3. firmware.entries[n].label = BootEntryLabel
    BY <2>1 DEF IsNew
  <2>4. OldBootEntries(firmware) = {n}
    <3>1. \A x \in DOMAIN firmware.entries \ {n} : x \in Foreign
      BY <2>1, <2>2, OldAndForeign
    <3>2. \A x \in DOMAIN firmware.entries \ {n} : firmware.entries[x].label # BootEntryLabel
      BY <3>1, <1>1 DEF Foreign
    <3> QED
      BY <2>3, <3>2 DEF OldBootEntries
  <2>5. \A id \in DOMAIN idMap : disk.parts[idMap[id]].id = id
    BY <1>3 DEF DisksInv, MadeInv, IsDisk, Early, Clearing
  <2>6. /\ firmware.entries[n].disk = disk.name
        /\ disk.parts[firmware.entries[n].part].id = EspPartition(Parts, idMap)[1]
    BY <2>1, <2>5 DEF IsNew
  <2> QED
    BY <2>1, <2>4, <2>6
<1> QED
  BY <1>1, <1>2, <1>3 DEF FirmwareKeepsBooting, Boots, Was, Foreign

(* Wherever an installation fails the firmware has something to start if it    *)
(* had, with every entry that is not an installer's as it was; and at the end  *)
(* it starts the image first, and what it started before in the same order.    *)
THEOREM Firmware == InstallSpec => []FirmwareKeepsBooting
<1>1. ImageInit => FirmwareInv
  BY FirmwareStart
<1>2. InstallInv => world \in Worlds
  BY DEF InstallInv, StageInv
<1>3. InstallInv /\ FirmwareInv /\ [InstallNext]_installVars => FirmwareInv'
  BY <1>2, FirmwareKept
<1>4. InstallInv /\ DisksInv /\ FirmwareInv => FirmwareKeepsBooting
  BY <1>2, Booting
<1> QED
  BY <1>1, <1>3, <1>4, Invariant, DisksKept, PTL DEF InstallSpec
-----------------------------------------------------------------------------
(* UsersMayLogIn, ScriptsRun, VendorModulesLoadUnlessLeft: what is made of the users,   *)
(* the units and the modules is made by a stage each, kernel by kernel and    *)
(* user by user, and no later one changes it.                                *)
Fresh == Untaken \cup {"bootstrap", "sysfs", "mount", "packages", "divert", "install", "restore", "deinit"}
Finishing == {"boot", "sbom", "encrypt", "post", "unwind", "close", "bootorder", "bootentry", "setorder", "removeold", "done"}
             \cup Bootable
Lost == pc = "failed" \/ (pc \in {"unwind", "close"} /\ job.failed)

\* The stages go on in order, or the installation is lost.
Onward ==
    \/ Lost'
    \/ pc \in Fresh /\ pc' \in Fresh \cup IF IsDisk THEN {"kernels"} ELSE {"configure"}
    \/ pc = "kernels" /\ pc' = "dkms"
    \/ pc = "dkms" /\ pc' \in {"dkms", "depmod"}
    \/ pc = "depmod" /\ pc' = "configure"
    \/ pc = "configure" /\ pc' = "users"
    \/ pc = "users" /\ pc' \in {"users", "site"}
    \/ pc = "site" /\ pc' \in {"boot", "sbom", "post"}
    \/ pc \in Finishing /\ ~Lost /\ pc' \in Finishing
Untouching ==
    /\ pc # "dkms" => root'.tree = root.tree /\ job'.kernels = job.kernels
    /\ pc \notin {"install", "kernels"} => root'.kernels = root.kernels
    /\ pc \in Fresh \ {"install"} => root'.modules = root.modules
    /\ pc \notin {"configure", "users"} => root'.etc = root.etc
    /\ pc # "users" => job'.users = job.users
    /\ pc \notin {"configure", "site"} => root'.site = root.site
    /\ Fields(root)'
Counts == {"kernels", "users", "failed"} \subseteq DOMAIN job

LEMMA GaveUp ==
  ASSUME GiveUp, Counts, Fields(root), pc \in Stages \ {"close", "failed", "done"}
  PROVE  Onward /\ Untouching
<1>1. job' = [job EXCEPT !.failed = TRUE] /\ pc' = Unwinding /\ root' = root
  BY DEF GiveUp, ImageGoto
<1>2. pc' = "unwind" \/ (pc \in Fresh /\ pc' = "restore")
  BY <1>1 DEF Unwinding, Fresh
<1>3. job'.failed /\ job'.kernels = job.kernels /\ job'.users = job.users
  BY <1>1 DEF Counts
<1> QED
  BY <1>1, <1>2, <1>3 DEF Onward, Untouching, Lost, Fresh, Fields

LEMMA PackagesFollow ==
  ASSUME StageInv,
         \/ StartInstall \/ MountDiskRoot \/ InitRootfsForDeb \/ MountSysfs \/ MountDisk
         \/ InitDebLocalRepo \/ InitImageRpmDb \/ PrepareInitramfsBinaries \/ InstallPackage \/ PackagesInstalled
         \/ RestoreInitramfsBinaries \/ DeInitDebLocalRepo
  PROVE  Onward /\ Untouching
<1> USE DEF ImageGoto, Onward, Untouching, Lost, Fresh, Untaken, Fields
<1>1. Counts /\ Fields(root)
  BY DEF StageInv, Counts
<1>2. CASE StartInstall
  BY <1>1, <1>2 DEF StartInstall
<1>3. CASE MountDiskRoot
  <2>1. CASE GiveUp
    BY <1>1, <1>3, <2>1, GaveUp DEF MountDiskRoot, Stages
  <2>2. CASE job' = [job EXCEPT !.list = {"/"}] /\ ImageGoto("bootstrap") /\ UNCHANGED root
    BY <1>1, <1>3, <2>2 DEF MountDiskRoot, Counts
  <2> QED
    BY <1>3, <2>1, <2>2 DEF MountDiskRoot
<1>4. CASE InitRootfsForDeb
  BY <1>1, <1>4 DEF InitRootfsForDeb, Counts
<1>5. CASE MountSysfs \/ InitImageRpmDb
  BY <1>1, <1>5 DEF MountSysfs, InitImageRpmDb, Counts
<1>6. CASE MountDisk
  BY <1>1, <1>6 DEF MountDisk, Counts
<1>7. CASE InitDebLocalRepo
  BY <1>1, <1>7 DEF InitDebLocalRepo, Counts
<1>8. CASE PrepareInitramfsBinaries
  <2>1. PICK diverted, backups, gen : job' = [job EXCEPT !.diverted = diverted, !.backups = backups]
                                     /\ root' = [root EXCEPT !.gen = gen]
    BY <1>8 DEF PrepareInitramfsBinaries
  <2> QED
    BY <1>1, <1>8, <2>1 DEF PrepareInitramfsBinaries, Counts
<1>9. CASE InstallPackage
  BY <1>1, <1>9 DEF InstallPackage, Counts, diskVars
<1>10. CASE PackagesInstalled
  <2>1. PICK scaffold, gen : root' = [root EXCEPT !.scaffold = scaffold, !.kernels = t.boot, !.modules = t.trees, !.gen = gen]
    BY <1>10 DEF PackagesInstalled
  <2> QED
    BY <1>1, <1>10, <2>1 DEF PackagesInstalled, Counts
<1>11. CASE RestoreInitramfsBinaries
  <2>1. PICK unclean, gen : root' = [root EXCEPT !.gen = gen] /\ job' = [job EXCEPT !.unclean = unclean]
    BY <1>11 DEF RestoreInitramfsBinaries
  <2> QED
    BY <1>1, <1>11, <2>1 DEF RestoreInitramfsBinaries, Counts
<1>12. CASE DeInitDebLocalRepo
  BY <1>1, <1>12 DEF DeInitDebLocalRepo, Counts
<1> QED
  BY <1>2, <1>3, <1>4, <1>5, <1>6, <1>7, <1>8, <1>9, <1>10, <1>11, <1>12

\* A step of the later stages that leaves the users and all that alone.
LEMMA FinishingFollows ==
  ASSUME StageInv, pc \in Finishing \ {"close", "unwind"}, ~Lost, pc' \in Finishing, Same(root, root'),
         job'.kernels = job.kernels /\ job'.users = job.users
  PROVE  Onward /\ Untouching
  BY DEF Onward, Untouching, Same, Stands, Fields, Finishing, Bootable, Fresh, Untaken

LEMMA StagesFollow ==
  ASSUME StageInv,
         \/ PrepareKernels \/ BuildDkms \/ EnsureDepmod \/ AddImageAdditionalFiles \/ CreateNextUser \/ UsersCreated
         \/ UpdateImageConfig
  PROVE  Onward /\ Untouching
<1> USE DEF ImageGoto, RootBecomes, Onward, Untouching, Lost, Fields, Fresh, Untaken
<1>1. Counts /\ Fields(root)
  BY DEF StageInv, Counts
<1>2. CASE GiveUp /\ pc \in {"dkms", "depmod", "users", "site"}
  BY <1>1, <1>2, GaveUp DEF Stages, Working, OnRoot
<1>3. CASE PrepareKernels
  <2>1. PICK r \in FixKernelSymlinks(root) : pc = "kernels" /\ RootBecomes(r, "dkms")
    BY <1>3 DEF PrepareKernels
  <2> QED
    BY <1>1, <2>1, KernelsKeep DEF Stands
<1>4. CASE BuildDkms
  <2>1. CASE ImageGoto("depmod") /\ UNCHANGED <<sys, job, root>> /\ pc = "dkms"
    BY <1>1, <2>1
  <2>2. ASSUME NEW tree, root' = [root EXCEPT !.tree = tree], NEW ok \in BOOLEAN, pc = "dkms",
               job' = IF ok THEN [job EXCEPT !.kernels = @ + 1] ELSE [job EXCEPT !.failed = TRUE],
               ImageGoto(IF ok THEN pc ELSE "unwind")
        PROVE  Onward /\ Untouching
    BY <1>1, <2>2 DEF Counts
  <2>3. ASSUME NEW r, root' = [root EXCEPT !.tree = r.tree], pc = "dkms",
               job' = IF r.ok THEN [job EXCEPT !.kernels = @ + 1] ELSE [job EXCEPT !.failed = TRUE],
               ImageGoto(IF r.ok THEN pc ELSE "unwind")
        PROVE  Onward /\ Untouching
    <3>1. CASE r.ok
      BY <2>2, <2>3, <3>1
    <3>2. CASE ~r.ok
      BY <2>2, <2>3, <3>2
    <3> QED
      BY <3>1, <3>2
  <2> QED
    BY <1>2, <1>4, <2>1, <2>3 DEF BuildDkms
<1>5. CASE EnsureDepmod
  BY <1>1, <1>2, <1>5, KernelsKeep DEF EnsureDepmod, OrGiveUp, SameIfDone, Same, Stands
<1>6. CASE AddImageAdditionalFiles
  <2>1. PICK site, files : pc = "configure" /\ RootBecomes([root EXCEPT !.site = site, !.etc.files = files], "users")
    BY <1>6 DEF AddImageAdditionalFiles
  <2> QED
    BY <1>1, <2>1
<1>7. CASE CreateNextUser
  <2>1. ASSUME NEW etc, root' = [root EXCEPT !.etc = etc], job' = [job EXCEPT !.users = @ + 1],
               UNCHANGED <<sys, diskVars>>, pc = "users"
        PROVE  Onward /\ Untouching
    BY <1>1, <2>1 DEF Counts, diskVars
  <2> QED
    BY <1>2, <1>7, <2>1 DEF CreateNextUser
<1>8. CASE UsersCreated
  <2>1. PICK etc : pc = "users" /\ RootBecomes([root EXCEPT !.etc = etc], "site")
    BY <1>8 DEF UsersCreated
  <2> QED
    BY <1>1, <2>1
<1>9. CASE UpdateImageConfig
  BY <1>1, <1>2, <1>9, ConfigureKeeps DEF UpdateImageConfig, OrGiveUp, Stands
<1> QED
  BY <1>3, <1>4, <1>5, <1>6, <1>7, <1>8, <1>9

LEMMA BootFollows ==
  ASSUME StageInv,
         \/ InstallBoot \/ GenerateSBOM \/ SecureImage \/ WireFDE \/ RebuildInitramfs \/ HashRoot \/ InstallLoader
         \/ Sign \/ PostInstall \/ PrepareVeritySetup \/ MakeUKI
  PROVE  Onward /\ Untouching
<1> USE DEF ImageGoto
<1>1. Counts /\ Fields(root) /\ Same(root, root)
  BY DEF StageInv, Counts, Fields, Same, Stands
<1> DEFINE Through == pc \in Finishing \ {"close", "unwind"} /\ ~Lost
<1>2. ASSUME Through, pc' \in Finishing, Same(root, root'), job' = job PROVE Onward /\ Untouching
  BY <1>2, FinishingFollows
<1>3. ASSUME Through, GiveUp, pc # "done" PROVE Onward /\ Untouching
  BY <1>1, <1>3, GaveUp DEF StageInv, Lost
<1>4. ASSUME NEW r, NEW next, Through, RootBecomes(r, next), next \in Finishing, Same(root, r) PROVE Onward /\ Untouching
  BY <1>2, <1>4 DEF RootBecomes
<1>5. ASSUME NEW x, NEW next, Through, OrGiveUp(x, next), next \in Finishing, SameIfDone(root, x), pc # "done"
      PROVE  Onward /\ Untouching
  BY <1>3, <1>4, <1>5 DEF OrGiveUp, SameIfDone
<1>6. pc \in Finishing \ {"close", "unwind", "failed"} => Through
  BY DEF Lost, Finishing, Bootable
<1> HIDE DEF Through
<1>7. /\ {"boot", "sbom", "secure", "fde", "wire", "initramfs", "verity", "hash", "ukify", "loader", "sign", "post",
          "unwind"} \subseteq Finishing
      /\ "failed" \notin Finishing
  BY DEF Finishing, Bootable
<1>8. CASE InstallBoot
  <2> DEFINE results == InstallImageBoot(root, sys.dev, t, Parts)
  <2>1. pc = "boot" /\ IF results = {} THEN GiveUp ELSE \E r \in results : RootBecomes(r, "sbom")
    BY <1>8 DEF InstallBoot
  <2>2. \A r \in results : Same(root, r)
    BY <1>1, BootKeeps
  <2> HIDE DEF results
  <2> QED
    BY <1>3, <1>4, <1>6, <1>7, <2>1, <2>2
<1>9. CASE GenerateSBOM
  <2>1. Same(root, [root EXCEPT !.sbom = TRUE])
    BY <1>1 DEF Same, Stands, Fields
  <2> QED
    BY <1>4, <1>6, <1>7, <1>9, <2>1 DEF GenerateSBOM
<1>10. CASE SecureImage
  BY <1>1, <1>4, <1>6, <1>7, <1>10, SecureKeeps DEF SecureImage
<1>11. CASE WireFDE
  <2>1. WireFDEBoot(root, sys.dev, t, Parts) # Refused => Same(root, WireFDEBoot(root, sys.dev, t, Parts)[1])
    BY <1>1, SecureKeeps DEF SameIfDone
  <2> QED
    BY <1>2, <1>3, <1>6, <1>7, <1>11, <2>1 DEF WireFDE
<1>12. CASE RebuildInitramfs
  <2> DEFINE k == GetKernelVersionFromBoot(root)
             r == IF k = Refused THEN Refused ELSE UpdateInitramfs(root, k[1], t)
             x == IF r = Refused THEN Refused ELSE <<PrepareESPDir(r[1])>>
             next == IF t.immutable THEN "verity" ELSE "ukify"
  <2>1. pc = "initramfs" /\ OrGiveUp(x, next)
    BY <1>12 DEF RebuildInitramfs
  <2>2. SameIfDone(root, r)
    BY <1>1, SecureKeeps DEF SameIfDone
  <2>3. r # Refused => Same(r[1], PrepareESPDir(r[1]))
    BY <2>2, SecureKeeps DEF SameIfDone, Same, Stands
  <2>4. next \in {"verity", "ukify"}
    OBVIOUS
  <2> HIDE DEF r, next
  <2>5. SameIfDone(root, x)
    BY <2>2, <2>3 DEF SameIfDone, Same, Stands
  <2> HIDE DEF x
  <2> QED
    BY <1>5, <1>6, <1>7, <2>1, <2>4, <2>5
<1>13. CASE HashRoot
  BY <1>1, <1>4, <1>6, <1>7, <1>13, SecureKeeps DEF HashRoot
<1>14. CASE InstallLoader
  BY <1>1, <1>4, <1>6, <1>7, <1>14, SecureKeeps DEF InstallLoader
<1>15. CASE Sign
  BY <1>1, <1>5, <1>6, <1>7, <1>15, SecureKeeps DEF Sign
<1>16. CASE PostInstall
  BY <1>1, <1>2, <1>3, <1>6, <1>7, <1>16 DEF PostInstall
<1>17. CASE PrepareVeritySetup
  <2>1. CASE GiveUp
    BY <1>3, <1>6, <1>7, <1>17, <2>1 DEF PrepareVeritySetup
  <2>2. CASE root' = root /\ job' = job /\ pc' = "hash"
    BY <1>1, <1>2, <1>6, <1>7, <1>17, <2>2 DEF PrepareVeritySetup
  <2>3. CASE root' = root /\ job' = [job EXCEPT !.failed = TRUE] /\ pc' = "unwind"
    BY <1>1, <1>17, <2>3 DEF PrepareVeritySetup, Onward, Untouching, Lost, Counts
  <2> QED
    BY <1>17, <2>1, <2>2, <2>3 DEF PrepareVeritySetup, SysBecomes
<1>18. CASE MakeUKI
  <2> DEFINE options == IF t.immutable THEN ReplaceRootHashPH(root.cmdline[1], root.hashed) ELSE root.cmdline[1]
             built == BuildUKI(root, root.kernels[1], options, t)
             left(r) == IF t.immutable THEN WriteRoot(r, sys.ro) ELSE r
  <2>1. \A r : Fields(r) => Same(r, left(r))
    BY SecureKeeps DEF Same, Stands
  <2>2. SameIfDone(root, built)
    BY <1>1, SecureKeeps
  <2> HIDE DEF built, left
  <2>3. CASE built # Refused /\ root' = left(built[1]) /\ job' = job /\ pc' = "loader" /\ pc = "ukify"
    <3>1. Same(root, built[1])
      BY <2>2, <2>3 DEF SameIfDone
    <3>2. Same(root, root')
      BY <2>1, <2>3, <3>1 DEF Same, Stands
    <3> QED
      BY <1>2, <1>6, <1>7, <2>3, <3>2
  <2>4. CASE root' = left(root) /\ job' = [job EXCEPT !.failed = TRUE] /\ pc' = "unwind" /\ pc = "ukify"
    <3>1. Same(root, root')
      BY <1>1, <2>1, <2>4
    <3> QED
      BY <1>1, <2>4, <3>1 DEF Onward, Untouching, Lost, Counts, Same, Stands, Fresh, Untaken
  <2>5. CASE GiveUp /\ pc = "ukify"
    BY <1>3, <1>6, <1>7, <2>5
  <2> QED
    BY <1>18, <2>3, <2>4, <2>5 DEF MakeUKI, built, left
<1> QED
  BY <1>8, <1>9, <1>10, <1>11, <1>12, <1>13, <1>14, <1>15, <1>16, <1>17, <1>18

LEMMA RestFollows ==
  ASSUME StageInv,
         EnableFDE \/ EncryptPartition \/ RemountAfterFDE \/ UnwindMounts \/ CloseMappers \/ ImageCommandFails
  PROVE  Onward /\ Untouching
<1> USE DEF ImageGoto, Onward, Untouching, Lost, Fields
<1>1. Counts /\ Fields(root)
  BY DEF StageInv, Counts
<1>2. ASSUME AbandonFDE(sys, job.opened) \/ \E s, o : AbandonFDE(s, o), pc = "encrypt" PROVE Onward /\ Untouching
  BY <1>1, <1>2 DEF AbandonFDE, Counts
<1>3. CASE EnableFDE
  <2>1. CASE GiveUp
    BY <1>1, <1>3, <2>1, GaveUp DEF EnableFDE, Stages, Working, OnRoot
  <2>2. CASE ~t.fde.enabled
    BY <1>1, <1>3, <2>2 DEF EnableFDE, Finishing, Bootable
  <2>3. CASE \E r \in UmountDiskFromChroot(sys, job.list) :
                /\ job' = IF r.ok THEN [job EXCEPT !.targets = FdeTargetPartitionIDs(t, Parts)] ELSE [job EXCEPT !.failed = TRUE]
                /\ ImageGoto(IF r.ok THEN "encrypt" ELSE "unwind") /\ UNCHANGED root
    BY <1>1, <1>3, <2>3 DEF EnableFDE, Counts, Finishing, Bootable
  <2> QED
    BY <1>3, <2>1, <2>2, <2>3 DEF EnableFDE
<1>4. CASE EncryptPartition
  <2>1. CASE \E a, b : AbandonFDE(a, b)
    BY <1>2, <1>4, <2>1 DEF EncryptPartition
  <2>2. ASSUME NEW opened, job' = [job EXCEPT !.targets = Tail(@), !.opened = opened], UNCHANGED <<root, diskVars>>
        PROVE  Onward /\ Untouching
    BY <1>1, <1>4, <2>2 DEF EncryptPartition, Counts, diskVars, Finishing
  <2> QED
    BY <1>4, <2>1, <2>2 DEF EncryptPartition
<1>5. CASE RemountAfterFDE
  BY <1>1, <1>5 DEF RemountAfterFDE, Counts, Finishing, Bootable
<1>6. CASE UnwindMounts
  BY <1>1, <1>6 DEF UnwindMounts, Counts, Finishing
<1>7. CASE CloseMappers
  BY <1>1, <1>7 DEF CloseMappers, Counts, Finishing
<1>8. CASE ImageCommandFails
  BY <1>1, <1>8, GaveUp DEF ImageCommandFails, Stages, Working, OnRoot
<1> QED
  BY <1>3, <1>4, <1>5, <1>6, <1>7, <1>8

LEMMA Followed ==
  ASSUME StageInv, ImageNext PROVE Onward /\ Untouching /\ world' = world /\ t' = t /\ IsDisk' = IsDisk
<1>1. Onward /\ Untouching
  BY PackagesFollow, StagesFollow, BootFollows, RestFollows DEF ImageNext
<1>2. world' = world
  BY ImageFrame DEF Frame
<1> QED
  BY <1>1, <1>2 DEF t, IsDisk

-----------------------------------------------------------------------------
(* Modules. *)
TreeFields == {"sources", "built", "installed", "left", "kos", "tools", "staged", "target", "framework"}
\* What is installed was built, and copied or left.
Copied(tree) == \A p \in tree.installed :
    /\ p \in DOMAIN tree.built /\ p[1] \in DOMAIN tree.sources \ {OriginalModule}
    /\ \A n \in tree.built[p] : <<p[2], n>> \in DOMAIN tree.kos \cup tree.left
OneConf(tree) == DOMAIN tree = TreeFields /\ Copied(tree) /\ \A s \in DOMAIN tree.sources : DOMAIN tree.sources[s] \subseteq {1}
\* The kernel has all it was promised.
Signed(tree, k) == \A f \in DOMAIN tree.kos : f[1] = k => tree.kos[f].signed
Retained(tree) == tree.target /\ {"mok_signing_key", "mok_certificate"} \subseteq DOMAIN tree.framework
AllThere(tree, k) ==
    \A s \in DkmsStatus(tree, k) : \A n \in UNION Range(tree.sources[s]) :
        <<k, NormalizeModuleName(n)>> \in DOMAIN tree.kos \cup tree.left
Served(tree, k, dkms) ==
    /\ DkmsStatus(tree, k) # {} /\ dkms.modules \subseteq DkmsStatus(tree, k)
    /\ AllThere(tree, k)
    /\ dkms.sign => Signed(tree, k)
    /\ dkms.retain /\ dkms.sign => Retained(tree)

LEMMA Signing ==
  ASSUME NEW tree, DOMAIN tree = TreeFields, NEW k, NEW dkms, NEW r \in SignDkmsModules(tree, k, dkms), r.ok
  PROVE  /\ DOMAIN r.tree = TreeFields /\ r.tree.sources = tree.sources /\ DOMAIN r.tree.kos = DOMAIN tree.kos
         /\ r.tree.built = tree.built /\ r.tree.installed = tree.installed /\ r.tree.left = tree.left
         /\ \A f \in DOMAIN tree.kos : (f[1] = k => r.tree.kos[f].signed) /\ (f[1] # k => r.tree.kos[f] = tree.kos[f])
         /\ dkms.retain => Retained(r.tree)
         /\ Retained(tree) => Retained(r.tree)
<1> DEFINE files == InstalledDkmsModules(tree, k)
           signed == [f \in DOMAIN tree.kos |-> IF f \in files THEN SignDkmsModule(tree.kos[f]) ELSE tree.kos[f]]
           all == UnstageKey([StageKey(tree) EXCEPT !.kos = [f \in DOMAIN @ |-> IF f \in files THEN SignDkmsModule(@[f]) ELSE @[f]]])
           upTo(done) == [StageKey(tree) EXCEPT !.kos = [f \in DOMAIN @ |-> IF f \in done THEN SignDkmsModule(@[f]) ELSE @[f]]]
<1>1. r.tree = IF dkms.retain THEN RetainSigningIdentity(all) ELSE all
  <2>1. r \in IF ~LocateSignFile(tree, k) \/ files = {} THEN {[ok |-> FALSE, tree |-> tree]}
              ELSE {[ok |-> TRUE, tree |-> IF dkms.retain THEN RetainSigningIdentity(all) ELSE all]}
                   \cup {[ok |-> FALSE, tree |-> UnstageKey(upTo(done))] : done \in SUBSET files}
    BY DEF SignDkmsModules
  <2> HIDE DEF all, upTo, files
  <2> QED
    BY <2>1
<1>2. /\ DOMAIN all = TreeFields /\ all.sources = tree.sources /\ all.kos = signed
      /\ all.built = tree.built /\ all.installed = tree.installed /\ all.left = tree.left
      /\ all.target = tree.target /\ all.framework = tree.framework
  BY DEF UnstageKey, StageKey, TreeFields
<1> HIDE DEF all
<1>3. /\ DOMAIN r.tree = TreeFields /\ r.tree.sources = tree.sources /\ r.tree.kos = signed
      /\ r.tree.built = tree.built /\ r.tree.installed = tree.installed /\ r.tree.left = tree.left
  BY <1>1, <1>2 DEF RetainSigningIdentity, TreeFields
<1>4. dkms.retain => Retained(r.tree)
  <2>1. ASSUME dkms.retain
        PROVE  r.tree.target /\ r.tree.framework = Put(Put(all.framework, "mok_signing_key", "key"), "mok_certificate", "cert")
    BY <1>1, <1>2, <2>1 DEF RetainSigningIdentity, SetFrameworkConfVar, TreeFields
  <2> HIDE DEF all
  <2>2. DOMAIN Put(Put(all.framework, "mok_signing_key", "key"), "mok_certificate", "cert")
          = DOMAIN all.framework \cup {"mok_signing_key"} \cup {"mok_certificate"}
    BY DEF Put
  <2> QED
    BY <2>1, <2>2 DEF Retained
<1>5. Retained(tree) => Retained(r.tree)
  BY <1>1, <1>2, <1>4 DEF Retained
<1>6. \A f \in DOMAIN tree.kos : f \in files <=> f[1] = k
  BY DEF InstalledDkmsModules
<1>7. \A f \in DOMAIN tree.kos : f \in files => signed[f].signed
  BY DEF SignDkmsModule
<1>8. \A f \in DOMAIN tree.kos : f \notin files => signed[f] = tree.kos[f]
  OBVIOUS
<1> QED
  BY <1>3, <1>4, <1>5, <1>6, <1>7, <1>8

\* Of what dkms installs nothing is lost; other kernels' modules stay.
LEMMA Building ==
  ASSUME NEW tree, OneConf(tree), NEW k, NEW o, o.taken \subseteq DOMAIN tree.sources \ {OriginalModule},
         o.taken \cap DkmsStatus(tree, k) = {}, o.installed \subseteq o.taken
  PROVE  LET b == DkmsBuilds(tree, k, o) IN
           /\ OneConf(b) /\ b.sources = tree.sources /\ (Retained(tree) => Retained(b))
           /\ DOMAIN tree.kos \subseteq DOMAIN b.kos /\ tree.left \subseteq b.left
           /\ \A f \in DOMAIN b.kos : f[1] # k => f \in DOMAIN tree.kos /\ b.kos[f] = tree.kos[f]
           /\ \A j : j # k => DkmsStatus(b, j) = DkmsStatus(tree, j)
<1> DEFINE names(s) == {NormalizeModuleName(n) : n \in {x \in UNION Range(tree.sources[s]) : x \in o.compiled}}
           installed == {s \in o.installed : names(s) # {}}
           found == UNION {names(s) : s \in installed}
           files == {k} \X (found \ o.left)
           b == DkmsBuilds(tree, k, o)
<1>1. /\ DOMAIN b = TreeFields /\ b.sources = tree.sources /\ b.target = tree.target /\ b.framework = tree.framework
      /\ b.built = Over(tree.built, [p \in o.taken \X {k} |-> names(p[1])])
      /\ b.installed = tree.installed \cup (installed \X {k})
      /\ b.left = tree.left \cup ({k} \X (found \cap o.left))
      /\ b.kos = Over(tree.kos, [f \in files |-> [compressed |-> o.compressed, signed |-> FALSE]])
  BY DEF DkmsBuilds, OneConf, TreeFields
<1>2. /\ \A s \in installed : s \in o.taken /\ names(s) \subseteq found
      /\ \A f \in files : f[1] = k
  OBVIOUS
<1>3. \A n \in found : <<k, n>> \in files \cup ({k} \X (found \cap o.left))
  <2> HIDE DEF found
  <2> QED
    OBVIOUS
<1> HIDE DEF b, names, installed, found, files
<1>4. /\ DOMAIN b.kos = DOMAIN tree.kos \cup files
      /\ \A f \in DOMAIN tree.kos \ files : b.kos[f] = tree.kos[f]
  BY <1>1 DEF Over
<1>5. /\ DOMAIN b.built = DOMAIN tree.built \cup (o.taken \X {k})
      /\ \A p \in o.taken \X {k} : b.built[p] = names(p[1])
      /\ \A p \in DOMAIN tree.built \ (o.taken \X {k}) : b.built[p] = tree.built[p]
  BY <1>1 DEF Over
<1>6. ASSUME NEW p \in b.installed
      PROVE  /\ p \in DOMAIN b.built /\ p[1] \in DOMAIN b.sources \ {OriginalModule}
             /\ \A n \in b.built[p] : <<p[2], n>> \in DOMAIN b.kos \cup b.left
  <2>1. CASE p \in tree.installed
    <3>1. p \notin o.taken \X {k}
      BY <2>1 DEF DkmsStatus
    <3>2. /\ p \in DOMAIN tree.built /\ p[1] \in DOMAIN tree.sources \ {OriginalModule}
          /\ \A n \in tree.built[p] : <<p[2], n>> \in DOMAIN tree.kos \cup tree.left
      BY <2>1 DEF OneConf, Copied
    <3> QED
      BY <1>1, <1>4, <1>5, <3>1, <3>2
  <2>2. CASE p \in installed \X {k}
    <3>1. p[1] \in installed /\ p[2] = k /\ p \in o.taken \X {k}
      BY <1>2, <2>2
    <3>2. b.built[p] = names(p[1]) /\ p \in DOMAIN b.built
      BY <1>5, <3>1
    <3>3. \A n \in names(p[1]) : <<k, n>> \in DOMAIN b.kos \cup b.left
      BY <1>1, <1>2, <1>3, <1>4, <3>1
    <3> QED
      BY <1>1, <1>2, <3>1, <3>2, <3>3
  <2> QED
    BY <1>1, <2>1, <2>2
<1>7. OneConf(b)
  BY <1>1, <1>6 DEF OneConf, Copied
<1>8. ASSUME NEW j, j # k PROVE DkmsStatus(b, j) = DkmsStatus(tree, j)
  <2>1. \A q : q \in b.installed /\ q[2] = j <=> q \in tree.installed /\ q[2] = j
    BY <1>1, <1>8
  <2> QED
    BY <2>1 DEF DkmsStatus
<1> QED
  BY <1>1, <1>2, <1>4, <1>7, <1>8 DEF Retained, b

\* What is installed and passed the check of what was built is all there.
LEMMA Checked ==
  ASSUME NEW tree, OneConf(tree), NEW k, VerifyDkmsModulesBuilt(tree, k) PROVE AllThere(tree, k)
<1> SUFFICES ASSUME NEW s \in DkmsStatus(tree, k), NEW n \in UNION Range(tree.sources[s])
             PROVE  <<k, NormalizeModuleName(n)>> \in DOMAIN tree.kos \cup tree.left
  BY DEF AllThere
<1>1. PICK p \in tree.installed : p[2] = k /\ p[1] = s
  BY DEF DkmsStatus
<1>2. /\ p \in DOMAIN tree.built /\ s \in DOMAIN tree.sources /\ s # OriginalModule
      /\ \A m \in tree.built[p] : <<k, m>> \in DOMAIN tree.kos \cup tree.left
  BY <1>1 DEF OneConf, Copied
<1>3. {NormalizeModuleName(m) : m \in tree.sources[s][1]} \subseteq tree.built[p]
  BY <1>1, <1>2 DEF VerifyDkmsModulesBuilt
<1>4. n \in tree.sources[s][1]
  BY <1>2 DEF OneConf, Range
<1> QED
  BY <1>2, <1>3, <1>4

LEMMA Serving ==
  ASSUME NEW tree, OneConf(tree), NEW k, NEW dkms, NEW r \in BuildDkmsModulesForKernel(tree, k, dkms), r.ok
  PROVE  OneConf(r.tree) /\ Served(r.tree, k, dkms) /\ \A j : Served(tree, j, dkms) => Served(r.tree, j, dkms)
<1> DEFINE sources == DkmsSources(tree, dkms)
           built(o) == DkmsBuilds(tree, k, o)
<1>1. PICK o \in DkmsOutcomes(tree, k, dkms) :
        /\ sources \subseteq DOMAIN tree.sources \ {OriginalModule}
        /\ VerifyDkmsModulesInstalled(built(o), k, dkms.modules) /\ VerifyDkmsModulesBuilt(built(o), k)
        /\ IF dkms.sign THEN r \in SignDkmsModules(built(o), k, dkms) ELSE r.tree = built(o)
  <2> DEFINE verified(x) == VerifyDkmsModulesInstalled(x, k, dkms.modules) /\ VerifyDkmsModulesBuilt(x, k)
             after(x) == IF ~verified(x) THEN {[ok |-> FALSE, tree |-> x]}
                         ELSE IF dkms.sign THEN SignDkmsModules(x, k, dkms) ELSE {[ok |-> TRUE, tree |-> x]}
  <2>1. r \in {[ok |-> FALSE, tree |-> tree]} \cup
              IF ~(sources \subseteq DOMAIN tree.sources \ {OriginalModule}) THEN {}
              ELSE UNION {after(built(o)) : o \in DkmsOutcomes(tree, k, dkms)}
    BY SMTT(30) DEF BuildDkmsModulesForKernel
  <2> HIDE DEF built, sources
  <2>2. ASSUME NEW x, r \in after(x)
        PROVE  verified(x) /\ IF dkms.sign THEN r \in SignDkmsModules(x, k, dkms) ELSE r.tree = x
    <3> HIDE DEF verified
    <3> QED
      BY <2>2
  <2> HIDE DEF after
  <2>3. r \notin {[ok |-> FALSE, tree |-> tree]}
    OBVIOUS
  <2>4. /\ sources \subseteq DOMAIN tree.sources \ {OriginalModule}
        /\ r \in UNION {after(built(o)) : o \in DkmsOutcomes(tree, k, dkms)}
    BY <2>1, <2>3
  <2>5. PICK o \in DkmsOutcomes(tree, k, dkms) : r \in after(built(o))
    BY <2>4
  <2> QED
    BY <2>2, <2>4, <2>5
<1> DEFINE b == built(o)
<1>2. o.taken \subseteq sources \ DkmsStatus(tree, k) /\ o.installed \subseteq o.taken
  <2> DEFINE fresh == sources \ DkmsStatus(tree, k)
             declared == UNION {UNION Range(tree.sources[s]) : s \in fresh}
             of(taken) == [taken : {taken}, installed : SUBSET taken, compiled : SUBSET declared,
                           left : SUBSET {NormalizeModuleName(n) : n \in declared}, compressed : BOOLEAN]
             choices == IF dkms.modules = {} THEN SUBSET fresh ELSE {fresh}
  <2>1. DkmsOutcomes(tree, k, dkms) = UNION {of(taken) : taken \in choices}
    BY DEF DkmsOutcomes
  <2>2. ASSUME NEW taken, NEW q \in of(taken) PROVE q.taken = taken /\ q.installed \subseteq taken
    <3> HIDE DEF declared
    <3> QED
      OBVIOUS
  <2>3. \A taken \in choices : taken \subseteq fresh
    OBVIOUS
  <2> HIDE DEF of, choices, fresh
  <2>4. PICK taken \in choices : o \in of(taken)
    BY <1>1, <2>1
  <2> QED
    BY <2>2, <2>3, <2>4 DEF fresh
<1> HIDE DEF sources
<1>3. /\ OneConf(b) /\ b.sources = tree.sources /\ (Retained(tree) => Retained(b))
      /\ DOMAIN tree.kos \subseteq DOMAIN b.kos /\ tree.left \subseteq b.left
      /\ \A f \in DOMAIN b.kos : f[1] # k => f \in DOMAIN tree.kos /\ b.kos[f] = tree.kos[f]
      /\ \A j : j # k => DkmsStatus(b, j) = DkmsStatus(tree, j)
  <2>1. o.taken \subseteq DOMAIN tree.sources \ {OriginalModule} /\ o.taken \cap DkmsStatus(tree, k) = {}
    BY <1>1, <1>2
  <2> QED
    BY <1>2, <2>1, Building
<1>4. DkmsStatus(b, k) # {} /\ dkms.modules \subseteq DkmsStatus(b, k)
  BY <1>1 DEF VerifyDkmsModulesInstalled
<1>5. AllThere(b, k)
  BY <1>1, <1>3, Checked
<1>6. /\ OneConf(r.tree) /\ DOMAIN r.tree.kos = DOMAIN b.kos /\ r.tree.left = b.left /\ r.tree.installed = b.installed
      /\ r.tree.sources = b.sources /\ (Retained(b) => Retained(r.tree))
      /\ dkms.sign => Signed(r.tree, k) /\ (dkms.retain => Retained(r.tree))
      /\ \A f \in DOMAIN b.kos : f[1] # k => r.tree.kos[f] = b.kos[f]
  <2>1. CASE ~dkms.sign
    BY <1>1, <1>3, <2>1
  <2>2. CASE dkms.sign
    <3>1. r \in SignDkmsModules(b, k, dkms) /\ DOMAIN b = TreeFields
      BY <1>1, <1>3, <2>2 DEF OneConf
    <3> HIDE DEF b
    <3>2. /\ DOMAIN r.tree = TreeFields /\ r.tree.sources = b.sources /\ DOMAIN r.tree.kos = DOMAIN b.kos
          /\ r.tree.built = b.built /\ r.tree.installed = b.installed /\ r.tree.left = b.left
          /\ \A f \in DOMAIN b.kos : (f[1] = k => r.tree.kos[f].signed) /\ (f[1] # k => r.tree.kos[f] = b.kos[f])
          /\ dkms.retain => Retained(r.tree)
          /\ Retained(b) => Retained(r.tree)
      BY <3>1, Signing
    <3>3. OneConf(r.tree)
      BY <1>3, <3>2 DEF OneConf, Copied
    <3> QED
      BY <3>2, <3>3 DEF Signed
  <2> QED
    BY <2>1, <2>2
<1> HIDE DEF b
<1>7. \A j : DkmsStatus(r.tree, j) = DkmsStatus(b, j)
  BY <1>6 DEF DkmsStatus
<1>8. Served(r.tree, k, dkms)
  BY <1>4, <1>5, <1>6, <1>7 DEF Served, AllThere
<1>9. ASSUME NEW j, j # k, Served(tree, j, dkms) PROVE Served(r.tree, j, dkms)
  <2>1. DkmsStatus(r.tree, j) = DkmsStatus(tree, j) /\ r.tree.sources = tree.sources
    BY <1>3, <1>6, <1>7, <1>9
  <2>2. AllThere(r.tree, j)
    BY <1>3, <1>6, <1>9, <2>1 DEF Served, AllThere
  <2>3. Signed(tree, j) => Signed(r.tree, j)
    BY <1>3, <1>6, <1>9 DEF Signed
  <2> QED
    BY <1>3, <1>6, <1>9, <2>1, <2>2, <2>3 DEF Served
<1> QED
  BY <1>6, <1>8, <1>9

\* The action of each of those stages.
LEMMA Acts ==
  ASSUME ImageNext, pc \in {"install", "kernels", "dkms", "configure", "users", "site"}
  PROVE  \/ pc = "install" /\ (InstallPackage \/ PackagesInstalled)
         \/ pc = "kernels" /\ PrepareKernels
         \/ pc = "dkms" /\ BuildDkms
         \/ pc = "configure" /\ AddImageAdditionalFiles
         \/ pc = "users" /\ (CreateNextUser \/ UsersCreated)
         \/ pc = "site" /\ UpdateImageConfig
         \/ ImageCommandFails
<1>1. ~(StartInstall \/ MountDiskRoot \/ InitRootfsForDeb \/ MountSysfs \/ MountDisk \/ InitDebLocalRepo \/ InitImageRpmDb
        \/ PrepareInitramfsBinaries \/ RestoreInitramfsBinaries \/ DeInitDebLocalRepo \/ EnsureDepmod)
  BY DEF StartInstall, MountDiskRoot, InitRootfsForDeb, MountSysfs, MountDisk, InitDebLocalRepo, InitImageRpmDb,
         PrepareInitramfsBinaries, RestoreInitramfsBinaries, DeInitDebLocalRepo, EnsureDepmod
<1>2. ~(InstallBoot \/ GenerateSBOM \/ SecureImage \/ EnableFDE \/ EncryptPartition \/ RemountAfterFDE \/ WireFDE)
  BY DEF InstallBoot, GenerateSBOM, SecureImage, EnableFDE, EncryptPartition, RemountAfterFDE, WireFDE
<1>3. ~(RebuildInitramfs \/ PrepareVeritySetup \/ HashRoot \/ MakeUKI \/ InstallLoader \/ Sign \/ PostInstall
        \/ UnwindMounts \/ CloseMappers)
  BY DEF RebuildInitramfs, PrepareVeritySetup, HashRoot, MakeUKI, InstallLoader, Sign, PostInstall, UnwindMounts, CloseMappers
<1>4. /\ InstallPackage \/ PackagesInstalled => pc = "install"
      /\ PrepareKernels => pc = "kernels"
      /\ BuildDkms => pc = "dkms"
      /\ AddImageAdditionalFiles => pc = "configure"
      /\ CreateNextUser \/ UsersCreated => pc = "users"
      /\ UpdateImageConfig => pc = "site"
  BY DEF InstallPackage, PackagesInstalled, PrepareKernels, BuildDkms, AddImageAdditionalFiles, CreateNextUser, UsersCreated,
         UpdateImageConfig
<1> QED
  BY <1>1, <1>2, <1>3, <1>4 DEF ImageNext

\* A stage whose command fails.
LEMMA Fails ==
  ASSUME ImageCommandFails PROVE root' = root /\ (pc' = "restore" \/ Lost')
<1>1. root' = root /\ pc' = Unwinding /\ job' = [job EXCEPT !.failed = TRUE]
  BY DEF ImageCommandFails, GiveUp, ImageGoto
<1> QED
  BY <1>1 DEF Lost, Unwinding

LEMMA DiskFollows ==
  ASSUME StageInv, DiskNext, UNCHANGED imageVars
  PROVE  Onward /\ Untouching /\ world' = world /\ root' = root /\ pc \notin {"install", "kernels", "dkms", "configure", "users", "site"}
<1>1. root' = root /\ job' = job /\ world' = world /\ Fields(root)
  BY DiskPcs DEF imageVars, StageInv, Fields
<1>2. \/ pc \in Untaken \ {"image", "mountroot"} /\ pc' \in (Untaken \ {"mountroot"}) \cup {"failed"}
      \/ Installed /\ (Installed' \/ pc' = "failed")
  BY DiskPcs
<1>3. Onward
  BY <1>2 DEF Onward, Fresh, Lost, Finishing, Installed
<1> QED
  BY <1>1, <1>2, <1>3 DEF Untouching, Untaken, Installed, Fields

-----------------------------------------------------------------------------
IsList(s) == Len(s) \in Nat /\ DOMAIN s = 1 .. Len(s)
TreeInv ==
    /\ IsList(root.kernels) /\ (Lost \/ OneConf(root.tree))
    /\ pc \in Fresh \cup {"kernels"} => job.kernels = 0 /\ IsFiniteSet(DOMAIN root.modules)
    /\ pc = "dkms" => /\ job.kernels \in Nat
                      /\ t.dkms.enabled => \A i \in 1 .. job.kernels : Served(root.tree, root.kernels[i], t.dkms)
    /\ IsDisk /\ pc \notin Fresh \cup {"kernels", "dkms"} /\ ~Lost => ModulesLoad(root.tree, Range(root.kernels), t.dkms)

LEMMA AllServed ==
  ASSUME NEW tree, NEW kernels, NEW dkms, dkms.enabled => \A k \in kernels : Served(tree, k, dkms)
  PROVE  ModulesLoad(tree, kernels, dkms)
  BY DEF ModulesLoad, Served, AllThere, Signed, Retained

LEMMA LinkedIsList ==
  ASSUME NEW r, Fields(r), IsList(r.kernels), IsFiniteSet(DOMAIN r.modules), NEW q \in FixKernelSymlinks(r)
  PROVE  IsList(q.kernels)
<1> DEFINE built == {k \in DOMAIN r.modules : r.modules[k].vmlinuz}
<1>1. Cardinality(built) \in Nat
  BY FS_Subset, FS_CardinalityType
<1>2. CASE r.kernels # <<>>
  BY <1>2 DEF FixKernelSymlinks
<1>3. CASE r.kernels = <<>>
  <2>1. PICK s \in [1 .. Cardinality(built) -> built] : q = [r EXCEPT !.kernels = s]
    BY <1>3 DEF FixKernelSymlinks
  <2>2. q.kernels = s
    BY <2>1 DEF Fields
  <2>3. Len(s) = Cardinality(built) /\ DOMAIN s = 1 .. Cardinality(built)
    <3>1. \A n \in Nat : \A S : \A f \in [1 .. n -> S] : Len(f) = n /\ DOMAIN f = 1 .. n
      OBVIOUS
    <3> HIDE DEF built
    <3> QED
      BY <1>1, <3>1
  <2> QED
    BY <1>1, <2>2, <2>3 DEF IsList
<1> QED
  BY <1>2, <1>3

LEMMA TreeKept ==
  ASSUME StageInv, TreeInv, InstallNext PROVE TreeInv'
<1>1. Onward /\ Untouching /\ world' = world
  BY Followed, DiskFollows DEF InstallNext
<1>2. t' = t /\ IsDisk' = IsDisk
  BY <1>1 DEF t, IsDisk
<1>3. CASE pc \notin {"install", "kernels", "dkms"}
  <2>1. root'.kernels = root.kernels /\ root'.tree = root.tree /\ job'.kernels = job.kernels
    BY <1>1, <1>3 DEF Untouching
  <2>2. /\ pc' \in Fresh \cup {"kernels"} => pc \in Fresh /\ root'.modules = root.modules
        /\ pc' = "dkms" => FALSE
        /\ IsDisk /\ pc' \notin Fresh \cup {"kernels", "dkms"} /\ ~Lost' => pc \notin Fresh \cup {"kernels", "dkms"}
        /\ ~Lost' => ~Lost
    BY <1>1, <1>3 DEF Onward, Untouching, Lost, Fresh, Untaken, Finishing, Bootable
  <2> QED
    BY <1>2, <2>1, <2>2 DEF TreeInv
<1>4. CASE pc = "install"
  <2>1. root'.tree = root.tree /\ job'.kernels = job.kernels /\ (Lost' \/ pc' \in Fresh \cup IF IsDisk THEN {"kernels"} ELSE {"configure"})
    BY <1>1, <1>4 DEF Onward, Untouching, Finishing, Bootable
  <2>2. IsList(t.boot) /\ IsFiniteSet(DOMAIN t.trees)
    <3>1. t.boot \in Seq(Range(t.boot)) /\ IsFiniteSet(DOMAIN t.trees)
      BY TemplateAssumption DEF StageInv, t
    <3> QED
      BY <3>1 DEF IsList
  <2>3. \/ root'.kernels = root.kernels /\ root'.modules = root.modules
        \/ root'.kernels = t.boot /\ root'.modules = t.trees
    <3>1. ImageNext
      BY <1>4, DiskFollows DEF InstallNext
    <3>2. CASE InstallPackage
      BY <3>2 DEF InstallPackage, StageInv
    <3>3. CASE PackagesInstalled
      <4>1. PICK scaffold, gen : root' = [root EXCEPT !.scaffold = scaffold, !.kernels = t.boot, !.modules = t.trees, !.gen = gen]
        BY <3>3 DEF PackagesInstalled
      <4> QED
        BY <4>1 DEF StageInv
    <3>4. CASE ImageCommandFails
      BY <3>4, Fails
    <3> QED
      BY <1>4, <3>1, <3>2, <3>3, <3>4, Acts
  <2>4. /\ IsList(root'.kernels) /\ OneConf(root'.tree)
        /\ job'.kernels = 0 /\ IsFiniteSet(DOMAIN root'.modules)
    BY <1>4, <2>1, <2>2, <2>3 DEF TreeInv, Fresh, Lost
  <2>5. pc' # "dkms" /\ (IsDisk /\ pc' \notin Fresh \cup {"kernels", "dkms"} => Lost')
    BY <2>1 DEF Fresh, Untaken, Lost
  <2> QED
    BY <1>2, <2>4, <2>5 DEF TreeInv
<1>5. CASE pc = "kernels"
  <2>1. CASE PrepareKernels
    <3>1. PICK r \in FixKernelSymlinks(root) : root' = r /\ pc' = "dkms"
      BY <2>1 DEF PrepareKernels, RootBecomes, ImageGoto
    <3>2. IsList(root'.kernels)
      BY <1>5, <3>1, LinkedIsList DEF TreeInv, StageInv, Fields
    <3>3. root'.tree = root.tree /\ job'.kernels = 0
      BY <1>1, <1>5 DEF Untouching, TreeInv
    <3>4. OneConf(root'.tree)
      BY <1>5, <3>3 DEF TreeInv, Lost
    <3>5. \A i \in 1 .. job'.kernels : FALSE
      BY <3>3
    <3> QED
      BY <3>1, <3>2, <3>3, <3>4, <3>5 DEF TreeInv, Fresh, Untaken
  <2>2. ~ImageCommandFails
    BY <1>5 DEF ImageCommandFails
  <2> QED
    BY <1>5, <2>1, <2>2, Acts, DiskFollows DEF InstallNext
<1>6. CASE pc = "dkms"
  <2>1. BuildDkms
    <3>1. ~ImageCommandFails
      BY <1>6 DEF ImageCommandFails
    <3> QED
      BY <1>6, <3>1, Acts, DiskFollows DEF InstallNext
  <2>2. root'.kernels = root.kernels
    BY <1>1, <1>6 DEF Untouching
  <2>3. CASE Lost' /\ root'.tree = root.tree
    BY <1>2, <2>2, <2>3 DEF TreeInv, Lost, Fresh, Untaken
  <2>4. CASE /\ ~t.dkms.enabled \/ (job.kernels = Len(root.kernels) /\ root.kernels # <<>>)
             /\ ImageGoto("depmod") /\ UNCHANGED <<sys, job, root>>
    <3>1. t.dkms.enabled => \A k \in Range(root.kernels) : Served(root.tree, k, t.dkms)
      BY <1>6, <2>4 DEF TreeInv, IsList, Range
    <3>2. ModulesLoad(root.tree, Range(root.kernels), t.dkms)
      BY <3>1, AllServed
    <3>3. root' = root /\ pc' = "depmod" /\ IsList(root.kernels) /\ OneConf(root.tree)
      BY <1>6, <2>4 DEF TreeInv, ImageGoto, Lost
    <3> QED
      BY <1>2, <3>2, <3>3 DEF TreeInv, Fresh, Untaken
  <2>5. ASSUME NEW r \in BuildDkmsModulesForKernel(root.tree, root.kernels[job.kernels + 1], t.dkms), r.ok,
               root' = [root EXCEPT !.tree = r.tree], job' = [job EXCEPT !.kernels = @ + 1], pc' = "dkms"
        PROVE  TreeInv'
    <3>1. root'.tree = r.tree /\ job'.kernels = job.kernels + 1 /\ job.kernels \in Nat
      BY <1>6, <2>5 DEF StageInv, TreeInv
    <3> DEFINE k == root.kernels[job.kernels + 1]
    <3>2. OneConf(r.tree) /\ Served(r.tree, k, t.dkms) /\ \A j : Served(root.tree, j, t.dkms) => Served(r.tree, j, t.dkms)
      BY <1>6, <2>5, Serving DEF TreeInv, Lost
    <3>3. t.dkms.enabled => \A i \in 1 .. job.kernels : Served(root.tree, root.kernels[i], t.dkms)
      BY <1>6 DEF TreeInv
    <3>4. t.dkms.enabled => \A i \in 1 .. job.kernels + 1 : Served(r.tree, root.kernels[i], t.dkms)
      <4>1. \A i \in 1 .. job.kernels + 1 : i \in 1 .. job.kernels \/ i = job.kernels + 1
        BY <3>1
      <4> QED
        BY <3>2, <3>3, <4>1
    <3>5. IsList(root.kernels)
      BY DEF TreeInv
    <3> QED
      BY <1>2, <2>2, <2>5, <3>1, <3>2, <3>4, <3>5 DEF TreeInv, Fresh, Untaken
  <2>6. ASSUME NEW r \in BuildDkmsModulesForKernel(root.tree, root.kernels[job.kernels + 1], t.dkms), ~r.ok,
               root' = [root EXCEPT !.tree = r.tree], job' = [job EXCEPT !.failed = TRUE], pc' = "unwind"
        PROVE  TreeInv'
    <3>1. root'.tree = r.tree /\ Lost'
      BY <2>6 DEF StageInv, Lost
    <3> QED
      BY <1>2, <2>2, <2>6, <3>1 DEF TreeInv, Fresh, Untaken
  <2>7. CASE GiveUp
    <3>1. root' = root /\ pc' = "unwind" /\ job' = [job EXCEPT !.failed = TRUE]
      BY <1>6, <2>7 DEF GiveUp, ImageGoto, Unwinding
    <3> QED
      BY <2>3, <3>1 DEF Lost, StageInv
  <2> QED
    BY <1>6, <2>1, <2>4, <2>5, <2>6, <2>7 DEF BuildDkms, ImageGoto
<1> QED
  BY <1>3, <1>4, <1>5, <1>6

LEMMA TreeStart == ASSUME ImageInit PROVE TreeInv
<1>1. /\ world \in Worlds /\ root.kernels = <<>> /\ root.modules = <<>> /\ root.tree = world.t.tree /\ job.kernels = 0
      /\ pc \in {"select", "check", "image"}
  BY DEF ImageInit, DiskInit
<1>2. OneConf(root.tree)
  BY <1>1, TemplateAssumption, DkmsAssumption DEF OneConf, TreeFields, Copied
<1>3. IsList(<<>>) /\ DOMAIN root.modules = {}
  BY <1>1 DEF IsList
<1> QED
  BY <1>1, <1>2, <1>3, FS_EmptySet DEF TreeInv, Fresh, Untaken

-----------------------------------------------------------------------------
(* Units. *)
SiteFields == {"units", "enabled", "files", "executable", "proxy"}
NewSite(files) == [units |-> <<>>, enabled |-> {}, files |-> files, executable |-> {}, proxy |-> {}]
\* Only files are written.
Quiet(s, q) == /\ DOMAIN q = SiteFields /\ q.units = s.units /\ q.enabled = s.enabled /\ q.executable = s.executable
               /\ s.files \subseteq q.files
Networkd == <<"systemd-networkd.service", 0>>
Standing == {Networkd, AutoExpandUnit, MetaDataUnit}

LEMMA ScriptsKept ==
  ASSUME NEW s, NEW q, NEW t0, ScriptsStart(s, t0), Quiet(s, q) PROVE ScriptsStart(q, t0)
<1>1. Before(q) = Before(s)
  BY DEF Before, Quiet
<1> QED
  BY <1>1 DEF ScriptsStart, Quiet

LEMMA QuietWrites ==
  ASSUME NEW s, DOMAIN s = SiteFields
  PROVE  /\ Quiet(s, s) /\ \A names : Quiet(s, WriteFiles(s, names))
         /\ \A os, immutable : Quiet(s, WriteAptPolicy(s, os, immutable))
         /\ \A proxy : Quiet(s, WriteProxyConfig(s, proxy))
         /\ \A network : WriteNetworkConfig(s, network) # Refused => Quiet(s, WriteNetworkConfig(s, network)[1])
<1>1. Quiet(s, s) /\ \A names : Quiet(s, WriteFiles(s, names))
  BY DEF Quiet, WriteFiles, SiteFields
<1>2. \A os, immutable : Quiet(s, WriteAptPolicy(s, os, immutable))
  BY <1>1 DEF WriteAptPolicy
<1>3. \A proxy : Quiet(s, WriteProxyConfig(s, proxy))
  <2> SUFFICES ASSUME NEW proxy PROVE Quiet(s, WriteProxyConfig(s, proxy))
    OBVIOUS
  <2>1. PICK names : WriteProxyConfig(s, proxy) \in {s, [WriteFiles(s, names) EXCEPT !.proxy = proxy]}
    BY DEF WriteProxyConfig
  <2>2. Quiet(s, WriteFiles(s, names))
    BY <1>1
  <2>3. \A q : Quiet(s, q) => Quiet(s, [q EXCEPT !.proxy = proxy])
    BY DEF Quiet, SiteFields
  <2> QED
    BY <1>1, <2>1, <2>2, <2>3
<1>4. \A network : WriteNetworkConfig(s, network) # Refused => Quiet(s, WriteNetworkConfig(s, network)[1])
  <2> SUFFICES ASSUME NEW network, WriteNetworkConfig(s, network) # Refused
               PROVE  Quiet(s, WriteNetworkConfig(s, network)[1])
    OBVIOUS
  <2>1. PICK names : WriteNetworkConfig(s, network) \in {Refused, <<s>>, <<WriteFiles(s, names)>>}
    BY DEF WriteNetworkConfig
  <2> QED
    BY <1>1, <2>1
<1> QED
  BY <1>1, <1>2, <1>3, <1>4

(* In what order the units come. *)
Rank(u, n, beforeLogin) ==
    CASE u[1] = "ict-provision"                                              -> (IF beforeLogin THEN 3 ELSE 6 + n) + u[2]
      [] u[1] \in {"ict-meta-data.service", "ict-auto-expand-last-partition.service"} -> 1
      [] u[1] = "cloud-init-local.service"                                   -> 2
      [] u[1] = "cloud-config.service"                                       -> 3
      [] u[1] \in {"systemd-user-sessions.service", "apt-daily.service"}     -> 4 + n
      [] u[1] = "multi-user.target"                                          -> 5 + n
      [] u[1] = "cloud-final.service"                                        -> 6 + n
      [] OTHER                                                               -> 0
\* A unit that is no script's, and needs no other.
OwnUnit(u, unit) == (u = MetaDataUnit /\ unit = RenderMetaDataUnit) \/ (u = AutoExpandUnit /\ unit = AutoExpandService)
Earlier(i) == IF i = 1 THEN {} ELSE {UnitName(i - 1)}
\* The units there can be.
Scheduled(s, scripts, beforeLogin) ==
    LET names == {UnitName(i) : i \in DOMAIN scripts} IN
      /\ DOMAIN s = SiteFields
      /\ s.enabled \subseteq Standing \cup {Trigger} \cup IF beforeLogin THEN names ELSE {}
      /\ \A u \in DOMAIN s.units :
           \/ OwnUnit(u, s.units[u])
           \/ u = Trigger /\ s.units[u] = RenderProvisioningTrigger(names)
           \/ \E i \in DOMAIN scripts : u = UnitName(i) /\ s.units[u] = RenderProvisioningUnit(scripts[i], Earlier(i), beforeLogin)

LEMMA Edges ==
  ASSUME NEW s
  PROVE  LET enter == <<"multi-user.target", 0>> IN
           /\ \A u \in DOMAIN s.units : \A v : v \in s.units[u].after => <<v, u>> \in Before(s)
           /\ \A e \in Before(s) :
                \/ \E u \in DOMAIN s.units : e \in (s.units[u].after \X {u}) \cup ({u} \X s.units[u].before)
                \/ e \in s.enabled \X {enter}
                \/ e \in {<<<<"cloud-init-local.service", 0>>, <<"cloud-config.service", 0>>>>, <<<<"cloud-config.service", 0>>, enter>>,
                          <<<<"systemd-user-sessions.service", 0>>, enter>>, <<enter, <<"cloud-final.service", 0>>>>}
<1> DEFINE enter == <<"multi-user.target", 0>>
           of(u) == (s.units[u].after \X {u}) \cup ({u} \X s.units[u].before)
           units == DOMAIN s.units
           all == UNION {of(u) : u \in units}
           fixed == {<<<<"cloud-init-local.service", 0>>, <<"cloud-config.service", 0>>>>, <<<<"cloud-config.service", 0>>, enter>>,
                     <<<<"systemd-user-sessions.service", 0>>, enter>>, <<enter, <<"cloud-final.service", 0>>>>}
<1>1. Before(s) = all \cup (s.enabled \X {enter}) \cup fixed
  BY DEF Before
<1>2. \A e : e \in all <=> \E u \in units : e \in of(u)
  <2> HIDE DEF of, units
  <2> QED
    OBVIOUS
<1>3. \A u \in units : \A v : v \in s.units[u].after => <<v, u>> \in of(u)
  OBVIOUS
<1> HIDE DEF all, fixed, of
<1>4. \A u \in units : \A v : v \in s.units[u].after => <<v, u>> \in Before(s)
  BY <1>1, <1>2, <1>3
<1>5. \A e \in Before(s) : (\E u \in units : e \in of(u)) \/ e \in s.enabled \X {enter} \/ e \in fixed
  BY <1>1, <1>2
<1> QED
  BY <1>4, <1>5 DEF of, fixed

\* Each waits for those of a lower rank only.
LEMMA Ordered ==
  ASSUME NEW s, NEW scripts, IsList(scripts), NEW beforeLogin, Scheduled(s, scripts, beforeLogin)
  PROVE  Orderable(Before(s))
<1> DEFINE n == Len(scripts)
           rank(u) == Rank(u, n, beforeLogin)
           Lower(u, v) == rank(u) \in Nat /\ rank(v) \in Nat /\ rank(u) < rank(v)
           enter == <<"multi-user.target", 0>>
<1>1. n \in Nat /\ DOMAIN scripts = 1 .. n
  BY DEF IsList
<1>2. \A i \in 1 .. n : UnitName(i) = <<"ict-provision", i>> /\ rank(UnitName(i)) = (IF beforeLogin THEN 3 ELSE 6 + n) + i
  BY <1>1 DEF UnitName, Rank
<1>3. /\ rank(MetaDataUnit) = 1 /\ rank(AutoExpandUnit) = 1 /\ rank(Trigger) = 0 /\ rank(Networkd) = 0 /\ rank(enter) = 5 + n
      /\ rank(<<"network-online.target", 0>>) = 0 /\ rank(<<"local-fs.target", 0>>) = 0
      /\ rank(<<"cloud-init-local.service", 0>>) = 2 /\ rank(<<"cloud-config.service", 0>>) = 3
      /\ rank(<<"systemd-user-sessions.service", 0>>) = 4 + n /\ rank(<<"apt-daily.service", 0>>) = 4 + n
      /\ rank(<<"cloud-final.service", 0>>) = 6 + n
  BY DEF Rank, MetaDataUnit, AutoExpandUnit, Trigger, Networkd
<1> HIDE DEF rank, n
<1>4. \A u \in s.enabled : Lower(u, enter)
  <2>1. \A u \in s.enabled : u \in {Networkd, AutoExpandUnit, MetaDataUnit, Trigger} \/ (beforeLogin /\ \E i \in 1 .. n : u = UnitName(i))
    BY <1>1 DEF Scheduled, Standing
  <2>2. \A u \in {Networkd, AutoExpandUnit, MetaDataUnit, Trigger} : Lower(u, enter)
    BY <1>1, <1>3
  <2>3. beforeLogin => \A i \in 1 .. n : Lower(UnitName(i), enter)
    BY <1>1, <1>2, <1>3
  <2> HIDE DEF Lower, enter
  <2> QED
    BY <2>1, <2>2, <2>3
<1>5. \A u \in DOMAIN s.units : (\A v \in s.units[u].after : Lower(v, u)) /\ (\A v \in s.units[u].before : Lower(u, v))
  <2> SUFFICES ASSUME NEW u \in DOMAIN s.units
               PROVE  (\A v \in s.units[u].after : Lower(v, u)) /\ (\A v \in s.units[u].before : Lower(u, v))
    OBVIOUS
  <2>1. CASE u = MetaDataUnit /\ s.units[u] = RenderMetaDataUnit
    <3>1. s.units[u].after = {<<"local-fs.target", 0>>} /\ s.units[u].before = {<<"cloud-init-local.service", 0>>}
      BY <2>1 DEF RenderMetaDataUnit, NoUnit
    <3> QED
      BY <1>3, <2>1, <3>1
  <2>2. CASE \E names : u = Trigger /\ s.units[u] = RenderProvisioningTrigger(names)
    <3>1. s.units[u].after = {} /\ s.units[u].before = {}
      BY <2>2 DEF RenderProvisioningTrigger, NoUnit
    <3> QED
      BY <3>1
  <2>3. ASSUME NEW i \in 1 .. n, u = UnitName(i), s.units[u] = RenderProvisioningUnit(scripts[i], Earlier(i), beforeLogin)
        PROVE  (\A v \in s.units[u].after : Lower(v, u)) /\ (\A v \in s.units[u].before : Lower(u, v))
    <3>1. /\ s.units[u].after = {<<"network-online.target", 0>>,
                                 IF beforeLogin THEN <<"cloud-config.service", 0>> ELSE <<"cloud-final.service", 0>>} \cup Earlier(i)
          /\ s.units[u].before = IF beforeLogin THEN {<<"systemd-user-sessions.service", 0>>, <<"apt-daily.service", 0>>} ELSE {}
      BY <2>3 DEF RenderProvisioningUnit, NoUnit
    <3>2. \A v \in Earlier(i) : Lower(v, u)
      <4>1. \A v \in Earlier(i) : i - 1 \in 1 .. n /\ v = UnitName(i - 1)
        BY <1>1 DEF Earlier
      <4> QED
        BY <1>1, <1>2, <2>3, <4>1
    <3>3. Lower(<<"network-online.target", 0>>, u)
      BY <1>1, <1>2, <1>3, <2>3
    <3>4. Lower(IF beforeLogin THEN <<"cloud-config.service", 0>> ELSE <<"cloud-final.service", 0>>, u)
      BY <1>1, <1>2, <1>3, <2>3
    <3>5. beforeLogin => Lower(u, <<"systemd-user-sessions.service", 0>>) /\ Lower(u, <<"apt-daily.service", 0>>)
      BY <1>1, <1>2, <1>3, <2>3
    <3> HIDE DEF Lower
    <3> QED
      BY <3>1, <3>2, <3>3, <3>4, <3>5
  <2>4. CASE u = AutoExpandUnit /\ s.units[u] = AutoExpandService
    <3>1. s.units[u].after = {<<"local-fs.target", 0>>} /\ s.units[u].before = {}
      BY <2>4 DEF AutoExpandService, NoUnit
    <3> QED
      BY <1>3, <2>4, <3>1
  <2> QED
    BY <1>1, <2>1, <2>2, <2>3, <2>4 DEF Scheduled, OwnUnit
<1>6. /\ Lower(<<"cloud-init-local.service", 0>>, <<"cloud-config.service", 0>>) /\ Lower(<<"cloud-config.service", 0>>, enter)
      /\ Lower(<<"systemd-user-sessions.service", 0>>, enter) /\ Lower(enter, <<"cloud-final.service", 0>>)
  BY <1>1, <1>3
<1>7. \A e \in Before(s) : Lower(e[1], e[2])
  <2> HIDE DEF Lower, enter
  <2> SUFFICES ASSUME NEW e \in Before(s) PROVE Lower(e[1], e[2])
    OBVIOUS
  <2>1. \/ \E u \in DOMAIN s.units : e \in (s.units[u].after \X {u}) \cup ({u} \X s.units[u].before)
        \/ e \in s.enabled \X {enter}
        \/ e \in {<<<<"cloud-init-local.service", 0>>, <<"cloud-config.service", 0>>>>, <<<<"cloud-config.service", 0>>, enter>>,
                  <<<<"systemd-user-sessions.service", 0>>, enter>>, <<enter, <<"cloud-final.service", 0>>>>}
    BY Edges DEF enter
  <2>2. CASE \E u \in DOMAIN s.units : e \in (s.units[u].after \X {u}) \cup ({u} \X s.units[u].before)
    BY <1>5, <2>2
  <2>3. CASE e \in s.enabled \X {enter}
    BY <1>4, <2>3
  <2> QED
    BY <1>6, <2>1, <2>2, <2>3
<1> SUFFICES ASSUME NEW S \in SUBSET ({e[1] : e \in Before(s)} \cap {e[2] : e \in Before(s)}), S # {}
             PROVE  \E u \in S : \A v \in S : <<v, u>> \notin Before(s)
  BY DEF Orderable
<1> DEFINE ranks == {rank(u) : u \in S}
<1>8. ranks \in SUBSET Nat /\ ranks # {}
  BY <1>7
<1>9. PICK u \in S : rank(u) = Min(ranks)
  BY <1>8, LeastNatural
<1>10. \A v \in S : rank(u) <= rank(v) /\ rank(v) \in Nat
  BY <1>8, <1>9, LeastNatural
<1> HIDE DEF ranks
<1>11. ASSUME NEW v \in S, <<v, u>> \in Before(s) PROVE FALSE
  <2>1. Lower(v, u)
    BY <1>7, <1>11
  <2> QED
    BY <1>10, <2>1
<1> QED
  BY <1>11

\* What there is before the scripts.
Prepared(s) ==
    /\ DOMAIN s = SiteFields /\ s.enabled \subseteq Standing
    /\ \A u \in DOMAIN s.units : OwnUnit(u, s.units[u])

LEMMA Preparing ==
  /\ \A files : Prepared(NewSite(files))
  /\ \A s, q : Prepared(s) /\ Quiet(s, q) => Prepared(q)
  /\ \A s, network : Prepared(s) /\ UpdateImageNetwork(s, network) # Refused => Prepared(UpdateImageNetwork(s, network)[1])
  /\ \A s, enabled : Prepared(s) => Prepared(ConfigureCloudInit(s, enabled))
  /\ \A s : Prepared(s) => Prepared(Brought(s))
<1>1. \A files : Prepared(NewSite(files))
  BY DEF Prepared, NewSite, SiteFields
<1>2. \A s, q : Prepared(s) /\ Quiet(s, q) => Prepared(q)
  BY DEF Prepared, Quiet
<1>3. ASSUME NEW s, NEW network, Prepared(s), UpdateImageNetwork(s, network) # Refused
      PROVE  Prepared(UpdateImageNetwork(s, network)[1])
  <2> DEFINE r == WriteNetworkConfig(s, network)
  <2>1. UpdateImageNetwork(s, network) \in {r, <<EnableUnit(r[1], Networkd)>>} /\ r # Refused
    BY <1>3 DEF UpdateImageNetwork, Networkd
  <2>2. Prepared(r[1])
    BY <1>2, <1>3, <2>1, QuietWrites DEF Prepared
  <2> HIDE DEF r
  <2>3. Prepared(EnableUnit(r[1], Networkd))
    BY <2>2 DEF Prepared, EnableUnit, SiteFields, Standing
  <2> QED
    BY <2>1, <2>2, <2>3
<1>4. ASSUME NEW s, NEW enabled, Prepared(s) PROVE Prepared(ConfigureCloudInit(s, enabled))
  <2> DEFINE seeded == WriteFiles(s, {"datasource", "user-data"})
  <2>1. Prepared(seeded)
    BY <1>2, <1>4, QuietWrites DEF Prepared
  <2>2. ASSUME NEW q, Prepared(q) PROVE Prepared(InstallMetaDataUnit(q))
    <3>1. Prepared(WriteFiles(q, {"ict-meta-data"}))
      BY <1>2, <2>2, QuietWrites DEF Prepared
    <3> QED
      BY <3>1 DEF InstallMetaDataUnit, EnableUnit, Install, Put, Prepared, OwnUnit, Standing, SiteFields
  <2> HIDE DEF seeded
  <2> QED
    BY <1>4, <2>1, <2>2 DEF ConfigureCloudInit, seeded
<1>5. ASSUME NEW s, Prepared(s) PROVE Prepared(Brought(s))
  <2> DEFINE with == WriteFiles(s, t.files)
             copied == [WriteFiles(with, {AutoExpandScript}) EXCEPT !.executable = @ \cup {AutoExpandScript}]
             grown == EnableUnit(Install(copied, AutoExpandUnit, AutoExpandService), AutoExpandUnit)
  <2>1. Brought(s) \in {with, grown}
    BY DEF Brought, ConfigureFirstBootLastPartitionAutoExpand
  <2>2. Prepared(with)
    BY <1>2, <1>5, QuietWrites DEF Prepared
  <2> HIDE DEF with
  <2>3. Prepared(WriteFiles(with, {AutoExpandScript}))
    BY <1>2, <2>2, QuietWrites DEF Prepared
  <2>4. Prepared(copied)
    BY <2>3 DEF Prepared, SiteFields
  <2> HIDE DEF copied
  <2>5. Prepared(grown)
    BY <2>4 DEF EnableUnit, Install, Put, Prepared, OwnUnit, Standing, SiteFields
  <2> QED
    BY <2>1, <2>2, <2>5
<1> QED
  BY <1>1, <1>2, <1>3, <1>4, <1>5

LEMMA ScriptsFollow ==
  ASSUME NEW s, NEW t0, Prepared(s), IsList(t0.scripts),
         ConfigureProvisioningScripts(s, t0.scripts, t0.beforeLogin) # Refused
  PROVE  LET q == ConfigureProvisioningScripts(s, t0.scripts, t0.beforeLogin)[1]
         IN  DOMAIN q = SiteFields /\ ScriptsStart(q, t0)
<1> DEFINE scripts == t0.scripts
           beforeLogin == t0.beforeLogin
           units == {UnitName(i) : i \in DOMAIN scripts}
           rendered == [u \in units |-> RenderProvisioningUnit(scripts[u[2]], IF u[2] = 1 THEN {} ELSE {UnitName(u[2] - 1)}, beforeLogin)]
           with == [s EXCEPT !.units = Over(@, rendered), !.enabled = @ \cup IF beforeLogin THEN units ELSE {},
                             !.executable = @ \cup {x.final : x \in Range(scripts)}]
           full == IF beforeLogin THEN with
                   ELSE EnableUnit(Install(with, Trigger, RenderProvisioningTrigger(units)), Trigger)
           q == ConfigureProvisioningScripts(s, scripts, beforeLogin)[1]
<1>1. /\ scripts = <<>> => q = s
      /\ scripts # <<>> => q = full /\ \A x \in Range(scripts) : x.final \in s.files
  BY DEF ConfigureProvisioningScripts
<1>2. Len(scripts) \in Nat /\ DOMAIN scripts = 1 .. Len(scripts)
  BY DEF IsList
<1>3. \A i \in DOMAIN scripts : UnitName(i) = <<"ict-provision", i>> /\ UnitName(i)[2] = i
  BY DEF UnitName
<1>4. /\ \A i \in DOMAIN scripts : UnitName(i) \in units
      /\ \A u \in units : \E i \in DOMAIN scripts : u = UnitName(i) /\ u[2] = i
  BY <1>3
<1>5. \A i \in DOMAIN scripts : UnitName(i) \notin {Trigger, MetaDataUnit, AutoExpandUnit}
  BY DEF UnitName, Trigger, MetaDataUnit, AutoExpandUnit
<1>6. Trigger \notin {MetaDataUnit, AutoExpandUnit}
  BY DEF Trigger, MetaDataUnit, AutoExpandUnit
<1> HIDE DEF q
<1>7. CASE scripts = <<>>
  <2>1. DOMAIN scripts = {}
    BY <1>7
  <2>2. Scheduled(s, scripts, beforeLogin)
    BY DEF Prepared, Scheduled
  <2>3. Orderable(Before(s))
    BY <2>2, Ordered
  <2> QED
    BY <1>1, <1>7, <2>1, <2>3 DEF ScriptsStart, Prepared, q
<1>8. CASE scripts # <<>>
  <2>1. /\ DOMAIN with = SiteFields /\ with.units = Over(s.units, rendered) /\ with.files = s.files
        /\ with.enabled = s.enabled \cup IF beforeLogin THEN units ELSE {}
        /\ with.executable = s.executable \cup {x.final : x \in Range(scripts)}
    BY DEF Prepared, SiteFields
  <2> HIDE DEF with
  <2>2. /\ DOMAIN full = SiteFields /\ full.files = s.files
        /\ full.executable = s.executable \cup {x.final : x \in Range(scripts)}
        /\ full.units = IF beforeLogin THEN with.units ELSE Put(with.units, Trigger, RenderProvisioningTrigger(units))
        /\ full.enabled = s.enabled \cup IF beforeLogin THEN units ELSE {Trigger}
    BY <2>1 DEF EnableUnit, Install, SiteFields
  <2> HIDE DEF full
  <2>3. \A i \in DOMAIN scripts : UnitName(i) \in DOMAIN with.units
                                  /\ with.units[UnitName(i)] = RenderProvisioningUnit(scripts[i], Earlier(i), beforeLogin)
    <3>1. \A i \in DOMAIN scripts : UnitName(i) \in units /\ rendered[UnitName(i)] = RenderProvisioningUnit(scripts[i], Earlier(i), beforeLogin)
      BY <1>3, <1>4 DEF Earlier
    <3> HIDE DEF units, with
    <3> QED
      BY <2>1, <3>1 DEF Over
  <2>4. \A u \in DOMAIN with.units : u \in units \/ (OwnUnit(u, with.units[u]) /\ u # Trigger)
    <3> HIDE DEF units, with
    <3> QED
      BY <1>6, <2>1 DEF Over, Prepared, OwnUnit
  <2>5. \A i \in DOMAIN scripts : UnitName(i) \in DOMAIN full.units
                                  /\ full.units[UnitName(i)] = RenderProvisioningUnit(scripts[i], Earlier(i), beforeLogin)
    BY <1>5, <2>2, <2>3 DEF Put
  <2>6. \A u \in DOMAIN full.units : \/ OwnUnit(u, full.units[u])
                                     \/ u = Trigger /\ full.units[u] = RenderProvisioningTrigger(units)
                                     \/ u \in units
    BY <1>6, <2>2, <2>4 DEF Put
  <2>7. Scheduled(full, scripts, beforeLogin)
    <3>1. s.enabled \subseteq Standing
      BY DEF Prepared
    <3>2. full.enabled \subseteq Standing \cup {Trigger} \cup IF beforeLogin THEN units ELSE {}
      BY <2>2, <3>1
    <3>3. \A u \in DOMAIN full.units :
             \/ OwnUnit(u, full.units[u])
             \/ u = Trigger /\ full.units[u] = RenderProvisioningTrigger(units)
             \/ \E i \in DOMAIN scripts : u = UnitName(i) /\ full.units[u] = RenderProvisioningUnit(scripts[i], Earlier(i), beforeLogin)
      BY <1>4, <2>5, <2>6
    <3> QED
      BY <2>2, <3>2, <3>3 DEF Scheduled
  <2>8. Orderable(Before(full))
    BY <2>7, Ordered
  <2> DEFINE started == full.enabled \cup UNION {full.units[u].starts : u \in full.enabled \cap DOMAIN full.units}
  <2>9. \A i \in DOMAIN scripts : UnitName(i) \in started
    <3>1. CASE beforeLogin
      BY <1>4, <2>2, <3>1
    <3>2. CASE ~beforeLogin
      <4>1. Trigger \in full.enabled \cap DOMAIN full.units /\ full.units[Trigger] = RenderProvisioningTrigger(units)
        BY <2>2, <3>2 DEF Put
      <4>2. full.units[Trigger].starts = units
        BY <4>1 DEF RenderProvisioningTrigger, NoUnit
      <4> HIDE DEF units
      <4> QED
        BY <1>4, <4>1, <4>2
    <3> QED
      BY <3>1, <3>2
  <2>10. \A i \in DOMAIN scripts : /\ full.units[UnitName(i)].script = scripts[i].final
                                   /\ scripts[i].final \in full.files \cap full.executable
    <3>1. \A i \in DOMAIN scripts : scripts[i] \in Range(scripts)
      BY DEF Range
    <3>2. \A i \in DOMAIN scripts : full.units[UnitName(i)].script = scripts[i].final
      BY <2>5 DEF RenderProvisioningUnit, NoUnit
    <3> QED
      BY <1>1, <1>8, <2>2, <3>1, <3>2
  <2>11. \A i \in DOMAIN scripts : i > 1 => <<UnitName(i - 1), UnitName(i)>> \in Before(full)
    <3> SUFFICES ASSUME NEW i \in DOMAIN scripts, i > 1 PROVE <<UnitName(i - 1), UnitName(i)>> \in Before(full)
      OBVIOUS
    <3> DEFINE u == UnitName(i)
               v == UnitName(i - 1)
    <3>1. v \in Earlier(i)
      BY <1>2 DEF Earlier
    <3>2. \A x, previous, b : previous \subseteq RenderProvisioningUnit(x, previous, b).after
      BY DEF RenderProvisioningUnit, NoUnit
    <3>3. u \in DOMAIN full.units /\ v \in full.units[u].after
      BY <2>5, <3>1, <3>2
    <3> HIDE DEF u, v
    <3>4. <<v, u>> \in Before(full)
      BY <3>3, Edges
    <3> QED
      BY <3>4 DEF u, v
  <2>12. q = full
    BY <1>1, <1>8
  <2>13. ScriptsStart(full, t0)
    BY <2>8, <2>9, <2>10, <2>11 DEF ScriptsStart
  <2> QED
    BY <2>2, <2>12, <2>13 DEF q
<1> QED
  BY <1>7, <1>8

LEMMA Configured ==
  ASSUME NEW r, Fields(r), Prepared(r.site), IsList(t.scripts), ConfigureImage(r) # Refused
  PROVE  ScriptsStart(ConfigureImage(r)[1].site, t)
<1> DEFINE network == UpdateImageNetwork(r.site, t.network)
           site == IF network = Refused THEN Refused ELSE ApplyProvisioningConfig(network[1], t)
           mounted == IF IsDisk THEN UpdateImageFstab(r, sys.dev, t, Parts) ELSE r
           configured == AddImageConfigs(site[1], t.commands)
           q == [mounted EXCEPT !.site = WriteProxyConfig(configured, t.proxy)]
<1>1. Fields(mounted)
  BY DEF Fields, UpdateImageFstab
<1> HIDE DEF mounted
<1>2. network # Refused /\ site # Refused /\ ConfigureImage(r)[1] = q
  BY DEF ConfigureImage, mounted
<1>3. q.site = WriteProxyConfig(configured, t.proxy)
  BY <1>1 DEF Fields
<1>4. Prepared(network[1])
  BY <1>2, Preparing
<1> HIDE DEF network
<1> DEFINE c == ConfigureCloudInit(network[1], t.cloudInit)
           scripts == ConfigureProvisioningScripts(c, t.scripts, t.beforeLogin)
<1>5. Prepared(c)
  BY <1>4, Preparing
<1>6. scripts # Refused /\ site = <<WriteAptPolicy(scripts[1], t.os, t.immutable)>>
  BY <1>2 DEF ApplyProvisioningConfig
<1> HIDE DEF site, c
<1>7. DOMAIN scripts[1] = SiteFields /\ ScriptsStart(scripts[1], t)
  BY <1>5, <1>6, ScriptsFollow
<1> HIDE DEF scripts
<1>8. DOMAIN site[1] = SiteFields /\ ScriptsStart(site[1], t)
  BY <1>6, <1>7, QuietWrites, ScriptsKept DEF Quiet
<1>9. DOMAIN configured = SiteFields /\ ScriptsStart(configured, t)
  BY <1>8, QuietWrites, ScriptsKept DEF AddImageConfigs, Quiet
<1> HIDE DEF configured
<1>10. ScriptsStart(q.site, t)
  BY <1>3, <1>9, QuietWrites, ScriptsKept
<1> HIDE DEF q
<1> QED
  BY <1>2, <1>10

SiteInv ==
    /\ pc \in Fresh \cup {"kernels", "dkms", "depmod", "configure"} => root.site = NewSite(t.brings)
    /\ pc \in {"users", "site"} => Prepared(root.site)
    /\ pc \in Finishing /\ ~Lost => ScriptsStart(root.site, t)

LEMMA SiteKept ==
  ASSUME StageInv, SiteInv, InstallNext PROVE SiteInv'
<1>1. Onward /\ Untouching /\ world' = world
  BY Followed, DiskFollows DEF InstallNext
<1>2. t' = t
  BY <1>1 DEF t
<1> USE DEF Fresh, Untaken
<1>3. CASE pc \notin {"configure", "site"}
  <2>1. root'.site = root.site
    BY <1>1, <1>3 DEF Untouching
  <2>2. /\ pc' \in Fresh \cup {"kernels", "dkms", "depmod", "configure"} => pc \in Fresh \cup {"kernels", "dkms", "depmod"}
        /\ pc' \in {"users", "site"} => pc = "users"
        /\ pc' \in Finishing /\ ~Lost' => pc \in Finishing /\ ~Lost
    BY <1>1, <1>3 DEF Onward, Lost, Finishing, Bootable
  <2> QED
    BY <1>2, <2>1, <2>2 DEF SiteInv
<1>4. CASE Lost' /\ pc' \notin {"users", "site"} \cup Fresh
  BY <1>4 DEF SiteInv, Lost
<1>5. ASSUME ImageCommandFails, pc \in {"configure", "site"} PROVE Lost' /\ pc' = "unwind"
  BY <1>5 DEF ImageCommandFails, GiveUp, ImageGoto, Unwinding, Lost, StageInv
<1>6. CASE pc = "configure"
  <2>1. CASE AddImageAdditionalFiles
    <3>1. PICK files : root' = [root EXCEPT !.site = Brought(@), !.etc.files = files] /\ pc' = "users"
      BY <2>1 DEF AddImageAdditionalFiles, RootBecomes, ImageGoto
    <3>2. root'.site = Brought(root.site)
      BY <3>1 DEF StageInv
    <3>3. root.site = NewSite(t.brings)
      BY <1>6 DEF SiteInv
    <3>4. Prepared(root'.site)
      BY <3>2, <3>3, Preparing
    <3> QED
      BY <1>2, <3>1, <3>4 DEF SiteInv, Finishing, Bootable
  <2> QED
    BY <1>4, <1>5, <1>6, <2>1, Acts, DiskFollows DEF InstallNext
<1>7. CASE pc = "site"
  <2>1. CASE UpdateImageConfig
    <3>1. CASE ConfigureImage(root) = Refused
      <4>1. GiveUp
        BY <2>1, <3>1 DEF UpdateImageConfig, OrGiveUp
      <4> QED
        BY <1>4, <1>7, <4>1 DEF GiveUp, ImageGoto, Unwinding, Lost, StageInv
    <3>2. CASE ConfigureImage(root) # Refused
      <4>1. root' = ConfigureImage(root)[1] /\ pc' \in {"boot", "sbom", "post"}
        BY <2>1, <3>2 DEF UpdateImageConfig, OrGiveUp, RootBecomes, ImageGoto
      <4>2. IsList(t.scripts)
        <5>1. t.scripts \in Seq(Range(t.scripts))
          BY TemplateAssumption DEF StageInv, t
        <5> QED
          BY <5>1 DEF IsList
      <4>3. Prepared(root.site) /\ Fields(root)
        BY <1>7 DEF SiteInv, StageInv, Fields
      <4>4. ScriptsStart(root'.site, t)
        BY <3>2, <4>1, <4>2, <4>3, Configured
      <4> QED
        BY <1>2, <4>1, <4>4 DEF SiteInv
    <3> QED
      BY <3>1, <3>2
  <2> QED
    BY <1>4, <1>5, <1>7, <2>1, Acts, DiskFollows DEF InstallNext
<1> QED
  BY <1>3, <1>6, <1>7

LEMMA SiteStart == ASSUME ImageInit PROVE SiteInv
<1>1. root.site = NewSite(t.brings) /\ pc \in {"select", "check", "image"}
  BY DEF ImageInit, DiskInit, NewSite, t
<1> QED
  BY <1>1 DEF SiteInv, Finishing, Bootable

-----------------------------------------------------------------------------
(* Users. *)
EtcFields == {"accounts", "groups", "files", "links", "keys", "sudoers"}
AccountFields == {"shell", "home", "shadow", "maxAge", "groups"}
Shaped(etc) ==
    /\ DOMAIN etc = EtcFields
    /\ \A x \in DOMAIN etc.accounts : DOMAIN etc.accounts[x] = AccountFields /\ DOMAIN etc.accounts[x].shadow = {"locked", "of"}
\* Of the accounts only n's changes, and not its home; no keys do.
Edited(e, q, n) ==
    /\ Shaped(q) /\ DOMAIN q.accounts = DOMAIN e.accounts /\ q.keys = e.keys
    /\ q.accounts[n].home = e.accounts[n].home
    /\ \A x \in DOMAIN e.accounts \ {n} : q.accounts[x] = e.accounts[x]
Secret(u) == [locked |-> FALSE, of |-> IF IsCryptHash(u.password) THEN u.password ELSE Crypt(u.password)]

LEMMA FieldSet ==
  ASSUME NEW e, Shaped(e), NEW u, u.name \in DOMAIN e.accounts, NEW field \in AccountFields \ {"home"}, NEW v,
         field = "shadow" => DOMAIN v = {"locked", "of"}
  PROVE  LET q == SetField(e, u, field, v)
         IN  /\ Edited(e, q, u.name) /\ q.files = e.files
             /\ q.accounts[u.name][field] = v
             /\ \A f \in AccountFields \ {field} : q.accounts[u.name][f] = e.accounts[u.name][f]
<1> DEFINE q == SetField(e, u, field, v)
           a == e.accounts[u.name]
           b == [a EXCEPT ![field] = v]
<1>1. DOMAIN a = AccountFields /\ DOMAIN a.shadow = {"locked", "of"}
  BY DEF Shaped
<1>2. DOMAIN b = AccountFields /\ b[field] = v /\ \A f \in AccountFields \ {field} : b[f] = a[f]
  BY <1>1
<1>3. b.home = a.home /\ DOMAIN b.shadow = {"locked", "of"}
  BY <1>1, <1>2 DEF AccountFields
<1>4. DOMAIN q = EtcFields /\ q.accounts = Put(e.accounts, u.name, b) /\ q.keys = e.keys /\ q.files = e.files
  BY DEF SetField, Shaped, EtcFields
<1> HIDE DEF b, q
<1>5. DOMAIN q.accounts = DOMAIN e.accounts /\ q.accounts[u.name] = b /\ \A x \in DOMAIN e.accounts \ {u.name} : q.accounts[x] = e.accounts[x]
  BY <1>4 DEF Put
<1>6. Shaped(q)
  BY <1>2, <1>3, <1>4, <1>5 DEF Shaped
<1> QED
  BY <1>2, <1>3, <1>4, <1>5, <1>6 DEF q, Edited

LEMMA EditedOn ==
  ASSUME NEW e, NEW q, NEW r, NEW n, Edited(e, q, n), Edited(q, r, n) PROVE Edited(e, r, n)
  BY DEF Edited

LEMMA Unedited == ASSUME NEW e, Shaped(e), NEW n PROVE Edited(e, e, n)
  BY DEF Edited

\* An account that is there keeps its home.
LEMMA Adding ==
  ASSUME NEW e, Shaped(e), NEW u
  PROVE  LET q == AddOrUpdateUserAccount(e, u)
         IN  /\ Shaped(q) /\ q.keys = e.keys /\ DOMAIN q.accounts = DOMAIN e.accounts \cup {u.name}
             /\ \A x \in DOMAIN e.accounts \ {u.name} : q.accounts[x] = e.accounts[x]
             /\ u.name \in DOMAIN e.accounts => q.accounts[u.name].home = e.accounts[u.name].home
<1> DEFINE q == AddOrUpdateUserAccount(e, u)
<1>1. CASE u.name \notin DOMAIN e.accounts
  <2> DEFINE a == [shell |-> IF u.shell = "" THEN DefaultUserShell ELSE u.shell,
                   home |-> IF u.home = "" THEN "/home/" \o u.name ELSE u.home,
                   shadow |-> [locked |-> TRUE, of |-> ""], maxAge |-> <<>>, groups |-> {u.name}]
  <2>1. q = [e EXCEPT !.accounts = Put(@, u.name, a)] /\ DOMAIN a = AccountFields /\ DOMAIN a.shadow = {"locked", "of"}
    BY <1>1 DEF AddOrUpdateUserAccount, AccountFields
  <2> HIDE DEF a
  <2>2. DOMAIN q = EtcFields /\ q.keys = e.keys /\ q.accounts = Put(e.accounts, u.name, a)
    BY <2>1 DEF Shaped, EtcFields
  <2> HIDE DEF q
  <2> QED
    BY <1>1, <2>1, <2>2 DEF Shaped, Put, q
<1>2. CASE u.name \in DOMAIN e.accounts
  <2>1. q = e \/ q = SetField(e, u, "shell", u.shell)
    BY <1>2 DEF AddOrUpdateUserAccount
  <2>2. "shell" \in AccountFields \ {"home"} /\ "shell" # "shadow"
    BY DEF AccountFields
  <2>3. Edited(e, SetField(e, u, "shell", u.shell), u.name)
    BY <1>2, <2>2, FieldSet
  <2>4. Edited(e, q, u.name)
    BY <2>1, <2>3, Unedited
  <2> QED
    BY <1>2, <2>4 DEF Edited
<1> QED
  BY <1>1, <1>2

LEMMA Securing ==
  ASSUME NEW e, Shaped(e), NEW u, u.name \in DOMAIN e.accounts
  PROVE  /\ SetUserPassword(e, u) # Refused =>
              LET q == SetUserPassword(e, u)[1] IN Edited(e, q, u.name) /\ q.accounts[u.name].shadow = Secret(u)
         /\ LET q == ClearUserPassword(e, u)
            IN  Edited(e, q, u.name) /\ (u.keys # {} => q.accounts[u.name].shadow.locked)
<1>1. \A h : LET q == SetHash(e, u, h) IN Edited(e, q, u.name) /\ q.accounts[u.name].shadow = [locked |-> FALSE, of |-> h]
  <2> SUFFICES ASSUME NEW h
               PROVE  LET q == SetHash(e, u, h) IN Edited(e, q, u.name) /\ q.accounts[u.name].shadow = [locked |-> FALSE, of |-> h]
    OBVIOUS
  <2> DEFINE v == [locked |-> FALSE, of |-> h]
  <2>1. DOMAIN v = {"locked", "of"} /\ "shadow" \in AccountFields \ {"home"}
    BY DEF AccountFields
  <2>2. SetHash(e, u, h) = SetField(e, u, "shadow", v)
    BY DEF SetHash
  <2> HIDE DEF v
  <2>3. Edited(e, SetField(e, u, "shadow", v), u.name) /\ SetField(e, u, "shadow", v).accounts[u.name]["shadow"] = v
    BY <2>1, FieldSet
  <2> QED
    BY <2>2, <2>3 DEF v
<1>2. SetUserPassword(e, u) # Refused =>
        SetUserPassword(e, u)[1] = SetHash(e, u, IF IsCryptHash(u.password) THEN u.password ELSE Crypt(u.password))
  BY DEF SetUserPassword, HashPassword, Refused
<1>3. SetUserPassword(e, u) # Refused =>
        LET q == SetUserPassword(e, u)[1] IN Edited(e, q, u.name) /\ q.accounts[u.name].shadow = Secret(u)
  BY <1>1, <1>2 DEF Secret
<1>4. LET q == ClearUserPassword(e, u) IN Edited(e, q, u.name) /\ (u.keys # {} => q.accounts[u.name].shadow.locked)
  <2> DEFINE v == IF u.keys # {} THEN [e.accounts[u.name].shadow EXCEPT !.locked = TRUE] ELSE [locked |-> FALSE, of |-> ""]
  <2>1. DOMAIN v = {"locked", "of"} /\ (u.keys # {} => v.locked) /\ "shadow" \in AccountFields \ {"home"}
    BY DEF Shaped, AccountFields
  <2>2. ClearUserPassword(e, u) = SetField(e, u, "shadow", v)
    BY DEF ClearUserPassword
  <2> HIDE DEF v
  <2>3. Edited(e, SetField(e, u, "shadow", v), u.name) /\ SetField(e, u, "shadow", v).accounts[u.name]["shadow"] = v
    BY <2>1, FieldSet
  <2> QED
    BY <2>1, <2>2, <2>3
<1> QED
  BY <1>3, <1>4

\* The rest leaves the password as it is.
LEMMA Settling ==
  ASSUME NEW e, Shaped(e), NEW u, u.name \in DOMAIN e.accounts
  PROVE  LET Secured(q) == Edited(e, q, u.name) /\ q.accounts[u.name].shadow = e.accounts[u.name].shadow
         IN  /\ Secured(SetPasswordMaxAge(e, u))
             /\ \A os : Secured(EnsureGroupsExist(e, u, os))
             /\ ConfigUserStartupScript(e, u) # Refused =>
                  LET q == ConfigUserStartupScript(e, u)[1] IN Secured(q) /\ (u.startup # "" => q.accounts[u.name].shell = u.startup)
<1> DEFINE Secured(q) == Edited(e, q, u.name) /\ q.accounts[u.name].shadow = e.accounts[u.name].shadow
<1>1. Secured(e)
  BY Unedited
<1>2. ASSUME NEW field \in {"shell", "maxAge", "groups"}, NEW v
      PROVE  Secured(SetField(e, u, field, v)) /\ SetField(e, u, field, v).accounts[u.name][field] = v
  <2>1. field \in AccountFields \ {"home"} /\ field # "shadow" /\ "shadow" \in AccountFields \ {field}
    BY DEF AccountFields
  <2> QED
    BY <2>1, FieldSet
<1>3. Secured(SetPasswordMaxAge(e, u))
  BY <1>1, <1>2 DEF SetPasswordMaxAge
<1>4. ASSUME NEW os PROVE Secured(EnsureGroupsExist(e, u, os))
  <2> DEFINE groups == CollectUserGroups(u, os)
             g == [e EXCEPT !.groups = @ \cup groups]
             v == e.accounts[u.name].groups \cup groups
             q == SetField(g, u, "groups", v)
  <2>1. Shaped(g) /\ g.accounts = e.accounts /\ g.keys = e.keys
    BY DEF Shaped, EtcFields
  <2>2. "groups" \in AccountFields \ {"home"} /\ "shadow" \in AccountFields \ {"groups"} /\ "groups" # "shadow"
    BY DEF AccountFields
  <2>4. EnsureGroupsExist(e, u, os) = q
    BY DEF EnsureGroupsExist
  <2>5. u.name \in DOMAIN g.accounts
    BY <2>1
  <2> HIDE DEF g, groups, v
  <2>3. Edited(g, q, u.name) /\ q.accounts[u.name]["shadow"] = g.accounts[u.name]["shadow"]
    BY <2>1, <2>2, <2>5, FieldSet
  <2> HIDE DEF q
  <2> QED
    BY <2>1, <2>3, <2>4 DEF Edited
<1>5. ConfigUserStartupScript(e, u) # Refused =>
        LET q == ConfigUserStartupScript(e, u)[1] IN Secured(q) /\ (u.startup # "" => q.accounts[u.name].shell = u.startup)
  BY <1>1, <1>2 DEF ConfigUserStartupScript
<1> QED
  BY <1>3, <1>4, <1>5

\* What a user gets, and what that leaves of the others.
Got(e, q, u) ==
    LET a == q.accounts[u.name] IN
      /\ Shaped(q) /\ DOMAIN q.accounts = DOMAIN e.accounts \cup {u.name}
      /\ \A x \in DOMAIN e.accounts \ {u.name} : q.accounts[x] = e.accounts[x]
      /\ u.name \in DOMAIN e.accounts => a.home = e.accounts[u.name].home
      /\ u.password # "" => a.shadow = Secret(u)
      /\ u.password = "" /\ u.keys # {} => a.shadow.locked
      /\ u.startup # "" => a.shell = u.startup
      /\ q.keys = IF u.keys = {} THEN e.keys
                  ELSE Put(e.keys, a.home, u.keys \cup IF a.home \in DOMAIN e.keys THEN e.keys[a.home] ELSE {})

LEMMA UserCreated ==
  ASSUME NEW e, Shaped(e), NEW u, NEW os, CreateUser(e, u, os) # Refused
  PROVE  Got(e, CreateUser(e, u, os)[1], u)
<1> DEFINE added == AddOrUpdateUserAccount(e, u)
           secured == IF u.password # "" THEN SetUserPassword(added, u) ELSE <<ClearUserPassword(added, u)>>
           safe == secured[1]
           aged == SetPasswordMaxAge(safe, u)
           grouped == EnsureGroupsExist(aged, u, os)
           started == ConfigUserStartupScript(grouped, u)
           able == started[1]
           q == CreateUser(e, u, os)[1]
           n == u.name
<1>1. secured # Refused /\ started # Refused /\ WriteAuthorizedKeys(able, u) # Refused /\ q = WriteAuthorizedKeys(able, u)[1]
  BY DEF CreateUser
<1>2. /\ Shaped(added) /\ added.keys = e.keys /\ DOMAIN added.accounts = DOMAIN e.accounts \cup {n}
      /\ \A x \in DOMAIN e.accounts \ {n} : added.accounts[x] = e.accounts[x]
      /\ n \in DOMAIN e.accounts => added.accounts[n].home = e.accounts[n].home
  BY Adding
<1> HIDE DEF q, added
<1>3. /\ Edited(added, safe, n)
      /\ u.password # "" => safe.accounts[n].shadow = Secret(u)
      /\ u.password = "" /\ u.keys # {} => safe.accounts[n].shadow.locked
  <2>1. n \in DOMAIN added.accounts
    BY <1>2
  <2>2. CASE u.password # ""
    BY <1>1, <1>2, <2>1, <2>2, Securing
  <2>3. CASE u.password = ""
    <3>1. safe = ClearUserPassword(added, u)
      BY <2>3
    <3> QED
      BY <1>2, <2>1, <2>3, <3>1, Securing
  <2> QED
    BY <2>2, <2>3
<1> HIDE DEF safe
<1>4. Edited(safe, aged, n) /\ aged.accounts[n].shadow = safe.accounts[n].shadow
  <2>1. Shaped(safe) /\ n \in DOMAIN safe.accounts
    BY <1>2, <1>3 DEF Edited
  <2> QED
    BY <2>1, Settling
<1> HIDE DEF aged
<1>5. Edited(aged, grouped, n) /\ grouped.accounts[n].shadow = aged.accounts[n].shadow
  <2>1. Shaped(aged) /\ n \in DOMAIN aged.accounts
    BY <1>2, <1>3, <1>4 DEF Edited
  <2> QED
    BY <2>1, Settling
<1> HIDE DEF grouped
<1>6. Edited(grouped, able, n) /\ able.accounts[n].shadow = grouped.accounts[n].shadow /\ (u.startup # "" => able.accounts[n].shell = u.startup)
  <2>1. Shaped(grouped) /\ n \in DOMAIN grouped.accounts
    BY <1>2, <1>3, <1>4, <1>5 DEF Edited
  <2> QED
    BY <1>1, <2>1, Settling
<1> HIDE DEF able
<1>7. Edited(added, able, n) /\ able.accounts[n].shadow = safe.accounts[n].shadow
  BY <1>3, <1>4, <1>5, <1>6, EditedOn
<1>8. /\ Shaped(q) /\ q.accounts = able.accounts
      /\ q.keys = IF u.keys = {} THEN able.keys
                  ELSE Put(able.keys, able.accounts[n].home,
                           u.keys \cup IF able.accounts[n].home \in DOMAIN able.keys THEN able.keys[able.accounts[n].home] ELSE {})
  <2>1. Shaped(able)
    BY <1>7 DEF Edited
  <2> DEFINE home == able.accounts[n].home
             keys == Put(able.keys, home, u.keys \cup IF home \in DOMAIN able.keys THEN able.keys[home] ELSE {})
  <2>2. CASE u.keys = {}
    BY <1>1, <2>1, <2>2 DEF WriteAuthorizedKeys
  <2>3. CASE u.keys # {}
    <3>1. q = [able EXCEPT !.keys = keys]
      BY <1>1, <2>3 DEF WriteAuthorizedKeys, Shaped, EtcFields
    <3> HIDE DEF keys
    <3>2. Shaped(q) /\ q.accounts = able.accounts /\ q.keys = keys
      BY <2>1, <3>1 DEF Shaped, EtcFields
    <3> QED
      BY <2>3, <3>2 DEF keys
  <2> QED
    BY <2>2, <2>3
<1>9. able.keys = e.keys
  BY <1>2, <1>7 DEF Edited
<1> HIDE DEF secured, started
<1>10. /\ DOMAIN q.accounts = DOMAIN e.accounts \cup {n}
       /\ \A x \in DOMAIN e.accounts \ {n} : q.accounts[x] = e.accounts[x]
       /\ n \in DOMAIN e.accounts => q.accounts[n].home = e.accounts[n].home
  BY <1>2, <1>7, <1>8 DEF Edited
<1>11. /\ u.password # "" => q.accounts[n].shadow = Secret(u)
       /\ u.password = "" /\ u.keys # {} => q.accounts[n].shadow.locked
       /\ u.startup # "" => q.accounts[n].shell = u.startup
  BY <1>3, <1>6, <1>7, <1>8
<1>12. q.keys = IF u.keys = {} THEN e.keys
                ELSE Put(e.keys, q.accounts[n].home,
                         u.keys \cup IF q.accounts[n].home \in DOMAIN e.keys THEN e.keys[q.accounts[n].home] ELSE {})
  BY <1>8, <1>9
<1>13. Shaped(q)
  BY <1>8
<1>14. Got(e, q, u)
  BY <1>10, <1>11, <1>12, <1>13 DEF Got
<1>15. q = CreateUser(e, u, os)[1]
  BY DEF q
<1> QED
  BY <1>14, <1>15

\* The first n of the users are there.
Made(was, etc, users, n) ==
    /\ Shaped(etc)
    /\ \A i \in 1 .. n :
         LET u == users[i]
             a == etc.accounts[u.name]
         IN  /\ u.name \in DOMAIN etc.accounts
             /\ LastOfName(users, n, i) =>
                  /\ u.password # "" => a.shadow = Secret(u)
                  /\ u.password = "" /\ u.keys # {} => a.shadow.locked
                  /\ u.startup # "" => a.shell = u.startup
             /\ u.keys # {} => a.home \in DOMAIN etc.keys /\ u.keys \subseteq etc.keys[a.home]
    /\ \A home \in DOMAIN etc.keys : \A k \in etc.keys[home] :
         \/ home \in DOMAIN was.keys /\ k \in was.keys[home]
         \/ \E j \in 1 .. n : k \in users[j].keys /\ etc.accounts[users[j].name].home = home

LEMMA NextMade ==
  ASSUME NEW was, NEW etc, NEW q, NEW users, IsList(users), NEW n \in Nat, n < Len(users), Made(was, etc, users, n),
         Got(etc, q, users[n + 1])
  PROVE  Made(was, q, users, n + 1)
<1> DEFINE u == users[n + 1]
           home == q.accounts[u.name].home
<1>1. \A i \in 1 .. n + 1 : i \in 1 .. n \/ i = n + 1
  OBVIOUS
<1>2. /\ Shaped(q) /\ DOMAIN q.accounts = DOMAIN etc.accounts \cup {u.name}
      /\ \A x \in DOMAIN etc.accounts \ {u.name} : q.accounts[x] = etc.accounts[x]
      /\ u.name \in DOMAIN etc.accounts => home = etc.accounts[u.name].home
      /\ u.password # "" => q.accounts[u.name].shadow = Secret(u)
      /\ u.password = "" /\ u.keys # {} => q.accounts[u.name].shadow.locked
      /\ u.startup # "" => q.accounts[u.name].shell = u.startup
  BY DEF Got
<1>3. /\ \A h \in DOMAIN etc.keys : h \in DOMAIN q.keys /\ etc.keys[h] \subseteq q.keys[h]
      /\ u.keys # {} => home \in DOMAIN q.keys /\ u.keys \subseteq q.keys[home]
      /\ \A h \in DOMAIN q.keys : \A k \in q.keys[h] :
           (h \in DOMAIN etc.keys /\ k \in etc.keys[h]) \/ (h = home /\ k \in u.keys)
  <2>1. CASE u.keys = {}
    BY <2>1 DEF Got
  <2>2. CASE u.keys # {}
    <3>1. q.keys = Put(etc.keys, home, u.keys \cup IF home \in DOMAIN etc.keys THEN etc.keys[home] ELSE {})
      BY <2>2 DEF Got
    <3> HIDE DEF u, home
    <3> QED
      BY <3>1 DEF Put
  <2> QED
    BY <2>1, <2>2
<1>4. \A i \in 1 .. n : users[i].name \in DOMAIN etc.accounts
  BY DEF Made
<1>5. \A i \in 1 .. n : q.accounts[users[i].name].home = etc.accounts[users[i].name].home
  BY <1>2, <1>4
<1>6. ASSUME NEW i \in 1 .. n + 1
      PROVE  /\ users[i].name \in DOMAIN q.accounts
             /\ LastOfName(users, n + 1, i) =>
                  /\ users[i].password # "" => q.accounts[users[i].name].shadow = Secret(users[i])
                  /\ users[i].password = "" /\ users[i].keys # {} => q.accounts[users[i].name].shadow.locked
                  /\ users[i].startup # "" => q.accounts[users[i].name].shell = users[i].startup
             /\ users[i].keys # {} => LET a == q.accounts[users[i].name]
                                      IN  a.home \in DOMAIN q.keys /\ users[i].keys \subseteq q.keys[a.home]
  <2>1. CASE i = n + 1
    BY <1>2, <1>3, <2>1
  <2>2. CASE i \in 1 .. n
    <3> DEFINE v == users[i]
    <3>1. /\ v.name \in DOMAIN etc.accounts
          /\ LastOfName(users, n, i) =>
               /\ v.password # "" => etc.accounts[v.name].shadow = Secret(v)
               /\ v.password = "" /\ v.keys # {} => etc.accounts[v.name].shadow.locked
               /\ v.startup # "" => etc.accounts[v.name].shell = v.startup
          /\ v.keys # {} => etc.accounts[v.name].home \in DOMAIN etc.keys /\ v.keys \subseteq etc.keys[etc.accounts[v.name].home]
      BY <2>2 DEF Made
    <3>2. LastOfName(users, n + 1, i) => LastOfName(users, n, i) /\ u.name # v.name
      BY <2>2 DEF LastOfName
    <3>3. q.accounts[v.name].home = etc.accounts[v.name].home
      BY <1>5, <2>2
    <3> HIDE DEF u, v
    <3>4. LastOfName(users, n + 1, i) => q.accounts[v.name] = etc.accounts[v.name]
      BY <1>2, <3>1, <3>2
    <3>5. LastOfName(users, n + 1, i) =>
            /\ v.password # "" => q.accounts[v.name].shadow = Secret(v)
            /\ v.password = "" /\ v.keys # {} => q.accounts[v.name].shadow.locked
            /\ v.startup # "" => q.accounts[v.name].shell = v.startup
      BY <3>1, <3>2, <3>4
    <3>6. v.keys # {} => q.accounts[v.name].home \in DOMAIN q.keys /\ v.keys \subseteq q.keys[q.accounts[v.name].home]
      BY <1>3, <3>1, <3>3
    <3> QED
      BY <1>2, <3>1, <3>5, <3>6 DEF v
  <2> QED
    BY <1>1, <2>1, <2>2
<1>7. ASSUME NEW h \in DOMAIN q.keys, NEW k \in q.keys[h]
      PROVE  \/ h \in DOMAIN was.keys /\ k \in was.keys[h]
             \/ \E j \in 1 .. n + 1 : k \in users[j].keys /\ q.accounts[users[j].name].home = h
  <2>1. CASE h = home /\ k \in u.keys
    BY <2>1
  <2>2. CASE h \in DOMAIN etc.keys /\ k \in etc.keys[h]
    <3>1. CASE h \in DOMAIN was.keys /\ k \in was.keys[h]
      BY <3>1
    <3>2. CASE \E j \in 1 .. n : k \in users[j].keys /\ etc.accounts[users[j].name].home = h
      <4>1. PICK j \in 1 .. n : k \in users[j].keys /\ etc.accounts[users[j].name].home = h
        BY <3>2
      <4>2. j \in 1 .. n + 1 /\ q.accounts[users[j].name].home = h
        BY <1>5, <4>1
      <4> QED
        BY <4>1, <4>2
    <3> QED
      BY <2>2, <3>1, <3>2 DEF Made
  <2> QED
    BY <1>3, <2>1, <2>2
<1> HIDE DEF u, home
<1> QED
  BY <1>2, <1>6, <1>7 DEF Made

LEMMA AllMade ==
  ASSUME NEW was, NEW etc, NEW users, IsList(users), Made(was, etc, users, Len(users))
  PROVE  MayLogInAs(was, WriteKeyOnlySudoers(etc, users), users)
<1> DEFINE q == WriteKeyOnlySudoers(etc, users)
           granted == {u.name : u \in {x \in Range(users) : IsKeyOnlySudoUser(x)}}
<1>1. DOMAIN users = 1 .. Len(users)
  BY DEF IsList
<1>2. q.accounts = etc.accounts /\ q.keys = etc.keys /\ q.sudoers = IF granted = {} THEN etc.sudoers ELSE granted
  BY DEF WriteKeyOnlySudoers, Made, Shaped, EtcFields
<1>3. \A i \in DOMAIN users : users[i] \in Range(users)
  BY DEF Range
<1>4. \A i \in DOMAIN users : HasSudoAccess(users[i]) /\ users[i].password = "" /\ users[i].keys # {} => users[i].name \in granted
  BY <1>3 DEF IsKeyOnlySudoUser
<1> HIDE DEF q, granted
<1>5. \A i \in DOMAIN users : HasSudoAccess(users[i]) /\ users[i].password = "" /\ users[i].keys # {} => users[i].name \in q.sudoers
  BY <1>2, <1>4
<1>6. \A home \in DOMAIN q.keys : \A k \in q.keys[home] :
         \/ home \in DOMAIN was.keys /\ k \in was.keys[home]
         \/ \E o \in Range(users) : k \in o.keys /\ q.accounts[o.name].home = home
  <2> SUFFICES ASSUME NEW home \in DOMAIN q.keys, NEW k \in q.keys[home], ~(home \in DOMAIN was.keys /\ k \in was.keys[home])
               PROVE  \E o \in Range(users) : k \in o.keys /\ q.accounts[o.name].home = home
    OBVIOUS
  <2>1. PICK j \in 1 .. Len(users) : k \in users[j].keys /\ etc.accounts[users[j].name].home = home
    BY <1>2 DEF Made
  <2> QED
    BY <1>1, <1>2, <1>3, <2>1
<1>7. \A i \in DOMAIN users :
        LET u == users[i]
            a == q.accounts[u.name]
        IN  /\ LastOfName(users, Len(users), i) =>
                 /\ u.password # "" => a.shadow = Secret(u)
                 /\ u.password = "" /\ u.keys # {} => a.shadow.locked
                 /\ u.startup # "" => a.shell = u.startup
            /\ u.keys # {} => u.keys \subseteq q.keys[a.home]
  BY <1>1, <1>2 DEF Made
<1>8. MayLogInAs(was, q, users)
  <2> SUFFICES ASSUME NEW i \in DOMAIN users
               PROVE  LET u == users[i]
                          a == q.accounts[u.name]
                      IN  /\ LastOfName(users, Len(users), i) =>
                               /\ u.password # "" => a.shadow = Secret(u)
                               /\ u.password = "" /\ u.keys # {} => a.shadow.locked
                               /\ u.startup # "" => a.shell = u.startup
                          /\ u.keys # {} => u.keys \subseteq q.keys[a.home]
                          /\ HasSudoAccess(u) /\ u.password = "" /\ u.keys # {} => u.name \in q.sudoers
                          /\ \A home \in DOMAIN q.keys : \A k \in u.keys \cap q.keys[home] :
                               \/ home \in DOMAIN was.keys /\ k \in was.keys[home]
                               \/ \E o \in Range(users) : k \in o.keys /\ q.accounts[o.name].home = home
    BY Zenon DEF MayLogInAs, Secret
  <2>1. \A home \in DOMAIN q.keys : \A k \in users[i].keys \cap q.keys[home] :
           \/ home \in DOMAIN was.keys /\ k \in was.keys[home]
           \/ \E o \in Range(users) : k \in o.keys /\ q.accounts[o.name].home = home
    BY <1>6
  <2> QED
    BY <1>5, <1>7, <2>1
<1> QED
  BY <1>8 DEF q

EtcInv ==
    /\ pc \in Fresh \cup {"kernels", "dkms", "depmod", "configure"} => root.etc = t.etc /\ job.users = 0
    /\ pc = "users" => job.users \in 0 .. Len(t.users) /\ Made(t.etc, root.etc, t.users, job.users)
    /\ pc = "site" \/ (pc \in Finishing /\ ~Lost) => MayLogInAs(t.etc, root.etc, t.users)

LEMMA EtcKept ==
  ASSUME StageInv, EtcInv, InstallNext PROVE EtcInv'
<1>1. Onward /\ Untouching /\ world' = world
  BY Followed, DiskFollows DEF InstallNext
<1>2. t' = t
  BY <1>1 DEF t
<1>3. IsList(t.users)
  <2>1. t.users \in Seq(Range(t.users))
    BY TemplateAssumption DEF StageInv, t
  <2> QED
    BY <2>1 DEF IsList
<1> USE DEF Fresh, Untaken
<1>4. CASE pc \notin {"configure", "users"}
  <2>1. root'.etc = root.etc /\ job'.users = job.users
    BY <1>1, <1>4 DEF Untouching
  <2>2. /\ pc' \in Fresh \cup {"kernels", "dkms", "depmod", "configure"} => pc \in Fresh \cup {"kernels", "dkms", "depmod"}
        /\ pc' # "users"
        /\ pc' = "site" \/ (pc' \in Finishing /\ ~Lost') => pc = "site" \/ (pc \in Finishing /\ ~Lost)
    BY <1>1, <1>4 DEF Onward, Lost, Finishing, Bootable
  <2> QED
    BY <1>2, <2>1, <2>2 DEF EtcInv
<1>5. CASE Lost' /\ pc' \notin {"users", "site"} \cup Fresh
  BY <1>5 DEF EtcInv, Lost
<1>6. ASSUME ImageCommandFails \/ GiveUp, pc \in {"configure", "users"} PROVE Lost' /\ pc' = "unwind"
  BY <1>6 DEF ImageCommandFails, GiveUp, ImageGoto, Unwinding, Lost, StageInv
<1>7. CASE pc = "configure"
  <2>1. CASE AddImageAdditionalFiles
    <3>1. PICK site, files : root' = [root EXCEPT !.site = site, !.etc.files = files] /\ pc' = "users"
      BY <2>1 DEF AddImageAdditionalFiles, RootBecomes, ImageGoto
    <3>2. root'.etc = [root.etc EXCEPT !.files = files]
      BY <3>1 DEF StageInv
    <3>3. root.etc = t.etc /\ job'.users = 0
      BY <1>1, <1>7 DEF EtcInv, Untouching
    <3>4. Shaped(t.etc)
      BY TemplateAssumption DEF StageInv, t, Shaped, EtcFields, AccountFields
    <3>5. Shaped(root'.etc) /\ root'.etc.keys = t.etc.keys
      BY <3>2, <3>3, <3>4 DEF Shaped, EtcFields
    <3>6. Made(t.etc, root'.etc, t.users, 0)
      BY <3>5 DEF Made
    <3>7. job'.users \in 0 .. Len(t.users)
      BY <1>3, <3>3 DEF IsList
    <3> QED
      BY <1>2, <3>1, <3>3, <3>6, <3>7 DEF EtcInv, Finishing, Bootable
  <2> QED
    BY <1>5, <1>6, <1>7, <2>1, Acts, DiskFollows DEF InstallNext
<1>8. CASE pc = "users"
  <2>1. Made(t.etc, root.etc, t.users, job.users) /\ job.users \in 0 .. Len(t.users) /\ Len(t.users) \in Nat
    BY <1>3, <1>8 DEF EtcInv, IsList
  <2>2. CASE CreateNextUser
    <3> DEFINE u == t.users[job.users + 1]
               etc == CreateUser(root.etc, u, t.os)
    <3>1. CASE etc = Refused
      <4>1. GiveUp
        BY <2>2, <3>1 DEF CreateNextUser
      <4> QED
        BY <1>5, <1>6, <1>8, <4>1
    <3>2. CASE etc # Refused
      <4>1. /\ root' = [root EXCEPT !.etc = etc[1]] /\ job' = [job EXCEPT !.users = @ + 1] /\ pc' = "users"
            /\ job.users < Len(t.users)
        BY <1>8, <2>2, <3>2 DEF CreateNextUser, diskVars
      <4>2. root'.etc = etc[1] /\ job'.users = job.users + 1
        BY <4>1 DEF StageInv
      <4>3. Got(root.etc, etc[1], u)
        BY <2>1, <3>2, UserCreated DEF Made
      <4> HIDE DEF etc
      <4>4. Made(t.etc, root'.etc, t.users, job'.users)
        BY <1>3, <2>1, <4>1, <4>2, <4>3, NextMade
      <4>5. job'.users \in 0 .. Len(t.users)
        BY <2>1, <4>1, <4>2
      <4> QED
        BY <1>2, <4>1, <4>4, <4>5 DEF EtcInv, Finishing, Bootable
    <3> QED
      BY <3>1, <3>2
  <2>3. CASE UsersCreated
    <3>1. /\ root' = [root EXCEPT !.etc = WriteKeyOnlySudoers(@, t.users)] /\ pc' = "site"
          /\ job.users = Len(t.users)
      BY <2>3 DEF UsersCreated, RootBecomes, ImageGoto
    <3>2. root'.etc = WriteKeyOnlySudoers(root.etc, t.users)
      BY <3>1 DEF StageInv
    <3>3. MayLogInAs(t.etc, root'.etc, t.users)
      BY <1>3, <2>1, <3>1, <3>2, AllMade
    <3> QED
      BY <1>2, <3>1, <3>3 DEF EtcInv
  <2> QED
    BY <1>5, <1>6, <1>8, <2>2, <2>3, Acts, DiskFollows DEF InstallNext
<1> QED
  BY <1>4, <1>7, <1>8

LEMMA EtcStart == ASSUME ImageInit PROVE EtcInv
<1>1. root.etc = t.etc /\ job.users = 0 /\ pc \in {"select", "check", "image"}
  BY DEF ImageInit, DiskInit, t
<1> QED
  BY <1>1 DEF EtcInv, Finishing, Bootable

-----------------------------------------------------------------------------
LaterInv == TreeInv /\ SiteInv /\ EtcInv

LEMMA LaterKept == InstallSpec => []LaterInv
<1>1. ImageInit => LaterInv
  BY TreeStart, SiteStart, EtcStart DEF LaterInv
<1>2. ASSUME InstallInv, LaterInv, [InstallNext]_installVars PROVE LaterInv'
  <2>1. CASE InstallNext
    BY <1>2, <2>1, TreeKept, SiteKept, EtcKept DEF LaterInv, InstallInv
  <2>2. CASE UNCHANGED installVars
    BY <1>2, <2>2 DEF LaterInv, TreeInv, SiteInv, EtcInv, installVars, diskVars, imageVars, Lost, t, IsDisk, Parts
  <2> QED
    BY <1>2, <2>1, <2>2
<1> QED
  BY <1>1, <1>2, Invariant, PTL DEF InstallSpec

\* An installation that ends well was never lost.
LEMMA WasNotLost == Installed => pc \in Finishing /\ ~Lost /\ pc \notin Fresh \cup {"kernels", "dkms"}
  BY DEF Installed, Finishing, Bootable, Lost, Fresh, Untaken

(* Every user of the template gets into an installed image by the password or *)
(* the keys it was given and no other way, for every list of users and every  *)
(* /etc the packages bring: CreateUser's edits keep those made before, and no  *)
(* later stage writes to the accounts.                                       *)
THEOREM Users == InstallSpec => []UsersMayLogIn
<1>1. LaterInv => UsersMayLogIn
  BY WasNotLost DEF LaterInv, EtcInv, UsersMayLogIn
<1> QED
  BY <1>1, LaterKept, PTL

(* Every script of the template is started at the first boot, with its file    *)
(* and after the one before it, for every number of scripts: each unit waits   *)
(* only for units of a lower rank, so that systemd drops the job of none.     *)
THEOREM Scripts == InstallSpec => []ScriptsRun
<1>1. LaterInv => ScriptsRun
  BY WasNotLost DEF LaterInv, SiteInv, ScriptsRun
<1> QED
  BY <1>1, LaterKept, PTL

(* The kernels of an image that is installed have the vendor's modules, built  *)
(* and signed, for every set of sources and every number of kernels: what one  *)
(* kernel is built leaves the modules of those before it.                    *)
THEOREM Modules == InstallSpec => []VendorModulesLoadUnlessLeft
<1>1. LaterInv => VendorModulesLoadUnlessLeft
  BY WasNotLost DEF LaterInv, TreeInv, VendorModulesLoadUnlessLeft
<1> QED
  BY <1>1, LaterKept, PTL

-----------------------------------------------------------------------------
(* BootReachesRoot: each stage that writes what the image starts by leaves     *)
(* what the earlier ones wrote, and the options, the crypttab and the          *)
(* initramfs say of every partition what became of it.                        *)

RootFields == {"kernels", "modules", "initramfs", "gen", "defaultGrub", "cmdline", "grubStub", "grubCfg", "fstab", "crypttab", "key",
               "uki", "loader", "hashed", "stale", "signed", "scaffold", "etc", "tree", "sbom", "site"}
Unlisted == Fresh \cup {"kernels", "dkms", "depmod", "configure", "users", "site"}
Unsealed == Unlisted \cup {"boot", "sbom", "secure", "fde"}
Signable == {"sign", "post", "unwind", "close", "bootorder", "bootentry", "setorder", "removeold", "done"}
Sealed == {"wire", "initramfs", "verity", "hash", "ukify", "loader"} \cup Signable

\* What the installation is of, while it may still end well.
Live ==
    /\ IsDisk /\ ~Lost /\ ~job.unclean
    /\ PlainLayout /\ (t.cmdlineRoot = "" \/ t.immutable) /\ (t.provider = "grub" => ~t.immutable)
Ids == {p.id : p \in Range(Parts)}
Rooted == \E p \in Range(Parts) : p.mount = "/"
RootId == FdeRootPartitionID(Parts)
HashKept == \E p \in Range(Parts) : p.mount = "none"
HashId == (CHOOSE p \in Range(Parts) : p.mount = "none").id
Targets == Range(FdeTargetPartitionIDs(t, Parts))
FdeSealed == IF t.fde.enabled THEN Targets ELSE {}

\* The options, of a root that is a partition or, once that is encrypted, its mapper.
Behind(sealed) == IF RootId \in sealed THEN <<"mapper", RootId>> ELSE <<"part", RootId>>
Options(sealed) ==
    [root   |-> IF t.immutable THEN <<"mapper", "root">> ELSE NameOf(Behind(sealed)),
     verity |-> IF t.immutable THEN <<NameOf(Behind(sealed)), <<"partuuid", HashId>>>> ELSE <<>>,
     pair   |-> IF t.immutable THEN <<Behind(sealed), <<"part", HashId>>>> ELSE <<>>,
     hash   |-> <<>>,
     luks   |-> {FdeLuksCmdlineParams(id, t.fde.auto) : id \in sealed \cap {RootId}}]
FirstOptions == Options({})
LastOptions == Options(FdeSealed)
Content == {"base"} \cup (IF t.immutable THEN {"verity", "crypt"} ELSE {})
                    \cup (IF t.fde.enabled THEN {"crypt"} ELSE {})
                    \cup (IF IsFDEAutoUnlock(t) THEN {"crypttab", "key"} ELSE {})
                    \cup (IF t.extra THEN {"extra"} ELSE {})
\* An entry of the fstab, by what its partition will be.
MountedAs(e) ==
    \/ e.source[1] \in {"tmpfs", "bind"}
    \/ \E p \in Range(Parts) :
         /\ e.mount = p.mount
         /\ e.source = IF t.fde.enabled /\ p.id \in Range(t.fde.partitions) /\ p.mount # "/"
                       THEN <<"mapper", p.id>> ELSE <<"partuuid", p.id>>
GrubSet(r) ==
    LET boots == {p.id : p \in {x \in Range(Parts) : x.mount = "/boot"}}
    IN  /\ r.defaultGrub = <<FirstOptions>> /\ r.grubCfg[1].kernels = r.kernels
        /\ t.bootType = "efi" =>
             /\ r.grubStub[1].boot \in (IF boots = {} THEN {RootId} ELSE boots)
             /\ r.grubStub[1].prefix = (IF boots = {} THEN "/boot" ELSE "")
             /\ r.grubStub[1].version = r.grubCfg[1].version
        /\ t.deb => DOMAIN r.initramfs = {r.kernels[1]}
Hashed == t.immutable => root.hashed = LastOptions.pair /\ ~root.stale

ShapeInv == DOMAIN root = RootFields /\ Binaries \subseteq DOMAIN root.gen
DevInv ==
    /\ pc \notin Untaken \/ pc = "mountroot" =>
         /\ Ids \subseteq DOMAIN sys.dev
         /\ \A id \in DOMAIN sys.dev : sys.dev[id] = IF id \in sys.crypt THEN <<"mapper", id>> ELSE <<"part", id>>
    /\ pc \in Unsealed => sys.crypt = {}
    /\ pc = "encrypt" => t.fde.enabled /\ job.targets \in Seq(Targets) /\ sys.crypt \cup Range(job.targets) = Targets
    /\ pc \in Sealed => sys.crypt = FdeSealed
DepInv ==
    /\ \A k \in DOMAIN root.modules : "dep" \in DOMAIN root.modules[k]
    /\ pc \notin Fresh \cup {"kernels", "dkms", "depmod"} =>
         \A k \in Range(root.kernels) : k \in DOMAIN root.modules => root.modules[k].dep
FstabInv == IF pc \in Unlisted THEN root.fstab = {} ELSE \A e \in root.fstab : MountedAs(e)
LoaderInv ==
    /\ pc \in Unlisted \cup {"boot"} => root.cmdline = <<>> /\ root.initramfs = <<>>
    /\ pc \in {"initramfs", "verity", "hash", "ukify", "loader"} => t.provider = "systemd-boot"
    /\ pc \notin Unlisted \cup {"boot"} =>
         /\ t.provider \in {"grub", "systemd-boot"} /\ Rooted /\ (t.immutable => HashKept)
         /\ t.provider = "grub" => root.cmdline = <<>> /\ GrubSet(root)
    /\ t.provider = "systemd-boot" =>
         /\ pc \in {"sbom", "secure", "fde", "encrypt", "wire"} => root.cmdline = <<FirstOptions>>
         /\ pc \in {"initramfs", "verity", "hash", "ukify"} => root.cmdline = <<LastOptions>>
WireInv ==
    /\ pc \notin Sealed \/ pc = "wire" => root.crypttab = {}
    /\ pc \in Sealed \ {"wire"} /\ t.fde.enabled =>
         /\ t.provider = "systemd-boot" /\ Rooted
         /\ root.crypttab = {FdeCrypttabEntry(id, t.fde.auto) : id \in {x \in Targets : x # RootId \/ t.fde.auto}}
         /\ t.fde.auto => root.key /\ sys.keyed = Targets
UkiInv ==
    t.provider = "systemd-boot" =>
        /\ pc \in {"verity", "hash", "ukify"} => root.kernels[1] \in DOMAIN root.initramfs /\ root.initramfs[root.kernels[1]] = Content
        /\ pc = "hash" => sys.ro /\ ExtractRootHashPH(LastOptions) # Refused
        /\ pc = "ukify" => Hashed /\ (t.immutable => sys.ro)
        /\ pc \in {"loader"} \cup Signable =>
             /\ t.arch \in UkifyStubs /\ Hashed
             /\ root.uki[1].initramfs = Content
             /\ root.uki[1].options = IF t.immutable THEN [LastOptions EXCEPT !.hash = root.hashed] ELSE LastOptions
        /\ pc \in Signable => root.loader = IF t.arch = "x86_64" THEN "BOOTX64" ELSE "BOOTAA64"
        /\ pc \in Signable \ {"sign"} /\ t.immutable /\ t.keys => root.signed = {"uki", "loader"}
BootInv == ShapeInv /\ (Live => DevInv /\ DepInv /\ FstabInv /\ LoaderInv /\ WireInv /\ UkiInv)

\* Of a plain layout: its root, and what holds its hashes.
LEMMA PlainIds ==
  ASSUME world \in Worlds, PlainLayout
  PROVE  /\ \A p \in Range(Parts) : p.mount = "/" => p.id = RootId
         /\ Rooted => \A p \in Range(Parts) : p.id = RootId => p.mount = "/"
         /\ ~Rooted => RootId = ""
<1> DEFINE roots == {i \in DOMAIN Parts : Parts[i].mount = "/"}
<1>1. DOMAIN Parts \subseteq Nat
  BY Listed
<1>2. roots # {} => Min(roots) \in roots
  BY <1>1, LeastNatural
<1>3. RootId = IF roots = {} THEN "" ELSE Parts[Min(roots)].id
  BY DEF RootId, FdeRootPartitionID
<1>4. \A p, q \in Range(Parts) : p.id = q.id \/ (p.mount = "/" /\ q.mount = "/") => p = q
  BY DEF PlainLayout
<1>5. Rooted <=> roots # {}
  BY DEF Rooted, Range
<1>6. \A i \in roots : Parts[i] \in Range(Parts) /\ Parts[i].mount = "/"
  BY DEF Range
<1> HIDE DEF roots
<1>7. Rooted => \E q \in Range(Parts) : q.mount = "/" /\ q.id = RootId
  BY <1>2, <1>3, <1>5, <1>6
<1> QED
  BY <1>3, <1>4, <1>5, <1>7 DEF Rooted

LEMMA PlainHash ==
  ASSUME world \in Worlds, PlainLayout, t.immutable, NEW h \in Range(Parts), h.mount = "none"
  PROVE  /\ h.id = HashId /\ HashId # "" /\ (Rooted => HashId \notin Targets)
         /\ \A dev : h.id \in DOMAIN dev => FdeHashPartitionDev(dev, Parts) = dev[HashId]
<1> DEFINE hashes == {p \in Range(Parts) : p.mount = "none" \/ p.id \in {"roothashmap", "hash"}}
<1>1. \A p, q \in hashes : p = q /\ p.id # "" /\ p.id \notin Range(t.fde.partitions)
  BY DEF PlainLayout
<1>2. h.id = HashId
  <2>1. PICK p \in Range(Parts) : p.mount = "none" /\ p.id = HashId
    BY DEF HashId
  <2>2. h \in hashes /\ p \in hashes
    BY <2>1
  <2> HIDE DEF hashes
  <2> QED
    BY <1>1, <2>1, <2>2
<1>3. HashId # "" /\ HashId \notin Range(t.fde.partitions)
  BY <1>1, <1>2
<1>4. Rooted => HashId # RootId
  BY <1>2, PlainIds
<1>5. Rooted => HashId \notin Targets
  <2>1. Range(<<RootId>>) = {RootId} /\ Range(<<>>) = {}
    BY DEF Range
  <2> QED
    BY <1>3, <1>4, <2>1 DEF Targets, FdeTargetPartitionIDs, RootId
<1>6. ASSUME NEW dev, h.id \in DOMAIN dev PROVE FdeHashPartitionDev(dev, Parts) = dev[HashId]
  <2> DEFINE known == {i \in DOMAIN Parts : Parts[i].id \in DOMAIN dev}
             named == {i \in known : Parts[i].id \in {"roothashmap", "hash"}}
             none == {i \in known : Parts[i].mount = "none"}
             hash == IF named # {} THEN named ELSE none
  <2>1. DOMAIN Parts \subseteq Nat
    BY Listed
  <2>2. hash # {} => Min(hash) \in hash
    BY <2>1, LeastNatural
  <2>3. none # {}
    BY <1>6 DEF Range
  <2>4. \A i \in hash : Parts[i] \in hashes
    BY DEF Range
  <2>5. FdeHashPartitionDev(dev, Parts) = IF hash = {} THEN <<>> ELSE dev[Parts[Min(hash)].id]
    BY DEF FdeHashPartitionDev
  <2>6. hash # {}
    BY <2>3
  <2>7. Parts[Min(hash)] = h
    <3>1. h \in hashes
      OBVIOUS
    <3> HIDE DEF hash, hashes
    <3> QED
      BY <1>1, <2>2, <2>4, <2>6, <3>1
  <2> QED
    BY <1>2, <2>5, <2>6, <2>7
<1> QED
  BY <1>2, <1>3, <1>5, <1>6
-----------------------------------------------------------------------------
(* What a step leaves of all that. *)
Writing == {"site", "boot", "secure", "wire", "initramfs", "hash", "ukify", "loader", "sign"}
Settled ==
    /\ root'.initramfs = root.initramfs /\ root'.defaultGrub = root.defaultGrub /\ root'.cmdline = root.cmdline
    /\ root'.grubStub = root.grubStub /\ root'.grubCfg = root.grubCfg /\ root'.fstab = root.fstab
    /\ root'.crypttab = root.crypttab /\ root'.key = root.key /\ root'.uki = root.uki /\ root'.loader = root.loader
    /\ root'.hashed = root.hashed /\ root'.stale = root.stale /\ root'.signed = root.signed
DevicesSettled == sys'.dev = sys.dev /\ SameSeals(sys', sys)
Steady ==
    /\ job.unclean => job'.unclean
    /\ pc \notin {"image", "encrypt", "wire"} /\ ~Lost' => DevicesSettled
    /\ DOMAIN root' = RootFields /\ DOMAIN root.gen \subseteq DOMAIN root'.gen
    /\ pc \notin Writing => Settled
    /\ pc \notin {"install", "depmod", "boot"} => root'.modules = root.modules

LEMMA RootUnchanged ==
  ASSUME StageInv, ShapeInv, root' = root, job.unclean => job'.unclean,
         pc \notin {"image", "encrypt", "wire"} /\ ~Lost' => DevicesSettled
  PROVE  Steady
  BY DEF Steady, Settled, ShapeInv

LEMMA SteadyFailure ==
  ASSUME StageInv, ShapeInv, GiveUp PROVE Steady
<1>1. root' = root /\ sys' = sys /\ job' = [job EXCEPT !.failed = TRUE]
  BY DEF GiveUp, ImageGoto
<1>2. job'.unclean = job.unclean
  BY <1>1 DEF StageInv
<1> QED
  BY <1>1, <1>2, RootUnchanged DEF DevicesSettled, SameSeals

\* The stages of the packages.
LEMMA PackagesSteady ==
  ASSUME StageInv, ShapeInv,
         \/ StartInstall \/ MountDiskRoot \/ InitRootfsForDeb \/ MountSysfs \/ MountDisk
         \/ InitDebLocalRepo \/ InitImageRpmDb \/ PrepareInitramfsBinaries \/ InstallPackage \/ PackagesInstalled
         \/ RestoreInitramfsBinaries \/ DeInitDebLocalRepo
  PROVE  Steady
<1> USE DEF ImageGoto
<1>1. /\ DOMAIN sys = SysFields /\ {"unclean", "failed"} \subseteq DOMAIN job /\ DOMAIN root = RootFields
  BY DEF StageInv, ShapeInv, SysFields
<1>2. CASE StartInstall
  BY <1>2, RootUnchanged DEF StartInstall
<1>3. CASE MountDiskRoot
  <2>1. CASE GiveUp
    BY <2>1, SteadyFailure
  <2>2. CASE sys' = MountPath(sys, "/") /\ job' = [job EXCEPT !.list = {"/"}] /\ root' = root
    BY <1>1, <2>2, RootUnchanged DEF MountPath, DevicesSettled, SameSeals, SysFields
  <2> QED
    BY <1>3, <2>1, <2>2 DEF MountDiskRoot
<1>4. CASE InitRootfsForDeb
  BY <1>1, <1>4, RootUnchanged DEF InitRootfsForDeb, PrepareInstallRoot, DevicesSettled, SameSeals, SysFields
<1>5. CASE MountSysfs \/ InitImageRpmDb
  BY <1>1, <1>5, RootUnchanged DEF MountSysfs, InitImageRpmDb, DevicesSettled, SameSeals, SysFields
<1>6. CASE MountDisk
  <2>1. PICK r \in MountDiskToChroot(sys) :
           sys' = r.sys /\ root' = root
           /\ job' = IF r.ok THEN [job EXCEPT !.list = MountPointInfoList]
                     ELSE [job EXCEPT !.failed = TRUE, !.unclean = @ \/ r.unclean]
    BY <1>6 DEF MountDisk
  <2>2. DevicesSettled
    BY <1>1, <2>1, Mounting DEF DevicesSettled
  <2> QED
    BY <1>1, <2>1, <2>2, RootUnchanged
<1>7. CASE InitDebLocalRepo
  <2>1. DevicesSettled
    BY <1>1, <1>7 DEF InitDebLocalRepo, MountPath, DevicesSettled, SameSeals, SysFields
  <2>2. job'.unclean = job.unclean
    BY <1>1, <1>7 DEF InitDebLocalRepo
  <2>3. PICK scaffold : root' = [root EXCEPT !.scaffold = scaffold]
    BY <1>7 DEF InitDebLocalRepo
  <2> QED
    BY <1>1, <2>1, <2>2, <2>3 DEF Steady, Settled, RootFields
<1>8. CASE PrepareInitramfsBinaries
  <2>1. PICK diverted, backups, fresh : /\ job' = [job EXCEPT !.diverted = diverted, !.backups = backups]
                                       /\ root' = [root EXCEPT !.gen = Over(@, fresh)] /\ sys' = sys
    BY <1>8 DEF PrepareInitramfsBinaries
  <2> QED
    BY <1>1, <2>1 DEF Steady, Settled, RootFields, Over, DevicesSettled, SameSeals
<1>9. CASE InstallPackage
  <2>1. PICK packages, scaffold : job' = [job EXCEPT !.packages = packages] /\ root' = [root EXCEPT !.scaffold = scaffold] /\ sys' = sys
    BY <1>9 DEF InstallPackage
  <2> QED
    BY <1>1, <2>1 DEF Steady, Settled, RootFields, DevicesSettled, SameSeals
<1>10. CASE PackagesInstalled
  <2>1. PICK scaffold, fresh :
           /\ root' = [root EXCEPT !.scaffold = scaffold, !.kernels = t.boot, !.modules = t.trees, !.gen = Over(@, fresh)]
           /\ UNCHANGED <<sys, job>> /\ pc = "install"
    BY <1>10 DEF PackagesInstalled
  <2> QED
    BY <1>1, <2>1 DEF Steady, Settled, RootFields, Over, DevicesSettled, SameSeals
<1>11. CASE RestoreInitramfsBinaries
  <2>1. PICK more, fresh : /\ root' = [root EXCEPT !.gen = Over(@, fresh)] /\ job' = [job EXCEPT !.unclean = @ \/ more]
                           /\ sys' = sys
    BY <1>11 DEF RestoreInitramfsBinaries
  <2> QED
    BY <1>1, <2>1 DEF Steady, Settled, RootFields, Over, DevicesSettled, SameSeals
<1>12. CASE DeInitDebLocalRepo
  <2>1. CASE sys' = UmountPath(sys, Repo) /\ job' = job /\ \E scaffold : root' = [root EXCEPT !.scaffold = scaffold]
    <3>1. DevicesSettled
      BY <1>1, <2>1, UmountedLeaves DEF UmountPath, DevicesSettled
    <3> QED
      BY <1>1, <2>1, <3>1 DEF Steady, Settled, RootFields
  <2>2. CASE (\E mounts : sys' = [sys EXCEPT !.mounts = mounts]) /\ job' = [job EXCEPT !.failed = TRUE, !.unclean = TRUE] /\ root' = root
    BY <1>1, <2>2, RootUnchanged DEF DevicesSettled, SameSeals, SysFields
  <2> QED
    BY <1>12, <2>1, <2>2 DEF DeInitDebLocalRepo
<1> QED
  BY <1>2, <1>3, <1>4, <1>5, <1>6, <1>7, <1>8, <1>9, <1>10, <1>11, <1>12
-----------------------------------------------------------------------------
(* What the loader is given. *)
\* The kernels whose modules can be found stay so.
DepKept(r, q) ==
    (\A k \in DOMAIN r.modules : "dep" \in DOMAIN r.modules[k]) =>
        /\ DOMAIN q.modules = DOMAIN r.modules
        /\ \A k \in DOMAIN r.modules : "dep" \in DOMAIN q.modules[k] /\ (r.modules[k].dep => q.modules[k].dep)
Given(r, q) == DOMAIN q = RootFields /\ q.kernels = r.kernels /\ q.gen = r.gen /\ q.fstab = r.fstab /\ q.crypttab = r.crypttab
\* The options UpdateBootConfigTemplate writes.
Wanted(rootId, hashId, pair, t0) ==
    [root   |-> IF t0.immutable THEN <<"mapper", "root">>
                ELSE IF t0.cmdlineRoot # "" THEN <<"user", t0.cmdlineRoot>> ELSE <<"partuuid", rootId>>,
     verity |-> IF t0.immutable /\ hashId # "" THEN <<<<"partuuid", rootId>>, <<"partuuid", hashId>>>> ELSE <<>>,
     pair   |-> IF t0.immutable THEN pair ELSE <<>>,
     hash   |-> <<>>,
     luks   |-> {}]

LEMMA ModulesFound ==
  ASSUME NEW r, DOMAIN r = RootFields, NEW k, EnsureKernelModuleDependencies(r, k) # Refused
  PROVE  LET q == EnsureKernelModuleDependencies(r, k)[1] IN
         /\ Given(r, q) /\ DepKept(r, q) /\ q.defaultGrub = r.defaultGrub /\ q.cmdline = r.cmdline
         /\ q.grubStub = r.grubStub /\ q.initramfs = r.initramfs
<1> DEFINE m == [r.modules EXCEPT ![k].dep = TRUE]
           q == [r EXCEPT !.modules = m]
<1>1. EnsureKernelModuleDependencies(r, k)[1] = q /\ k \in DOMAIN r.modules
  BY DEF EnsureKernelModuleDependencies, RootFields
<1>2. q.modules = m
  BY DEF RootFields
<1>3. (\A j \in DOMAIN r.modules : "dep" \in DOMAIN r.modules[j]) =>
        /\ DOMAIN m = DOMAIN r.modules
        /\ \A j \in DOMAIN r.modules : "dep" \in DOMAIN m[j] /\ (r.modules[j].dep => m[j].dep)
  BY <1>1
<1>4. Given(r, q) /\ q.defaultGrub = r.defaultGrub /\ q.cmdline = r.cmdline /\ q.grubStub = r.grubStub /\ q.initramfs = r.initramfs
  BY DEF Given, RootFields
<1> HIDE DEF m, q
<1> QED
  BY <1>1, <1>2, <1>3, <1>4 DEF DepKept

LEMMA InitramfsMade ==
  ASSUME NEW r, DOMAIN r = RootFields, NEW k, NEW t0, UpdateInitramfsForGrub(r, k, t0) # Refused
  PROVE  LET q == UpdateInitramfsForGrub(r, k, t0)[1] IN
         /\ Given(r, q) /\ DepKept(r, q) /\ q.defaultGrub = r.defaultGrub /\ q.cmdline = r.cmdline /\ q.grubStub = r.grubStub
         /\ (\A b \in Binaries : r.gen[b] # "dummy") => DOMAIN q.initramfs = DOMAIN r.initramfs \cup {k}
<1> DEFINE e == EnsureKernelModuleDependencies(r, k)
           content == {"base"} \cup IF t0.extra THEN {"extra"} ELSE {}
<1>1. e # Refused /\ \E g \in Binaries : UpdateInitramfsForGrub(r, k, t0) = <<Generated(e[1], g, k, content)>>
  BY DEF UpdateInitramfsForGrub, Binaries
<1>2. /\ Given(r, e[1]) /\ DepKept(r, e[1]) /\ e[1].defaultGrub = r.defaultGrub /\ e[1].cmdline = r.cmdline
      /\ e[1].grubStub = r.grubStub /\ e[1].initramfs = r.initramfs
  BY <1>1, ModulesFound
<1> HIDE DEF e, content
<1>3. PICK g \in Binaries : UpdateInitramfsForGrub(r, k, t0)[1] = Generated(e[1], g, k, content)
  BY <1>1
<1> DEFINE q == Generated(e[1], g, k, content)
<1>4. /\ DOMAIN q = RootFields /\ q.kernels = e[1].kernels /\ q.gen = e[1].gen /\ q.fstab = e[1].fstab /\ q.crypttab = e[1].crypttab
      /\ q.modules = e[1].modules /\ q.defaultGrub = e[1].defaultGrub /\ q.cmdline = e[1].cmdline /\ q.grubStub = e[1].grubStub
  BY <1>2 DEF Generated, Given, RootFields
<1>5. e[1].gen[g] # "dummy" => DOMAIN q.initramfs = DOMAIN e[1].initramfs \cup {k}
  BY <1>2 DEF Generated, Given, RootFields, Put
<1> HIDE DEF q
<1>6. Given(r, q) /\ DepKept(r, q) /\ q.defaultGrub = r.defaultGrub /\ q.cmdline = r.cmdline /\ q.grubStub = r.grubStub
  BY <1>2, <1>4 DEF Given, DepKept
<1>7. (\A b \in Binaries : r.gen[b] # "dummy") => DOMAIN q.initramfs = DOMAIN r.initramfs \cup {k}
  BY <1>2, <1>5 DEF Given
<1> QED
  BY <1>3, <1>6, <1>7 DEF q

ByGrub(q, id, boot, prefix) ==
    /\ Given(root, q) /\ DepKept(root, q) /\ q.cmdline = root.cmdline
    /\ q.defaultGrub = <<Wanted(id, "", <<>>, t)>> /\ q.grubCfg[1].kernels = q.kernels
    /\ t.bootType = "efi" => q.grubStub[1].boot = boot /\ q.grubStub[1].prefix = prefix /\ q.grubStub[1].version = q.grubCfg[1].version
    /\ t.deb /\ (\A b \in Binaries : root.gen[b] # "dummy") => DOMAIN q.initramfs = DOMAIN root.initramfs \cup {root.kernels[1]}
LEMMA GrubMade ==
  ASSUME DOMAIN root = RootFields, t.provider = "grub", NEW id, NEW boot, NEW prefix,
         InstallGrub(root, id, boot, prefix, t) # Refused
  PROVE  ByGrub(InstallGrub(root, id, boot, prefix, t)[1], id, boot, prefix)
<1> DEFINE version == GetGrubVersion(root)
           stub == IF version = Refused THEN Refused
                   ELSE IF t.bootType = "efi" THEN InstallGrubWithEfiMode(root, boot, prefix, version[1], t)
                   ELSE IF t.bootType = "legacy" THEN Refused
                   ELSE <<root>>
           options == IF stub = Refused THEN Refused ELSE UpdateBootConfigTemplate(stub[1], id, "", <<>>, t)
           kernel == GetKernelVersionFromBoot(root)
           ready == IF options = Refused THEN Refused
                    ELSE IF ~t.deb THEN options
                    ELSE IF kernel = Refused THEN Refused
                    ELSE UpdateInitramfsForGrub(options[1], kernel[1], t)
           q == UpdateGrubConfig(ready[1], version[1])
<1>1. ready # Refused /\ options # Refused /\ stub # Refused /\ InstallGrub(root, id, boot, prefix, t)[1] = q
  BY DEF InstallGrub
<1> DEFINE s == stub[1]
<1>2. /\ DOMAIN s = RootFields /\ s.kernels = root.kernels /\ s.gen = root.gen /\ s.fstab = root.fstab /\ s.crypttab = root.crypttab
      /\ s.modules = root.modules /\ s.cmdline = root.cmdline /\ s.initramfs = root.initramfs
      /\ t.bootType = "efi" => s.grubStub = <<[boot |-> boot, prefix |-> prefix, version |-> version[1]]>>
  BY <1>1 DEF InstallGrubWithEfiMode, RootFields
<1> HIDE DEF stub, version
<1> DEFINE o == options[1]
<1>3. o = [s EXCEPT !.defaultGrub = <<Wanted(id, "", <<>>, t)>>]
  BY <1>1 DEF UpdateBootConfigTemplate, Wanted
<1>4. /\ DOMAIN o = RootFields /\ o.kernels = root.kernels /\ o.gen = root.gen /\ o.fstab = root.fstab /\ o.crypttab = root.crypttab
      /\ o.modules = root.modules /\ o.cmdline = root.cmdline /\ o.initramfs = root.initramfs /\ o.grubStub = s.grubStub
      /\ o.defaultGrub = <<Wanted(id, "", <<>>, t)>>
  BY <1>2, <1>3 DEF RootFields
<1> HIDE DEF options, s
<1> DEFINE d == ready[1]
<1>5. /\ DOMAIN d = RootFields /\ d.kernels = root.kernels /\ d.gen = root.gen /\ d.fstab = root.fstab /\ d.crypttab = root.crypttab
      /\ DepKept(root, d) /\ d.cmdline = root.cmdline /\ d.grubStub = o.grubStub /\ d.defaultGrub = o.defaultGrub
      /\ t.deb /\ (\A b \in Binaries : root.gen[b] # "dummy") => DOMAIN d.initramfs = DOMAIN root.initramfs \cup {root.kernels[1]}
  <2>1. CASE ~t.deb
    <3>1. ready = options
      BY <1>1, <2>1
    <3> QED
      BY <1>4, <2>1, <3>1 DEF DepKept
  <2>2. CASE t.deb
    <3>1. ready = UpdateInitramfsForGrub(o, root.kernels[1], t)
      BY <1>1, <2>2 DEF GetKernelVersionFromBoot, Refused
    <3> HIDE DEF ready, o
    <3>2. /\ Given(o, d) /\ DepKept(o, d) /\ d.defaultGrub = o.defaultGrub /\ d.cmdline = o.cmdline /\ d.grubStub = o.grubStub
          /\ (\A b \in Binaries : o.gen[b] # "dummy") => DOMAIN d.initramfs = DOMAIN o.initramfs \cup {root.kernels[1]}
      <4>1. DOMAIN o = RootFields /\ UpdateInitramfsForGrub(o, root.kernels[1], t) # Refused
        BY <1>1, <1>4, <3>1
      <4>2. d = UpdateInitramfsForGrub(o, root.kernels[1], t)[1]
        BY <3>1
      <4> HIDE DEF q, d, kernel
      <4> QED
        BY <4>1, <4>2, InitramfsMade
    <3> HIDE DEF d
    <3> QED
      BY <1>4, <3>2 DEF Given, DepKept
  <2> QED
    BY <2>1, <2>2
<1> HIDE DEF ready, o, d
<1>6. q = [d EXCEPT !.grubCfg = <<[version |-> version[1], kernels |-> d.kernels]>>]
  BY DEF UpdateGrubConfig, d
<1> HIDE DEF q
<1>7. /\ Given(root, q) /\ q.modules = d.modules /\ q.cmdline = root.cmdline /\ q.defaultGrub = d.defaultGrub /\ q.initramfs = d.initramfs
      /\ q.grubStub = d.grubStub /\ q.grubCfg = <<[version |-> version[1], kernels |-> d.kernels]>>
  BY <1>5, <1>6 DEF Given, RootFields
<1>8. DepKept(root, q)
  BY <1>5, <1>7 DEF DepKept
<1>9. q.grubCfg[1].kernels = q.kernels /\ q.grubCfg[1].version = version[1]
  BY <1>5, <1>7 DEF Given
<1>10. t.bootType = "efi" => q.grubStub = <<[boot |-> boot, prefix |-> prefix, version |-> version[1]]>>
  BY <1>2, <1>4, <1>5, <1>7
<1>11. t.bootType = "efi" => q.grubStub[1].boot = boot /\ q.grubStub[1].prefix = prefix /\ q.grubStub[1].version = version[1]
  BY <1>10
<1>12. q.defaultGrub = <<Wanted(id, "", <<>>, t)>>
  BY <1>4, <1>5, <1>7
<1>13. t.deb /\ (\A b \in Binaries : root.gen[b] # "dummy") => DOMAIN q.initramfs = DOMAIN root.initramfs \cup {root.kernels[1]}
  BY <1>5, <1>7
<1>14. ByGrub(q, id, boot, prefix)
  BY <1>7, <1>8, <1>9, <1>11, <1>12, <1>13 DEF ByGrub
<1> QED
  BY <1>1, <1>14

LEMMA SystemdMade ==
  ASSUME DOMAIN root = RootFields, t.provider = "systemd-boot", NEW id,
         NEW q \in InstallSystemdBoot(root, id, sys.dev, t, Parts)
  PROVE  /\ Given(root, q) /\ q.modules = root.modules /\ q.initramfs = root.initramfs
         /\ \E w : /\ q.cmdline = <<w>>
                   /\ IF ~t.immutable THEN w = Wanted(id, "", <<>>, t)
                      ELSE \E h \in GetDiskPartByMountPoint("none", sys.dev, Parts) : w = Wanted(id, h, <<sys.dev[id], sys.dev[h]>>, t)
<1>1. ASSUME NEW h, NEW pair PROVE UpdateBootConfigTemplate(root, id, h, pair, t)[1] = [root EXCEPT !.cmdline = <<Wanted(id, h, pair, t)>>]
  BY DEF UpdateBootConfigTemplate, Wanted
<1>2. ASSUME NEW w, q = [root EXCEPT !.cmdline = <<w>>]
      PROVE  Given(root, q) /\ q.modules = root.modules /\ q.initramfs = root.initramfs /\ q.cmdline = <<w>>
  BY <1>2 DEF Given, RootFields
<1>3. CASE ~t.immutable
  <2>1. q = UpdateBootConfigTemplate(root, id, "", <<>>, t)[1]
    BY <1>3 DEF InstallSystemdBoot
  <2>2. UpdateBootConfigTemplate(root, id, "", <<>>, t)[1] = [root EXCEPT !.cmdline = <<Wanted(id, "", <<>>, t)>>]
    BY <1>1
  <2>3. q = [root EXCEPT !.cmdline = <<Wanted(id, "", <<>>, t)>>]
    BY <2>1, <2>2
  <2> QED
    BY <1>2, <1>3, <2>3
<1>4. CASE t.immutable
  <2>1. PICK h \in GetDiskPartByMountPoint("none", sys.dev, Parts) : q = UpdateBootConfigTemplate(root, id, h, <<sys.dev[id], sys.dev[h]>>, t)[1]
    BY <1>4 DEF InstallSystemdBoot
  <2>2. q = [root EXCEPT !.cmdline = <<Wanted(id, h, <<sys.dev[id], sys.dev[h]>>, t)>>]
    BY <1>1, <2>1
  <2> QED
    BY <1>2, <1>4, <2>2
<1> QED
  BY <1>3, <1>4

\* Of GRUB's root and boot partitions.
LEMMA GrubPlaced ==
  ASSUME t.provider = "grub", NEW q \in InstallImageBoot(root, sys.dev, t, Parts)
  PROVE  LET boots == GetDiskPartByMountPoint("/boot", sys.dev, Parts) IN
         \E id \in GetDiskPartByMountPoint("/", sys.dev, Parts) : \E boot \in (IF boots = {} THEN {id} ELSE boots) :
            LET x == InstallGrub(root, id, boot, IF boots = {} THEN "/boot" ELSE "", t) IN x # Refused /\ q = x[1]
<1> DEFINE roots == GetDiskPartByMountPoint("/", sys.dev, Parts)
           boots == GetDiskPartByMountPoint("/boot", sys.dev, Parts)
           grub(id) == IF boots = {} THEN {InstallGrub(root, id, id, "/boot", t)}
                       ELSE {InstallGrub(root, id, b, "", t) : b \in boots}
<1>1. q \in {x[1] : x \in (UNION {grub(id) : id \in roots}) \ {Refused}}
  BY DEF InstallImageBoot
<1>2. ASSUME NEW id, NEW x \in grub(id)
      PROVE  \E boot \in (IF boots = {} THEN {id} ELSE boots) : x = InstallGrub(root, id, boot, IF boots = {} THEN "/boot" ELSE "", t)
  <2>1. CASE boots = {}
    BY <1>2, <2>1
  <2>2. CASE boots # {}
    BY <1>2, <2>2
  <2> QED
    BY <2>1, <2>2
<1> HIDE DEF roots, grub, boots
<1>3. PICK x \in UNION {grub(id) : id \in roots} : x # Refused /\ q = x[1]
  BY <1>1
<1>4. PICK id \in roots : x \in grub(id)
  BY <1>3
<1>5. PICK boot \in (IF boots = {} THEN {id} ELSE boots) : x = InstallGrub(root, id, boot, IF boots = {} THEN "/boot" ELSE "", t)
  BY <1>2, <1>4
<1>6. \E i \in roots : \E b \in (IF boots = {} THEN {i} ELSE boots) :
        LET y == InstallGrub(root, i, b, IF boots = {} THEN "/boot" ELSE "", t) IN y # Refused /\ q = y[1]
  BY <1>3, <1>4, <1>5
<1> QED
  BY <1>6 DEF roots, boots

\* While nothing is encrypted.
LEMMA PlainOptions ==
  ASSUME NEW id, id = RootId, NEW h, NEW pair,
         IF t.immutable THEN h = HashId /\ HashId # "" /\ pair = <<<<"part", RootId>>, <<"part", HashId>>>>
         ELSE h = "" /\ pair = <<>> /\ t.cmdlineRoot = ""
  PROVE  Wanted(id, h, pair, t) = FirstOptions
<1>1. Behind({}) = <<"part", RootId>> /\ NameOf(Behind({})) = <<"partuuid", RootId>>
  BY DEF Behind, NameOf
<1>2. {FdeLuksCmdlineParams(i, t.fde.auto) : i \in {} \cap {RootId}} = {}
  OBVIOUS
<1>3. CASE t.immutable
  BY <1>1, <1>2, <1>3 DEF Wanted, FirstOptions, Options
<1>4. CASE ~t.immutable
  BY <1>1, <1>2, <1>4 DEF Wanted, FirstOptions, Options
<1> QED
  BY <1>3, <1>4

LEMMA BootMade ==
  ASSUME StageInv, StandInInv, ShapeInv, Live, DevInv, LoaderInv, pc = "boot", NEW q \in InstallImageBoot(root, sys.dev, t, Parts)
  PROVE  /\ Given(root, q) /\ DepKept(root, q) /\ t.provider \in {"grub", "systemd-boot"} /\ Rooted /\ (t.immutable => HashKept)
         /\ t.provider = "grub" => q.cmdline = <<>> /\ GrubSet(q)
         /\ t.provider = "systemd-boot" => q.cmdline = <<FirstOptions>>
<1>1. /\ DOMAIN root = RootFields /\ root.cmdline = <<>> /\ root.initramfs = <<>> /\ Ids \subseteq DOMAIN sys.dev
      /\ PlainLayout /\ world \in Worlds
      /\ \A id \in DOMAIN sys.dev : sys.dev[id] = <<"part", id>>
  BY DEF StageInv, ShapeInv, DevInv, LoaderInv, Live, Unsealed, Untaken
<1>2. \A b \in Binaries : root.gen[b] # "dummy"
  BY DEF ShapeInv, StandInInv, Live, OnRoot, CleanRoot, Dummies
<1>3. \A mount : GetDiskPartByMountPoint(mount, sys.dev, Parts) = {p.id : p \in {x \in Range(Parts) : x.mount = mount}}
  BY <1>1 DEF GetDiskPartByMountPoint, Ids
<1>4. ASSUME NEW id \in GetDiskPartByMountPoint("/", sys.dev, Parts) PROVE id = RootId /\ Rooted /\ id \in DOMAIN sys.dev
  <2>1. PICK p \in Range(Parts) : p.mount = "/" /\ p.id = id
    BY <1>3
  <2> QED
    BY <1>1, <2>1, PlainIds DEF Rooted, Ids
<1>5. CASE t.provider = "grub"
  <2> DEFINE boots == GetDiskPartByMountPoint("/boot", sys.dev, Parts)
  <2>1. PICK id \in GetDiskPartByMountPoint("/", sys.dev, Parts) : \E boot \in (IF boots = {} THEN {id} ELSE boots) :
           LET x == InstallGrub(root, id, boot, IF boots = {} THEN "/boot" ELSE "", t) IN x # Refused /\ q = x[1]
    BY <1>5, GrubPlaced
  <2>2. id = RootId /\ Rooted
    BY <1>4
  <2> DEFINE prefix == IF boots = {} THEN "/boot" ELSE ""
  <2>8. PICK boot \in (IF boots = {} THEN {id} ELSE boots) : LET x == InstallGrub(root, id, boot, prefix, t) IN x # Refused /\ q = x[1]
    BY <2>1
  <2>3. ByGrub(q, id, boot, prefix)
    <3>1. InstallGrub(root, id, boot, prefix, t) # Refused /\ q = InstallGrub(root, id, boot, prefix, t)[1]
      BY <2>8
    <3> HIDE DEF prefix, boots
    <3> QED
      BY <1>1, <1>5, <3>1, GrubMade
  <2>4. Wanted(id, "", <<>>, t) = FirstOptions
    BY <1>5, <2>2, PlainOptions DEF Live
  <2>5. boots = {p.id : p \in {x \in Range(Parts) : x.mount = "/boot"}}
    BY <1>3
  <2> HIDE DEF boots
  <2>6. t.deb => DOMAIN q.initramfs = {q.kernels[1]}
    <3>1. DOMAIN root.initramfs = {}
      BY <1>1
    <3> QED
      BY <1>2, <2>3, <3>1 DEF ByGrub, Given
  <2>7. GrubSet(q)
    BY <2>2, <2>3, <2>4, <2>5, <2>6 DEF GrubSet, ByGrub
  <2> QED
    BY <1>1, <1>5, <2>2, <2>3, <2>7 DEF ByGrub, Live
<1>6. CASE t.provider = "systemd-boot"
  <2>1. PICK id \in GetDiskPartByMountPoint("/", sys.dev, Parts) : q \in InstallSystemdBoot(root, id, sys.dev, t, Parts)
    BY <1>6 DEF InstallImageBoot
  <2>2. id = RootId /\ Rooted /\ sys.dev[id] = <<"part", RootId>>
    BY <1>1, <1>4
  <2>3. /\ Given(root, q) /\ q.modules = root.modules
        /\ \E w : /\ q.cmdline = <<w>>
                  /\ IF ~t.immutable THEN w = Wanted(id, "", <<>>, t)
                     ELSE \E h \in GetDiskPartByMountPoint("none", sys.dev, Parts) : w = Wanted(id, h, <<sys.dev[id], sys.dev[h]>>, t)
    BY <1>1, <1>6, <2>1, SystemdMade
  <2>4. PICK w : /\ q.cmdline = <<w>>
                 /\ IF ~t.immutable THEN w = Wanted(id, "", <<>>, t)
                    ELSE \E h \in GetDiskPartByMountPoint("none", sys.dev, Parts) : w = Wanted(id, h, <<sys.dev[id], sys.dev[h]>>, t)
    BY <2>3
  <2>5. w = FirstOptions
    <3>1. CASE ~t.immutable
      BY <2>2, <2>4, <3>1, PlainOptions DEF Live
    <3>2. CASE t.immutable
      <4>1. PICK h \in GetDiskPartByMountPoint("none", sys.dev, Parts) : w = Wanted(id, h, <<sys.dev[id], sys.dev[h]>>, t)
        BY <2>4, <3>2
      <4>2. PICK p \in Range(Parts) : p.mount = "none" /\ p.id = h
        BY <1>3
      <4>3. h = HashId /\ HashId # "" /\ sys.dev[h] = <<"part", HashId>>
        BY <1>1, <3>2, <4>2, PlainHash DEF Ids
      <4> QED
        BY <2>2, <3>2, <4>1, <4>3, PlainOptions
    <3> QED
      BY <3>1, <3>2
  <2>6. DepKept(root, q)
    BY <2>3 DEF DepKept
  <2>7. t.immutable => HashKept
    BY <1>3, <2>4 DEF HashKept
  <2> QED
    BY <1>6, <2>2, <2>3, <2>4, <2>5, <2>6, <2>7
<1>7. t.provider \in {"grub", "systemd-boot"}
  BY DEF InstallImageBoot
<1> QED
  BY <1>5, <1>6, <1>7

LEMMA BootGives ==
  ASSUME ShapeInv, NEW q \in InstallImageBoot(root, sys.dev, t, Parts)
  PROVE  Given(root, q)
<1>1. DOMAIN root = RootFields
  BY DEF ShapeInv
<1>2. CASE t.provider = "grub"
  <2> DEFINE boots == GetDiskPartByMountPoint("/boot", sys.dev, Parts)
             prefix == IF boots = {} THEN "/boot" ELSE ""
  <2>1. PICK id \in GetDiskPartByMountPoint("/", sys.dev, Parts) : \E boot \in (IF boots = {} THEN {id} ELSE boots) :
           LET x == InstallGrub(root, id, boot, prefix, t) IN x # Refused /\ q = x[1]
    BY <1>2, GrubPlaced
  <2> HIDE DEF boots, prefix
  <2>2. PICK boot : InstallGrub(root, id, boot, prefix, t) # Refused /\ q = InstallGrub(root, id, boot, prefix, t)[1]
    BY <2>1
  <2>3. ByGrub(q, id, boot, prefix)
    BY <1>1, <1>2, <2>2, GrubMade
  <2> QED
    BY <2>3 DEF ByGrub
<1>3. CASE t.provider = "systemd-boot"
  <2>1. PICK id : q \in InstallSystemdBoot(root, id, sys.dev, t, Parts)
    BY <1>3 DEF InstallImageBoot
  <2> QED
    BY <1>1, <1>3, <2>1, SystemdMade
<1>4. t.provider \in {"grub", "systemd-boot"}
  BY DEF InstallImageBoot
<1> QED
  BY <1>2, <1>3, <1>4

\* The stages that make the image one that boots.
LEMMA StagesSteady ==
  ASSUME StageInv, ShapeInv,
         \/ PrepareKernels \/ BuildDkms \/ EnsureDepmod \/ AddImageAdditionalFiles \/ CreateNextUser
         \/ UsersCreated \/ UpdateImageConfig \/ InstallBoot \/ GenerateSBOM \/ SecureImage
  PROVE  Steady
<1>1. /\ DOMAIN sys = SysFields /\ {"unclean", "failed", "kernels", "users"} \subseteq DOMAIN job /\ DOMAIN root = RootFields
  BY DEF StageInv, ShapeInv, SysFields
<1>2. ASSUME sys' = sys, job' = job, DOMAIN root' = RootFields, DOMAIN root.gen \subseteq DOMAIN root'.gen,
             pc \notin Writing => Settled, pc \notin {"install", "depmod", "boot"} => root'.modules = root.modules
      PROVE  Steady
  BY <1>2 DEF Steady, DevicesSettled, SameSeals
<1>3. CASE PrepareKernels
  <2>1. sys' = sys /\ job' = job /\ root' \in FixKernelSymlinks(root) /\ pc = "kernels"
    BY <1>3 DEF PrepareKernels, RootBecomes
  <2>2. PICK s : root' = root \/ root' = [root EXCEPT !.kernels = s]
    BY <2>1 DEF FixKernelSymlinks
  <2>3. DOMAIN root' = RootFields /\ root'.gen = root.gen /\ Settled /\ root'.modules = root.modules
    BY <1>1, <2>2 DEF RootFields, Settled
  <2> QED
    BY <1>2, <2>1, <2>3
<1>4. CASE BuildDkms
  <2>1. CASE GiveUp
    BY <2>1, SteadyFailure
  <2>2. CASE sys' = sys /\ job'.unclean = job.unclean /\ \E tree : root' = root \/ root' = [root EXCEPT !.tree = tree]
    <3>1. PICK tree : root' = root \/ root' = [root EXCEPT !.tree = tree]
      BY <2>2
    <3>2. DOMAIN root' = RootFields /\ root'.gen = root.gen /\ Settled /\ root'.modules = root.modules
      BY <1>1, <3>1 DEF RootFields, Settled
    <3> QED
      BY <2>2, <3>2 DEF Steady, DevicesSettled, SameSeals
  <2>3. ASSUME NEW r, root' = [root EXCEPT !.tree = r.tree], sys' = sys,
               job' = IF r.ok THEN [job EXCEPT !.kernels = @ + 1] ELSE [job EXCEPT !.failed = TRUE]
        PROVE  Steady
    <3>1. job'.unclean = job.unclean
      BY <1>1, <2>3
    <3> QED
      BY <2>2, <2>3, <3>1
  <2>4. \/ GiveUp
        \/ UNCHANGED <<sys, job, root>>
        \/ \E r : /\ root' = [root EXCEPT !.tree = r.tree] /\ sys' = sys
                  /\ job' = IF r.ok THEN [job EXCEPT !.kernels = @ + 1] ELSE [job EXCEPT !.failed = TRUE]
    BY <1>4 DEF BuildDkms
  <2> QED
    BY <2>1, <2>2, <2>3, <2>4
<1>5. CASE EnsureDepmod
  <2>1. CASE GiveUp
    BY <2>1, SteadyFailure
  <2>2. CASE EnsureDepmodForBootKernels(root) # Refused /\ RootBecomes(EnsureDepmodForBootKernels(root)[1], "configure")
    <3>1. sys' = sys /\ job' = job /\ pc = "depmod" /\ \E m : root' = [root EXCEPT !.modules = m]
      BY <1>5, <2>2 DEF EnsureDepmod, RootBecomes, EnsureDepmodForBootKernels
    <3>2. DOMAIN root' = RootFields /\ root'.gen = root.gen /\ Settled
      BY <1>1, <3>1 DEF RootFields, Settled
    <3> QED
      BY <1>2, <3>1, <3>2
  <2> QED
    BY <1>5, <2>1, <2>2 DEF EnsureDepmod, OrGiveUp
<1>6. CASE AddImageAdditionalFiles \/ UsersCreated
  <2>1. sys' = sys /\ job' = job /\ \E site, etc : root' = [root EXCEPT !.site = site, !.etc = etc] \/ root' = [root EXCEPT !.etc = etc]
    BY <1>6 DEF AddImageAdditionalFiles, UsersCreated, RootBecomes
  <2>2. DOMAIN root' = RootFields /\ root'.gen = root.gen /\ Settled /\ root'.modules = root.modules
    BY <1>1, <2>1 DEF RootFields, Settled
  <2> QED
    BY <1>2, <2>1, <2>2
<1>7. CASE CreateNextUser
  <2>1. CASE GiveUp
    BY <2>1, SteadyFailure
  <2>2. CASE sys' = sys /\ job' = [job EXCEPT !.users = @ + 1] /\ \E etc : root' = [root EXCEPT !.etc = etc]
    <3>1. DOMAIN root' = RootFields /\ root'.gen = root.gen /\ Settled /\ root'.modules = root.modules
      BY <1>1, <2>2 DEF RootFields, Settled
    <3>2. job'.unclean = job.unclean
      BY <1>1, <2>2
    <3> QED
      BY <2>2, <3>1, <3>2 DEF Steady, DevicesSettled, SameSeals
  <2> QED
    BY <1>7, <2>1, <2>2 DEF CreateNextUser
<1>8. CASE UpdateImageConfig
  <2>1. CASE GiveUp
    BY <2>1, SteadyFailure
  <2>2. CASE sys' = sys /\ job' = job /\ ConfigureImage(root) # Refused /\ root' = ConfigureImage(root)[1]
    <3>1. PICK site : root' = [(IF IsDisk THEN UpdateImageFstab(root, sys.dev, t, Parts) ELSE root) EXCEPT !.site = site]
      BY <2>2 DEF ConfigureImage
    <3>2. PICK fstab : UpdateImageFstab(root, sys.dev, t, Parts) = [root EXCEPT !.fstab = fstab]
      BY DEF UpdateImageFstab
    <3>3. DOMAIN root' = RootFields /\ root'.gen = root.gen /\ root'.modules = root.modules
      BY <1>1, <3>1, <3>2 DEF RootFields
    <3>4. pc = "site"
      BY <1>8 DEF UpdateImageConfig
    <3> QED
      BY <1>2, <2>2, <3>3, <3>4 DEF Writing
  <2> QED
    BY <1>8, <2>1, <2>2 DEF UpdateImageConfig, OrGiveUp, RootBecomes
<1>9. CASE InstallBoot
  <2>1. CASE GiveUp
    BY <2>1, SteadyFailure
  <2>2. CASE sys' = sys /\ job' = job /\ root' \in InstallImageBoot(root, sys.dev, t, Parts)
    <3>1. Given(root, root')
      BY <2>2, BootGives
    <3>2. pc = "boot"
      BY <1>9 DEF InstallBoot
    <3> QED
      BY <1>2, <2>2, <3>1, <3>2 DEF Given, Writing
  <2> QED
    BY <1>9, <2>1, <2>2 DEF InstallBoot, RootBecomes
<1>10. CASE GenerateSBOM
  <2>1. sys' = sys /\ job' = job /\ root' = [root EXCEPT !.sbom = TRUE]
    BY <1>10 DEF GenerateSBOM, RootBecomes
  <2>2. DOMAIN root' = RootFields /\ root'.gen = root.gen /\ Settled /\ root'.modules = root.modules
    BY <1>1, <2>1 DEF RootFields, Settled
  <2> QED
    BY <1>2, <2>1, <2>2
<1>11. CASE SecureImage
  <2>1. sys' = sys /\ job' = job /\ pc = "secure" /\ \E fstab : root' = root \/ root' = [root EXCEPT !.fstab = fstab]
    BY <1>11 DEF SecureImage, RootBecomes, ConfigImageSecurity
  <2>2. DOMAIN root' = RootFields /\ root'.gen = root.gen /\ root'.modules = root.modules
    BY <1>1, <2>1 DEF RootFields
  <2> QED
    BY <1>2, <2>1, <2>2 DEF Writing
<1> QED
  BY <1>3, <1>4, <1>5, <1>6, <1>7, <1>8, <1>9, <1>10, <1>11

LEMMA SealingSteady ==
  ASSUME StageInv, ShapeInv,
         WireFDE \/ RebuildInitramfs \/ PrepareVeritySetup \/ HashRoot \/ MakeUKI \/ InstallLoader \/ Sign \/ PostInstall
  PROVE  Steady
<1>1. /\ DOMAIN sys = SysFields /\ {"unclean", "failed"} \subseteq DOMAIN job /\ DOMAIN root = RootFields
  BY DEF StageInv, ShapeInv, SysFields
<1>2. CASE GiveUp
  BY <1>2, SteadyFailure
<1>3. ASSUME sys' = sys \/ pc = "wire", job' = job, pc \in Writing, DOMAIN root' = RootFields, root'.gen = root.gen, root'.modules = root.modules
      PROVE  Steady
  BY <1>3 DEF Steady, DevicesSettled, SameSeals, Writing
<1>4. CASE WireFDE
  <2>1. GiveUp \/ (pc = "wire" /\ job' = job /\ \E r : WireFDEBoot(root, sys.dev, t, Parts) = r /\ r # Refused /\ root' = r[1])
    BY <1>4 DEF WireFDE
  <2>2. ASSUME NEW r, WireFDEBoot(root, sys.dev, t, Parts) = r, r # Refused, root' = r[1]
        PROVE  root' = root \/ \E c, k, e : root' = [root EXCEPT !.cmdline = c, !.key = k, !.crypttab = e]
    <3>1. CASE ~t.fde.enabled
      BY <2>2, <3>1 DEF WireFDEBoot
    <3>2. CASE t.fde.enabled
      BY <2>2, <3>2 DEF WireFDEBoot
    <3> QED
      BY <3>1, <3>2
  <2>3. root' = root \/ (\E c, k, e : root' = [root EXCEPT !.cmdline = c, !.key = k, !.crypttab = e]) => 
          DOMAIN root' = RootFields /\ root'.gen = root.gen /\ root'.modules = root.modules
    BY <1>1 DEF RootFields
  <2> QED
    BY <1>2, <1>3, <2>1, <2>2, <2>3 DEF Writing
<1>5. CASE RebuildInitramfs
  <2>1. GiveUp \/ (pc = "initramfs" /\ sys' = sys /\ job' = job /\ \E k, c : root' = PrepareESPDir(Generated(root, "dracut", k, c)))
    <3> DEFINE k == GetKernelVersionFromBoot(root)
               r == IF k = Refused THEN Refused ELSE UpdateInitramfs(root, k[1], t)
    <3>1. pc = "initramfs" /\ (GiveUp \/ (r # Refused /\ root' = PrepareESPDir(r[1]) /\ sys' = sys /\ job' = job))
      BY <1>5 DEF RebuildInitramfs, OrGiveUp, RootBecomes, Refused
    <3>2. r # Refused => \E c : r[1] = Generated(root, "dracut", k[1], c)
      BY DEF UpdateInitramfs
    <3> QED
      BY <3>1, <3>2
  <2>2. ASSUME NEW k, NEW c, root' = PrepareESPDir(Generated(root, "dracut", k, c))
        PROVE  DOMAIN root' = RootFields /\ root'.gen = root.gen /\ root'.modules = root.modules
    <3> DEFINE g == Generated(root, "dracut", k, c)
    <3>1. DOMAIN g = RootFields /\ g.gen = root.gen /\ g.modules = root.modules
      BY <1>1 DEF Generated, RootFields
    <3> HIDE DEF g
    <3>2. root' = PrepareESPDir(g)
      BY <2>2 DEF g
    <3> QED
      BY <3>1, <3>2 DEF PrepareESPDir, RootFields
  <2> QED
    BY <1>2, <1>3, <2>1, <2>2 DEF Writing
<1>6. CASE PrepareVeritySetup
  <2>1. CASE sys' = [[sys EXCEPT !.ro = TRUE] EXCEPT !.mounts = @ \cup {"/tmp", "/boot/efi/tmp"}] /\ job' = job /\ root' = root
    BY <1>1, <2>1, RootUnchanged DEF DevicesSettled, SameSeals, SysFields
  <2>2. CASE sys' = MountPath([sys EXCEPT !.ro = TRUE], "/tmp") /\ job' = [job EXCEPT !.failed = TRUE] /\ root' = root
    BY <1>1, <2>2, RootUnchanged DEF DevicesSettled, SameSeals, SysFields, MountPath
  <2> QED
    BY <1>2, <1>6, <2>1, <2>2 DEF PrepareVeritySetup, SysBecomes
<1>7. CASE HashRoot
  <2>1. pc = "hash" /\ sys' = sys /\ job' = job /\ \E pair : root' = [root EXCEPT !.hashed = pair, !.stale = FALSE]
    BY <1>7 DEF HashRoot, RootBecomes, GetVerityRootHash
  <2>2. DOMAIN root' = RootFields /\ root'.gen = root.gen /\ root'.modules = root.modules
    BY <1>1, <2>1 DEF RootFields
  <2> QED
    BY <1>3, <2>1, <2>2 DEF Writing
<1>8. CASE MakeUKI
  <2> DEFINE tidy == IF t.immutable THEN RemoveVerityTmp(sys) ELSE sys
             options == IF t.immutable THEN ReplaceRootHashPH(root.cmdline[1], root.hashed) ELSE root.cmdline[1]
             built == BuildUKI(root, root.kernels[1], options, t)
             left(r) == IF t.immutable THEN WriteRoot(r, sys.ro) ELSE r
  <2>1. tidy.dev = sys.dev /\ SameSeals(tidy, sys)
    BY <1>1, UmountedLeaves DEF RemoveVerityTmp, SameSeals
  <2>2. \/ built # Refused /\ root' = left(built[1]) /\ sys' = tidy /\ job' = job
        \/ root' = left(root) /\ sys' = tidy /\ job' = [job EXCEPT !.failed = TRUE]
        \/ GiveUp
    BY <1>8 DEF MakeUKI
  <2>3. built # Refused => \E uki : built[1] = [root EXCEPT !.uki = uki]
    BY DEF BuildUKI
  <2> HIDE DEF built, tidy
  <2>4. built # Refused => DOMAIN built[1] = RootFields /\ built[1].gen = root.gen /\ built[1].modules = root.modules
    BY <1>1, <2>3 DEF RootFields
  <2>5. ASSUME NEW r, DOMAIN r = RootFields, r.gen = root.gen, r.modules = root.modules
        PROVE  DOMAIN left(r) = RootFields /\ left(r).gen = root.gen /\ left(r).modules = root.modules
    BY <2>5 DEF WriteRoot, RootFields
  <2> HIDE DEF left
  <2>6. GiveUp \/ (DOMAIN root' = RootFields /\ root'.gen = root.gen /\ root'.modules = root.modules)
    BY <1>1, <2>2, <2>4, <2>5
  <2>7. GiveUp \/ (sys' = tidy /\ job'.unclean = job.unclean)
    BY <1>1, <2>2
  <2>8. pc = "ukify"
    BY <1>8 DEF MakeUKI
  <2>9. CASE ~GiveUp
    <3>1. DevicesSettled
      BY <2>1, <2>7, <2>9 DEF DevicesSettled
    <3>2. DOMAIN root' = RootFields /\ root'.gen = root.gen /\ root'.modules = root.modules
      BY <2>6, <2>9
    <3>3. job'.unclean = job.unclean
      BY <2>7, <2>9
    <3> QED
      BY <2>8, <3>1, <3>2, <3>3 DEF Steady, Writing
  <2> QED
    BY <1>2, <2>9
<1>9. CASE InstallLoader
  <2>1. pc = "loader" /\ sys' = sys /\ job' = job /\ \E l : root' = [root EXCEPT !.loader = l]
    BY <1>9 DEF InstallLoader, RootBecomes, CopyBootloader
  <2>2. DOMAIN root' = RootFields /\ root'.gen = root.gen /\ root'.modules = root.modules
    BY <1>1, <2>1 DEF RootFields
  <2> QED
    BY <1>3, <2>1, <2>2 DEF Writing
<1>10. CASE Sign
  <2>1. GiveUp \/ (pc = "sign" /\ sys' = sys /\ job' = job /\ SignImage(root, t) # Refused /\ root' = SignImage(root, t)[1])
    BY <1>10 DEF Sign, OrGiveUp, RootBecomes
  <2>2. SignImage(root, t) # Refused => SignImage(root, t)[1] = root \/ \E s : SignImage(root, t)[1] = [root EXCEPT !.signed = s]
    BY DEF SignImage
  <2>3. GiveUp \/ (DOMAIN root' = RootFields /\ root'.gen = root.gen /\ root'.modules = root.modules)
    <3>1. CASE SignImage(root, t)[1] = root
      BY <1>1, <2>1, <3>1
    <3>2. CASE \E s : SignImage(root, t)[1] = [root EXCEPT !.signed = s]
      <4>1. PICK s : SignImage(root, t)[1] = [root EXCEPT !.signed = s]
        BY <3>2
      <4>2. GiveUp \/ root' = [root EXCEPT !.signed = s]
        BY <2>1, <4>1
      <4> QED
        BY <1>1, <4>2 DEF RootFields
    <3> QED
      BY <2>1, <2>2, <3>1, <3>2
  <2>4. CASE ~GiveUp
    <3>1. pc \in Writing /\ sys' = sys /\ job' = job
      BY <2>1, <2>4 DEF Writing
    <3>2. DOMAIN root' = RootFields /\ root'.gen = root.gen /\ root'.modules = root.modules
      BY <2>3, <2>4
    <3> QED
      BY <1>3, <3>1, <3>2
  <2> QED
    BY <1>2, <2>4
<1>11. CASE PostInstall
  <2>1. CASE UNCHANGED <<sys, job, root>>
    BY <2>1, RootUnchanged DEF DevicesSettled, SameSeals
  <2> QED
    BY <1>2, <1>11, <2>1 DEF PostInstall
<1> QED
  BY <1>4, <1>5, <1>6, <1>7, <1>8, <1>9, <1>10, <1>11

LEMMA RestSteady ==
  ASSUME StageInv, ShapeInv, EnableFDE \/ EncryptPartition \/ RemountAfterFDE \/ UnwindMounts \/ CloseMappers \/ ImageCommandFails
  PROVE  Steady
<1>1. /\ DOMAIN sys = SysFields /\ {"unclean", "failed", "list", "opened", "targets"} \subseteq DOMAIN job
  BY DEF StageInv, SysFields
<1>2. CASE GiveUp
  BY <1>2, SteadyFailure
<1>3. CASE root' = root /\ sys' = sys /\ job' = job
  BY <1>3, RootUnchanged DEF DevicesSettled, SameSeals
<1>4. ASSUME NEW r \in UmountDiskFromChroot(sys, job.list), sys' = r.sys, root' = root, job.unclean => job'.unclean
      PROVE  Steady
  BY <1>1, <1>4, Unmounting, RootUnchanged DEF DevicesSettled
<1>5. CASE EnableFDE
  <2>1. GiveUp \/ (root' = root /\ sys' = sys /\ job' = job)
        \/ \E r \in UmountDiskFromChroot(sys, job.list) :
             /\ sys' = r.sys /\ root' = root
             /\ job' = IF r.ok THEN [job EXCEPT !.targets = FdeTargetPartitionIDs(t, Parts)] ELSE [job EXCEPT !.failed = TRUE]
    BY <1>5 DEF EnableFDE
  <2>2. ASSUME NEW r \in UmountDiskFromChroot(sys, job.list), sys' = r.sys, root' = root,
               job' = IF r.ok THEN [job EXCEPT !.targets = FdeTargetPartitionIDs(t, Parts)] ELSE [job EXCEPT !.failed = TRUE]
        PROVE  Steady
    <3>1. job'.unclean = job.unclean
      BY <1>1, <2>2
    <3> QED
      BY <1>4, <2>2, <3>1
  <2> QED
    BY <1>2, <1>3, <2>1, <2>2
<1>6. ASSUME NEW s, NEW opened, AbandonFDE(s, opened), pc = "encrypt" PROVE Steady
  <2>1. root' = root /\ \E stuck : job' = [job EXCEPT !.failed = TRUE, !.opened = {}, !.targets = <<>>, !.unclean = @ \/ (stuck # {})]
    BY <1>6 DEF AbandonFDE
  <2>2. job.unclean => job'.unclean
    BY <1>1, <2>1
  <2> QED
    BY <1>6, <2>1, <2>2, RootUnchanged
<1>7. CASE EncryptPartition
  <2>1. pc = "encrypt"
    BY <1>7 DEF EncryptPartition
  <2>2. CASE root' = root /\ \E targets, opened : job' = [job EXCEPT !.targets = targets, !.opened = opened]
    <3>1. job'.unclean = job.unclean
      BY <1>1, <2>2
    <3> QED
      BY <2>1, <2>2, <3>1, RootUnchanged
  <2>3. (\E s, opened : AbandonFDE(s, opened)) \/ (root' = root /\ \E targets, opened : job' = [job EXCEPT !.targets = targets, !.opened = opened])
    BY <1>7 DEF EncryptPartition
  <2> QED
    BY <1>6, <2>1, <2>2, <2>3
<1>8. CASE RemountAfterFDE
  <2>1. /\ pc = "encrypt" /\ root' = root
        /\ \E r : job' = IF r.ok THEN [job EXCEPT !.list = MountPointInfoList]
                         ELSE [job EXCEPT !.failed = TRUE, !.opened = {}, !.unclean = @ \/ r.unclean]
    BY <1>8 DEF RemountAfterFDE
  <2>2. job.unclean => job'.unclean
    BY <1>1, <2>1
  <2> QED
    BY <2>1, <2>2, RootUnchanged
<1>9. CASE UnwindMounts
  <2>1. (root' = root /\ sys' = sys /\ job' = job)
        \/ \E r \in UmountDiskFromChroot(sys, job.list) :
             sys' = r.sys /\ root' = root /\ job' = IF r.ok THEN job ELSE [job EXCEPT !.failed = TRUE, !.unclean = TRUE]
    BY <1>9 DEF UnwindMounts
  <2>2. ASSUME NEW r \in UmountDiskFromChroot(sys, job.list), sys' = r.sys, root' = root,
               job' = IF r.ok THEN job ELSE [job EXCEPT !.failed = TRUE, !.unclean = TRUE]
        PROVE  Steady
    <3>1. job.unclean => job'.unclean
      BY <1>1, <2>2
    <3> QED
      BY <1>4, <2>2, <3>1
  <2> QED
    BY <1>3, <2>1, <2>2
<1>10. CASE CloseMappers
  <2>1. PICK stuck : /\ sys' = [CloseLuksMappers(sys, job.opened) EXCEPT !.luks = @ \cup stuck] /\ root' = root
                     /\ job' = [job EXCEPT !.opened = {}, !.unclean = @ \/ (stuck # {})]
    BY <1>10 DEF CloseMappers
  <2>2. job.unclean => job'.unclean
    BY <1>1, <2>1
  <2>3. DevicesSettled
    BY <1>1, <2>1, Closing DEF DevicesSettled, SameSeals, SysFields
  <2> QED
    BY <2>1, <2>2, <2>3, RootUnchanged
<1>11. CASE ImageCommandFails
  BY <1>2, <1>11 DEF ImageCommandFails
<1> QED
  BY <1>5, <1>7, <1>8, <1>9, <1>10, <1>11

LEMMA AllSteady == ASSUME StageInv, ShapeInv, InstallNext PROVE Steady
<1>1. CASE DiskNext /\ UNCHANGED imageVars
  <2>1. sys' = sys /\ job' = job /\ root' = root
    BY <1>1 DEF imageVars
  <2> QED
    BY <2>1, RootUnchanged DEF DevicesSettled, SameSeals
<1>2. CASE ImageNext
  BY <1>2, PackagesSteady, StagesSteady, SealingSteady, RestSteady DEF ImageNext
<1> QED
  BY <1>1, <1>2 DEF InstallNext

-----------------------------------------------------------------------------
(* The stages one by one. *)
LEMMA Fixed ==
  ASSUME world' = world
  PROVE  /\ t' = t /\ Parts' = Parts /\ IsDisk' = IsDisk /\ PlainLayout' = PlainLayout
         /\ Ids' = Ids /\ Rooted' = Rooted /\ HashKept' = HashKept /\ RootId' = RootId /\ HashId' = HashId /\ Targets' = Targets /\ FdeSealed' = FdeSealed
         /\ FirstOptions' = FirstOptions /\ LastOptions' = LastOptions /\ Content' = Content
<1>1. t' = t /\ Parts' = Parts /\ IsDisk' = IsDisk
  BY DEF t, Parts, IsDisk
<1>2. PlainLayout' = PlainLayout
  BY <1>1 DEF PlainLayout
<1>3. Ids' = Ids /\ Rooted' = Rooted /\ HashKept' = HashKept /\ RootId' = RootId /\ HashId' = HashId /\ Targets' = Targets
  BY <1>1 DEF Ids, Rooted, HashKept, RootId, HashId, Targets, FdeTargetPartitionIDs, FdeRootPartitionID
<1>4. FdeSealed' = FdeSealed /\ Content' = Content
  BY <1>1, <1>3 DEF FdeSealed, Content, IsFDEAutoUnlock
<1>5. FirstOptions' = FirstOptions /\ LastOptions' = LastOptions
  BY <1>1, <1>3, <1>4 DEF FirstOptions, LastOptions, Options, Behind, NameOf
<1> QED
  BY <1>1, <1>2, <1>3, <1>4, <1>5

LEMMA Lives ==
  ASSUME StageInv, ShapeInv, InstallNext, Live'
  PROVE  Live /\ Steady /\ Onward /\ world' = world /\ (pc \notin {"image", "encrypt", "wire"} => DevicesSettled)
<1>1. Onward /\ world' = world
  BY Followed, DiskFollows DEF InstallNext
<1>2. Steady
  BY AllSteady
<1>3. Live
  BY <1>1, <1>2, Fixed DEF Live, Onward, Steady, Lost, Fresh, Untaken
<1> QED
  BY <1>1, <1>2, <1>3 DEF Live, Steady

\* Which step is taken where; one whose command fails is lost.
LEMMA FailureLoses == ASSUME StageInv, GiveUp, pc \notin {"divert", "install"} PROVE Lost'
  BY DEF GiveUp, ImageGoto, Unwinding, Lost, StageInv

LEMMA Turns ==
  ASSUME ImageNext, ~ImageCommandFails, pc \notin Fresh
  PROVE  \/ (pc = "kernels" /\ PrepareKernels) \/ (pc = "dkms" /\ BuildDkms) \/ (pc = "depmod" /\ EnsureDepmod)
         \/ (pc = "configure" /\ AddImageAdditionalFiles) \/ (pc = "users" /\ (CreateNextUser \/ UsersCreated))
         \/ (pc = "site" /\ UpdateImageConfig) \/ (pc = "boot" /\ InstallBoot) \/ (pc = "sbom" /\ GenerateSBOM)
         \/ (pc = "secure" /\ SecureImage) \/ (pc = "fde" /\ EnableFDE)
         \/ (pc = "encrypt" /\ (EncryptPartition \/ RemountAfterFDE)) \/ (pc = "wire" /\ WireFDE)
         \/ (pc = "initramfs" /\ RebuildInitramfs) \/ (pc = "verity" /\ PrepareVeritySetup)
         \/ (pc = "hash" /\ HashRoot) \/ (pc = "ukify" /\ MakeUKI) \/ (pc = "loader" /\ InstallLoader)
         \/ (pc = "sign" /\ Sign) \/ (pc = "post" /\ PostInstall) \/ (pc = "unwind" /\ UnwindMounts)
         \/ (pc = "close" /\ CloseMappers)
<1>1. ~(StartInstall \/ MountDiskRoot \/ InitRootfsForDeb \/ MountSysfs \/ MountDisk \/ InitDebLocalRepo \/ InitImageRpmDb
        \/ PrepareInitramfsBinaries \/ InstallPackage \/ PackagesInstalled \/ RestoreInitramfsBinaries \/ DeInitDebLocalRepo)
  BY DEF StartInstall, MountDiskRoot, InitRootfsForDeb, MountSysfs, MountDisk, InitDebLocalRepo, InitImageRpmDb, Fresh, Untaken,
         PrepareInitramfsBinaries, InstallPackage, PackagesInstalled, RestoreInitramfsBinaries, DeInitDebLocalRepo
<1>2. /\ PrepareKernels => pc = "kernels"
      /\ BuildDkms => pc = "dkms"
      /\ EnsureDepmod => pc = "depmod"
      /\ AddImageAdditionalFiles => pc = "configure"
      /\ CreateNextUser \/ UsersCreated => pc = "users"
      /\ UpdateImageConfig => pc = "site"
  BY DEF PrepareKernels, BuildDkms, EnsureDepmod, AddImageAdditionalFiles, CreateNextUser, UsersCreated, UpdateImageConfig
<1>3. /\ InstallBoot => pc = "boot"
      /\ GenerateSBOM => pc = "sbom"
      /\ SecureImage => pc = "secure"
      /\ EnableFDE => pc = "fde"
      /\ EncryptPartition \/ RemountAfterFDE => pc = "encrypt"
      /\ WireFDE => pc = "wire"
  BY DEF InstallBoot, GenerateSBOM, SecureImage, EnableFDE, EncryptPartition, RemountAfterFDE, WireFDE
<1>4. /\ RebuildInitramfs => pc = "initramfs"
      /\ PrepareVeritySetup => pc = "verity"
      /\ HashRoot => pc = "hash"
      /\ MakeUKI => pc = "ukify"
      /\ InstallLoader => pc = "loader"
      /\ Sign => pc = "sign"
      /\ PostInstall => pc = "post"
      /\ UnwindMounts => pc = "unwind"
      /\ CloseMappers => pc = "close"
  BY DEF RebuildInitramfs, PrepareVeritySetup, HashRoot, MakeUKI, InstallLoader, Sign, PostInstall, UnwindMounts, CloseMappers
<1> QED
  BY <1>1, <1>2, <1>3, <1>4 DEF ImageNext

LEMMA TurnsOnDisk ==
  ASSUME StageInv, DiskNext, pc \notin Fresh PROVE Installed /\ (Installed' \/ pc' = "failed")
  BY DiskPcs DEF Fresh, Untaken

\* What the stages before the options come to.
LEMMA EarlyTurns ==
  ASSUME StageInv, InstallNext, IsDisk, ~Lost',
         pc \in {"kernels", "dkms", "depmod", "configure", "users", "site", "boot", "sbom", "secure"}
  PROVE  /\ pc = "kernels" => pc' = "dkms"
         /\ pc = "dkms" => pc' \in {"dkms", "depmod"}
         /\ pc = "depmod" => pc' = "configure" /\ EnsureDepmodForBootKernels(root) # Refused /\ root' = EnsureDepmodForBootKernels(root)[1]
         /\ pc = "configure" => pc' = "users"
         /\ pc = "users" => pc' \in {"users", "site"}
         /\ pc = "site" => pc' = "boot" /\ ConfigureImage(root) # Refused /\ root' = ConfigureImage(root)[1]
         /\ pc = "boot" => pc' = "sbom" /\ root' \in InstallImageBoot(root, sys.dev, t, Parts)
         /\ pc = "sbom" => pc' = "secure"
         /\ pc = "secure" => pc' = "fde" /\ root' = ConfigImageSecurity(root, t)
<1>1. ImageNext /\ pc \notin Fresh
  BY TurnsOnDisk DEF InstallNext, Fresh, Untaken, Installed
<1>2. ~GiveUp
  BY FailureLoses
<1>3. ~ImageCommandFails
  BY <1>2 DEF ImageCommandFails
<1>4. CASE pc \in {"kernels", "dkms", "depmod"}
  <2>1. PrepareKernels \/ BuildDkms \/ EnsureDepmod
    BY <1>1, <1>3, <1>4, Turns
  <2>2. CASE pc = "kernels"
    BY <2>1, <2>2 DEF PrepareKernels, BuildDkms, EnsureDepmod, RootBecomes, ImageGoto
  <2>3. CASE pc = "dkms"
    <3>1. pc' \in {"dkms", "depmod"} \/ (pc' = "unwind" /\ job' = [job EXCEPT !.failed = TRUE])
      BY <1>2, <2>1, <2>3 DEF PrepareKernels, BuildDkms, EnsureDepmod, ImageGoto
    <3>2. pc' \in {"dkms", "depmod"}
      BY <3>1 DEF Lost, StageInv
    <3> QED
      BY <2>3, <3>2
  <2>4. CASE pc = "depmod"
    BY <1>2, <2>1, <2>4 DEF PrepareKernels, BuildDkms, EnsureDepmod, OrGiveUp, RootBecomes, ImageGoto
  <2> QED
    BY <1>4, <2>2, <2>3, <2>4
<1>5. CASE pc \in {"configure", "users", "site"}
  <2>1. AddImageAdditionalFiles \/ CreateNextUser \/ UsersCreated \/ UpdateImageConfig
    BY <1>1, <1>3, <1>5, Turns
  <2>2. CASE pc = "configure"
    BY <2>1, <2>2 DEF AddImageAdditionalFiles, CreateNextUser, UsersCreated, UpdateImageConfig, RootBecomes, ImageGoto
  <2>3. CASE pc = "users"
    BY <1>2, <2>1, <2>3 DEF AddImageAdditionalFiles, CreateNextUser, UsersCreated, UpdateImageConfig, RootBecomes, ImageGoto, diskVars
  <2>4. CASE pc = "site"
    BY <1>2, <2>1, <2>4 DEF AddImageAdditionalFiles, CreateNextUser, UsersCreated, UpdateImageConfig, OrGiveUp, RootBecomes, ImageGoto
  <2> QED
    BY <1>5, <2>2, <2>3, <2>4
<1>6. CASE pc \in {"boot", "sbom", "secure"}
  <2>1. InstallBoot \/ GenerateSBOM \/ SecureImage
    BY <1>1, <1>3, <1>6, Turns
  <2>2. CASE pc = "boot"
    BY <1>2, <2>1, <2>2 DEF InstallBoot, GenerateSBOM, SecureImage, RootBecomes, ImageGoto
  <2>3. CASE pc = "sbom"
    BY <2>1, <2>3 DEF InstallBoot, GenerateSBOM, SecureImage, RootBecomes, ImageGoto
  <2>4. CASE pc = "secure"
    BY <2>1, <2>4 DEF InstallBoot, GenerateSBOM, SecureImage, RootBecomes, ImageGoto
  <2> QED
    BY <1>6, <2>2, <2>3, <2>4
<1> QED
  BY <1>4, <1>5, <1>6

\* What the later ones come to.
LEMMA FdeTurns ==
  ASSUME StageInv, InstallNext, ~Lost', pc \in {"fde", "encrypt", "wire"}
  PROVE  /\ pc = "fde" => IF t.fde.enabled THEN pc' = "encrypt" /\ job'.targets = FdeTargetPartitionIDs(t, Parts) ELSE pc' = "wire"
         /\ pc = "encrypt" =>
              LET id == Head(job.targets) IN
              \/ /\ job.targets # <<>> /\ pc' = "encrypt" /\ job'.targets = Tail(job.targets) /\ id \in DOMAIN sys.dev
                 /\ sys' = [sys EXCEPT !.luks = @ \cup {id}, !.crypt = @ \cup {id}, !.dev[id] = <<"mapper", id>>]
              \/ job.targets = <<>> /\ pc' = "wire" /\ DevicesSettled
         /\ pc = "wire" =>
              /\ WireFDEBoot(root, sys.dev, t, Parts) # Refused /\ root' = WireFDEBoot(root, sys.dev, t, Parts)[1]
              /\ sys' = [sys EXCEPT !.keyed = IF IsFDEAutoUnlock(t) THEN Range(FdeTargetPartitionIDs(t, Parts)) ELSE @]
              /\ pc' = IF t.provider = "systemd-boot" THEN "initramfs" ELSE "sign"
<1>1. ImageNext /\ pc \notin Fresh
  BY TurnsOnDisk DEF InstallNext, Fresh, Untaken, Installed
<1>2. ~GiveUp
  BY FailureLoses
<1>3. ~ImageCommandFails
  BY <1>2 DEF ImageCommandFails
<1>4. DOMAIN sys = SysFields /\ {"failed", "targets", "opened", "list", "unclean"} \subseteq DOMAIN job
  BY DEF StageInv, SysFields
<1>5. ASSUME pc' = "unwind", job'.failed PROVE FALSE
  BY <1>5 DEF Lost
<1>6. CASE pc = "fde"
  <2>1. EnableFDE
    BY <1>1, <1>3, <1>6, Turns
  <2>2. CASE ~t.fde.enabled
    BY <1>6, <2>1, <2>2 DEF EnableFDE, ImageGoto
  <2>3. CASE t.fde.enabled
    <3>1. PICK r : /\ job' = IF r.ok THEN [job EXCEPT !.targets = FdeTargetPartitionIDs(t, Parts)] ELSE [job EXCEPT !.failed = TRUE]
                   /\ pc' = IF r.ok THEN "encrypt" ELSE "unwind"
      BY <1>2, <2>1, <2>3 DEF EnableFDE, ImageGoto
    <3>2. r.ok
      BY <1>4, <1>5, <3>1
    <3> QED
      BY <1>4, <1>6, <2>3, <3>1, <3>2
  <2> QED
    BY <2>2, <2>3
<1>7. CASE pc = "encrypt"
  <2>1. EncryptPartition \/ RemountAfterFDE
    BY <1>1, <1>3, <1>7, Turns
  <2>2. \A s, opened : ~AbandonFDE(s, opened)
    <3>1. ASSUME NEW s, NEW opened, AbandonFDE(s, opened) PROVE FALSE
      <4>1. pc' = "unwind" /\ \E stuck : job' = [job EXCEPT !.failed = TRUE, !.opened = {}, !.targets = <<>>, !.unclean = @ \/ (stuck # {})]
        BY <3>1 DEF AbandonFDE, ImageGoto
      <4> QED
        BY <1>4, <1>5, <4>1
    <3> QED
      BY <3>1
  <2>3. CASE EncryptPartition
    <3> DEFINE id == Head(job.targets)
    <3>1. /\ job.targets # <<>> /\ id \in DOMAIN sys.dev
          /\ sys' = [sys EXCEPT !.luks = @ \cup {id}, !.crypt = @ \cup {id}, !.dev[id] = <<"mapper", id>>]
          /\ job' = [job EXCEPT !.targets = Tail(@), !.opened = job.opened \cup {id}] /\ pc' = pc
      BY <2>2, <2>3 DEF EncryptPartition, diskVars
    <3>2. job'.targets = Tail(job.targets)
      BY <1>4, <3>1
    <3> QED
      BY <1>7, <3>1, <3>2
  <2>4. CASE RemountAfterFDE
    <3>1. PICK r \in MountDiskToChroot(sys) :
             IF r.ok THEN sys' = r.sys /\ pc' = "wire"
             ELSE pc' = "unwind" /\ job' = [job EXCEPT !.failed = TRUE, !.opened = {}, !.unclean = @ \/ r.unclean]
      BY <2>4 DEF RemountAfterFDE, ImageGoto
    <3>2. sys' = r.sys /\ pc' = "wire"
      BY <1>4, <1>5, <3>1
    <3>3. DevicesSettled
      BY <1>4, <3>2, Mounting DEF DevicesSettled
    <3> QED
      BY <1>7, <2>4, <3>2, <3>3 DEF RemountAfterFDE
  <2> QED
    BY <2>1, <2>3, <2>4
<1>8. CASE pc = "wire"
  <2>1. WireFDE
    BY <1>1, <1>3, <1>8, Turns
  <2> QED
    BY <1>2, <1>8, <2>1 DEF WireFDE, ImageGoto
<1> QED
  BY <1>6, <1>7, <1>8

LEMMA UkiTurns ==
  ASSUME StageInv, InstallNext, ~Lost', pc \in {"initramfs", "verity", "hash", "ukify", "loader", "sign"}
  PROVE  /\ pc = "initramfs" =>
              LET r == UpdateInitramfs(root, root.kernels[1], t) IN
              r # Refused /\ root' = PrepareESPDir(r[1]) /\ sys' = sys /\ pc' = IF t.immutable THEN "verity" ELSE "ukify"
         /\ pc = "verity" => ExtractRootHashPH(root.cmdline[1]) # Refused /\ root' = root /\ sys'.ro = TRUE /\ pc' = "hash"
         /\ pc = "hash" => root' = GetVerityRootHash(root, ExtractRootHashPH(root.cmdline[1])[1]) /\ sys' = sys /\ pc' = "ukify"
         /\ pc = "ukify" =>
              LET options == IF t.immutable THEN ReplaceRootHashPH(root.cmdline[1], root.hashed) ELSE root.cmdline[1]
                  built == BuildUKI(root, root.kernels[1], options, t)
              IN  built # Refused /\ root' = (IF t.immutable THEN WriteRoot(built[1], sys.ro) ELSE built[1]) /\ pc' = "loader"
         /\ pc = "loader" => root' = CopyBootloader(root, t) /\ pc' = "sign"
         /\ pc = "sign" => SignImage(root, t) # Refused /\ root' = SignImage(root, t)[1] /\ pc' = "post"
<1>1. ImageNext /\ pc \notin Fresh
  BY TurnsOnDisk DEF InstallNext, Fresh, Untaken, Installed
<1>2. ~GiveUp
  BY FailureLoses
<1>3. ~ImageCommandFails
  BY <1>2 DEF ImageCommandFails
<1>4. DOMAIN sys = SysFields /\ "failed" \in DOMAIN job
  BY DEF StageInv, SysFields
<1>5. ASSUME pc' = "unwind", job' = [job EXCEPT !.failed = TRUE] PROVE FALSE
  BY <1>4, <1>5 DEF Lost
<1>6. CASE pc = "initramfs"
  <2> DEFINE k == GetKernelVersionFromBoot(root)
             r == IF k = Refused THEN Refused ELSE UpdateInitramfs(root, k[1], t)
             x == IF r = Refused THEN Refused ELSE <<PrepareESPDir(r[1])>>
  <2>1. RebuildInitramfs
    BY <1>1, <1>3, <1>6, Turns
  <2>2. OrGiveUp(x, IF t.immutable THEN "verity" ELSE "ukify")
    BY <2>1 DEF RebuildInitramfs
  <2>3. r # Refused /\ root' = PrepareESPDir(r[1]) /\ sys' = sys /\ pc' = IF t.immutable THEN "verity" ELSE "ukify"
    BY <1>2, <2>2 DEF OrGiveUp, RootBecomes, ImageGoto
  <2>4. r = UpdateInitramfs(root, root.kernels[1], t)
    BY <2>3 DEF GetKernelVersionFromBoot, Refused
  <2> HIDE DEF r
  <2> QED
    BY <1>6, <2>3, <2>4
<1>7. CASE pc = "verity"
  <2>1. PrepareVeritySetup
    BY <1>1, <1>3, <1>7, Turns
  <2>2. ExtractRootHashPH(root.cmdline[1]) # Refused
    BY <1>2, <2>1 DEF PrepareVeritySetup
  <2>3. /\ sys' = [[sys EXCEPT !.ro = TRUE] EXCEPT !.mounts = @ \cup {"/tmp", "/boot/efi/tmp"}] /\ root' = root /\ pc' = "hash"
    BY <1>2, <1>5, <2>1 DEF PrepareVeritySetup, SysBecomes, ImageGoto
  <2>4. sys'.ro = TRUE
    BY <1>4, <2>3 DEF SysFields
  <2> QED
    BY <1>7, <2>2, <2>3, <2>4
<1>8. CASE pc = "hash"
  <2>1. HashRoot
    BY <1>1, <1>3, <1>8, Turns
  <2> QED
    BY <1>8, <2>1 DEF HashRoot, RootBecomes, ImageGoto
<1>9. CASE pc = "ukify"
  <2> DEFINE options == IF t.immutable THEN ReplaceRootHashPH(root.cmdline[1], root.hashed) ELSE root.cmdline[1]
             built == BuildUKI(root, root.kernels[1], options, t)
  <2>1. MakeUKI
    BY <1>1, <1>3, <1>9, Turns
  <2>2. built # Refused /\ root' = (IF t.immutable THEN WriteRoot(built[1], sys.ro) ELSE built[1]) /\ pc' = "loader"
    BY <1>2, <1>5, <2>1 DEF MakeUKI, ImageGoto
  <2> QED
    BY <1>9, <2>2
<1>10. CASE pc = "loader"
  <2>1. InstallLoader
    BY <1>1, <1>3, <1>10, Turns
  <2> QED
    BY <1>10, <2>1 DEF InstallLoader, RootBecomes, ImageGoto
<1>11. CASE pc = "sign"
  <2>1. Sign
    BY <1>1, <1>3, <1>11, Turns
  <2> QED
    BY <1>2, <1>11, <2>1 DEF Sign, OrGiveUp, RootBecomes, ImageGoto
<1> QED
  BY <1>6, <1>7, <1>8, <1>9, <1>10, <1>11

LEMMA LastTurns ==
  ASSUME StageInv, InstallNext, ~Lost', pc \in Signable \ {"sign"} PROVE pc' \in Signable \ {"sign"}
<1>1. CASE DiskNext
  <2>1. Installed'
    BY <1>1, TurnsOnDisk DEF Signable, Fresh, Untaken, Lost
  <2> QED
    BY <2>1 DEF Installed, Signable
<1>2. CASE ImageNext
  <2>1. PostInstall \/ UnwindMounts \/ CloseMappers \/ ImageCommandFails
    BY <1>2, Turns DEF Signable, Fresh, Untaken
  <2>2. ~GiveUp
    BY FailureLoses DEF Signable
  <2>3. pc' \in {"unwind", "close", "bootorder", "done", "failed"}
    BY <2>1, <2>2 DEF PostInstall, UnwindMounts, CloseMappers, ImageCommandFails, ImageGoto
  <2> QED
    BY <2>3 DEF Signable, Lost
<1> QED
  BY <1>1, <1>2 DEF InstallNext

\* From a step to the next.
LEMMA Moves ==
  ASSUME StageInv, ShapeInv, InstallNext, Live'
  PROVE  /\ pc \in Fresh => pc' \in Fresh \cup {"kernels"}
         /\ pc = "kernels" => pc' = "dkms"
         /\ pc = "dkms" => pc' \in {"dkms", "depmod"}
         /\ pc = "depmod" => pc' = "configure"
         /\ pc = "configure" => pc' = "users"
         /\ pc = "users" => pc' \in {"users", "site"}
         /\ pc = "site" => pc' = "boot"
         /\ pc = "boot" => pc' = "sbom"
         /\ pc = "sbom" => pc' = "secure"
         /\ pc = "secure" => pc' = "fde"
         /\ pc = "fde" => pc' = IF t.fde.enabled THEN "encrypt" ELSE "wire"
         /\ pc = "encrypt" => pc' \in {"encrypt", "wire"}
         /\ pc = "wire" => pc' = IF t.provider = "systemd-boot" THEN "initramfs" ELSE "sign"
         /\ pc = "initramfs" => pc' = IF t.immutable THEN "verity" ELSE "ukify"
         /\ pc = "verity" => pc' = "hash"
         /\ pc = "hash" => pc' = "ukify"
         /\ pc = "ukify" => pc' = "loader"
         /\ pc = "loader" => pc' = "sign"
         /\ pc = "sign" => pc' = "post"
         /\ pc \in Signable \ {"sign"} => pc' \in Signable \ {"sign"}
         /\ pc \in Fresh \cup {"kernels", "dkms", "depmod", "configure", "users", "site", "boot", "sbom", "secure", "fde", "encrypt"} \cup Sealed
<1>1. Live /\ Onward /\ IsDisk /\ ~Lost /\ ~Lost'
  BY Lives DEF Live
<1>2. pc \in Fresh => pc' \in Fresh \cup {"kernels"}
  BY <1>1 DEF Onward, Fresh, Untaken, Finishing, Bootable
<1>3. pc \in Stages \ {"failed"}
  BY <1>1 DEF StageInv, Lost
<1>4. pc \in Fresh \cup {"kernels", "dkms", "depmod", "configure", "users", "site", "boot", "sbom", "secure", "fde", "encrypt"} \cup Sealed
  BY <1>3 DEF Stages, Fresh, Untaken, Working, OnRoot, Sealed, Signable
<1>5. CASE pc \in {"kernels", "dkms", "depmod", "configure", "users", "site", "boot", "sbom", "secure"}
  BY <1>1, <1>4, <1>5, EarlyTurns DEF Fresh, Untaken, Signable
<1>6. CASE pc \in {"fde", "encrypt", "wire"}
  BY <1>1, <1>4, <1>6, FdeTurns DEF Fresh, Untaken, Signable
<1>7. CASE pc \in {"initramfs", "verity", "hash", "ukify", "loader", "sign"}
  BY <1>1, <1>4, <1>7, UkiTurns DEF Fresh, Untaken, Signable
<1>8. CASE pc \in Signable \ {"sign"}
  BY <1>1, <1>4, <1>8, LastTurns DEF Fresh, Untaken, Signable
<1>9. CASE pc \in Fresh
  BY <1>2, <1>4, <1>9 DEF Fresh, Untaken, Signable
<1> QED
  BY <1>4, <1>5, <1>6, <1>7, <1>8, <1>9 DEF Sealed, Signable

\* Which step is the first.
LEMMA FirstTurn ==
  ASSUME StageInv, InstallNext
  PROVE  /\ pc = "image" => StartInstall
         /\ pc \in Untaken \ {"image", "mountroot"} => pc' \in (Untaken \ {"mountroot"}) \cup {"failed"}
<1>1. pc = "image" => ImageNext
  BY DiskPcs DEF InstallNext, Installed, Untaken
<1>2. pc \in Untaken \ {"image", "mountroot"} => DiskNext
  BY ImageFrame DEF InstallNext, OnDisk, Early, Clearing, Untaken
<1>3. pc \in Untaken => ~Installed
  BY DEF Installed, Untaken
<1>4. ASSUME pc = "image", ImageNext PROVE StartInstall
  <2>1. ~(MountDiskRoot \/ InitRootfsForDeb \/ MountSysfs \/ MountDisk \/ InitDebLocalRepo \/ InitImageRpmDb
          \/ PrepareInitramfsBinaries \/ InstallPackage \/ PackagesInstalled \/ RestoreInitramfsBinaries \/ DeInitDebLocalRepo)
    BY <1>4 DEF MountDiskRoot, InitRootfsForDeb, MountSysfs, MountDisk, InitDebLocalRepo, InitImageRpmDb,
           PrepareInitramfsBinaries, InstallPackage, PackagesInstalled, RestoreInitramfsBinaries, DeInitDebLocalRepo
  <2>2. ~(PrepareKernels \/ BuildDkms \/ EnsureDepmod \/ AddImageAdditionalFiles \/ CreateNextUser \/ UsersCreated \/ UpdateImageConfig
          \/ InstallBoot \/ GenerateSBOM \/ SecureImage)
    BY <1>4 DEF PrepareKernels, BuildDkms, EnsureDepmod, AddImageAdditionalFiles, CreateNextUser, UsersCreated, UpdateImageConfig,
           InstallBoot, GenerateSBOM, SecureImage
  <2>3. ~(EnableFDE \/ EncryptPartition \/ RemountAfterFDE \/ WireFDE \/ RebuildInitramfs \/ PrepareVeritySetup \/ HashRoot)
    BY <1>4 DEF EnableFDE, EncryptPartition, RemountAfterFDE, WireFDE, RebuildInitramfs, PrepareVeritySetup, HashRoot
  <2>4. ~(MakeUKI \/ InstallLoader \/ Sign \/ PostInstall \/ UnwindMounts \/ CloseMappers \/ ImageCommandFails)
    BY <1>4 DEF MakeUKI, InstallLoader, Sign, PostInstall, UnwindMounts, CloseMappers, ImageCommandFails
  <2> QED
    BY <1>4, <2>1, <2>2, <2>3, <2>4 DEF ImageNext
<1> QED
  BY <1>1, <1>2, <1>3, <1>4, DiskPcs

\* The targets.
LEMMA TargetsListed ==
  ASSUME world \in Worlds
  PROVE  FdeTargetPartitionIDs(t, Parts) \in Seq(Targets)
<1>1. t.fde.partitions \in Seq(Range(t.fde.partitions))
  BY TemplateAssumption DEF t
<1>2. \A x : <<x>> \in Seq(Range(<<x>>))
  BY DEF Range
<1>3. <<>> \in Seq(Range(<<>>))
  OBVIOUS
<1> QED
  BY <1>1, <1>2, <1>3 DEF Targets, FdeTargetPartitionIDs
LEMMA HeadTail ==
  ASSUME NEW S, NEW s \in Seq(S), s # <<>>
  PROVE  Tail(s) \in Seq(S) /\ Range(s) = {Head(s)} \cup Range(Tail(s))
<1>1. Tail(s) \in Seq(S) /\ Len(s) \in Nat \ {0} /\ DOMAIN s = 1 .. Len(s) /\ DOMAIN Tail(s) = 1 .. Len(s) - 1
  OBVIOUS
<1>2. Head(s) = s[1] /\ \A i \in 1 .. Len(s) - 1 : Tail(s)[i] = s[i + 1]
  OBVIOUS
<1>3. \A i \in 1 .. Len(s) : i = 1 \/ i - 1 \in 1 .. Len(s) - 1
  BY <1>1
<1>4. Range(s) \subseteq {Head(s)} \cup Range(Tail(s))
  <2>1. ASSUME NEW i \in 1 .. Len(s) PROVE s[i] \in {Head(s)} \cup Range(Tail(s))
    <3>1. CASE i = 1
      BY <1>2, <3>1
    <3>2. CASE i # 1
      <4>1. i - 1 \in 1 .. Len(s) - 1 /\ Tail(s)[i - 1] = s[i]
        BY <1>1, <1>2, <3>2
      <4> QED
        BY <1>1, <4>1 DEF Range
    <3> QED
      BY <3>1, <3>2
  <2> QED
    BY <1>1, <2>1 DEF Range
<1>5. {Head(s)} \cup Range(Tail(s)) \subseteq Range(s)
  <2>1. \A i \in 1 .. Len(s) - 1 : i + 1 \in 1 .. Len(s) /\ Tail(s)[i] = s[i + 1]
    BY <1>1, <1>2
  <2>2. 1 \in 1 .. Len(s)
    BY <1>1
  <2> QED
    BY <1>1, <1>2, <2>1, <2>2 DEF Range
<1> QED
  BY <1>1, <1>4, <1>5

\* The devices of the partitions, and which are encrypted.
LEMMA DevStays ==
  ASSUME StageInv, ShapeInv, MadeInv, Live => DevInv, InstallNext, Live' PROVE DevInv'
<1>1. Live /\ DevInv /\ world' = world /\ (pc \notin {"image", "encrypt", "wire"} => DevicesSettled)
  BY Lives
<1>2. t' = t /\ Ids' = Ids /\ Targets' = Targets /\ FdeSealed' = FdeSealed
  BY <1>1, Fixed
<1>3. DOMAIN sys = SysFields /\ world \in Worlds
  BY DEF StageInv, SysFields
<1>4. CASE pc = "image"
  <2>1. sys' = [sys EXCEPT !.dev = [id \in DOMAIN idMap |-> <<"part", id>>]] /\ pc' \in {"mountroot", "bootstrap", "mount", "sysfs"}
    BY <1>4, FirstTurn DEF StartInstall, ImageGoto
  <2>2. sys'.dev = [id \in DOMAIN idMap |-> <<"part", id>>] /\ sys'.crypt = {}
    BY <1>1, <1>3, <1>4, <2>1 DEF SysFields, DevInv, Unsealed, Unlisted, Fresh, Untaken
  <2>3. Ids \subseteq DOMAIN idMap
    <3>1. made = Len(Parts) /\ \A i \in 1 .. made : Parts[i].id \in DOMAIN idMap
      BY <1>1, <1>4 DEF MadeInv, Early, Clearing, Live
    <3> QED
      BY <1>3, <3>1, Listed DEF Ids, Range
  <2>4. pc' \notin {"encrypt"} \cup Sealed
    BY <2>1 DEF Sealed, Signable
  <2> QED
    BY <1>2, <2>2, <2>3, <2>4 DEF DevInv
<1>5. CASE pc \in Untaken \ {"image", "mountroot"}
  <2>1. pc' \in (Untaken \ {"mountroot"}) \cup {"failed"}
    BY <1>5, FirstTurn
  <2>2. sys'.crypt = {}
    BY <1>1, <1>5 DEF DevicesSettled, SameSeals, DevInv, Unsealed, Unlisted, Fresh, Untaken
  <2>3. pc' \notin {"encrypt"} \cup Sealed
    BY <2>1 DEF Sealed, Signable, Untaken
  <2>4. ~(pc' \notin Untaken \/ pc' = "mountroot")
    BY <2>1 DEF Live, Lost
  <2> QED
    BY <2>2, <2>3, <2>4 DEF DevInv
<1>6. CASE pc \in (Fresh \ Untaken) \cup {"mountroot", "kernels", "dkms", "depmod", "configure", "users", "site", "boot", "sbom", "secure"}
  <2>1. pc' \in Unsealed /\ sys'.dev = sys.dev /\ sys'.crypt = sys.crypt
    BY <1>1, <1>6, Moves DEF Fresh, Untaken, Unsealed, Unlisted, DevicesSettled, SameSeals
  <2>2. pc \in Unsealed /\ (pc \notin Untaken \/ pc = "mountroot")
    BY <1>6 DEF Unsealed, Unlisted, Fresh, Untaken
  <2>3. pc' \notin {"encrypt"} \cup Sealed
    BY <2>1 DEF Sealed, Signable, Unsealed, Unlisted, Fresh, Untaken
  <2> QED
    BY <1>1, <1>2, <2>1, <2>2, <2>3 DEF DevInv
<1>7. CASE pc = "fde"
  <2>1. sys'.dev = sys.dev /\ sys'.crypt = sys.crypt /\ sys.crypt = {}
    BY <1>1, <1>7 DEF DevicesSettled, SameSeals, DevInv, Unsealed, Unlisted
  <2>2. /\ Ids \subseteq DOMAIN sys.dev
        /\ \A id \in DOMAIN sys.dev : sys.dev[id] = IF id \in sys.crypt THEN <<"mapper", id>> ELSE <<"part", id>>
    BY <1>1, <1>7 DEF DevInv, Untaken
  <2>3. CASE t.fde.enabled
    <3>1. pc' = "encrypt" /\ job'.targets = FdeTargetPartitionIDs(t, Parts)
      BY <1>1, <1>7, <2>3, FdeTurns DEF Live
    <3>2. job'.targets \in Seq(Targets) /\ Range(job'.targets) = Targets
      BY <1>3, <3>1, TargetsListed DEF Targets
    <3>3. pc' \notin Unsealed \cup Sealed \cup Untaken
      BY <3>1 DEF Sealed, Signable, Unsealed, Unlisted, Fresh, Untaken
    <3>4. sys'.crypt \cup Range(job'.targets) = Targets
      BY <2>1, <3>2
    <3> QED
      BY <1>2, <2>1, <2>2, <2>3, <3>2, <3>3, <3>4 DEF DevInv
  <2>4. CASE ~t.fde.enabled
    <3>1. pc' = "wire"
      BY <1>1, <1>7, <2>4, FdeTurns DEF Live
    <3>2. pc' \notin Unsealed \cup {"encrypt"}
      BY <3>1 DEF Unsealed, Unlisted, Fresh, Untaken
    <3> QED
      BY <1>2, <2>1, <2>2, <2>4, <3>2 DEF DevInv, FdeSealed
  <2> QED
    BY <2>3, <2>4
<1>8. CASE pc = "encrypt"
  <2> DEFINE id == Head(job.targets)
  <2>1. /\ Ids \subseteq DOMAIN sys.dev
        /\ \A x \in DOMAIN sys.dev : sys.dev[x] = IF x \in sys.crypt THEN <<"mapper", x>> ELSE <<"part", x>>
        /\ t.fde.enabled /\ job.targets \in Seq(Targets) /\ sys.crypt \cup Range(job.targets) = Targets
    BY <1>1, <1>8 DEF DevInv, Untaken
  <2>2. CASE /\ job.targets # <<>> /\ pc' = "encrypt" /\ job'.targets = Tail(job.targets) /\ id \in DOMAIN sys.dev
             /\ sys' = [sys EXCEPT !.luks = @ \cup {id}, !.crypt = @ \cup {id}, !.dev[id] = <<"mapper", id>>]
    <3>1. sys'.crypt = sys.crypt \cup {id} /\ sys'.dev = [sys.dev EXCEPT ![id] = <<"mapper", id>>]
      BY <1>3, <2>2 DEF SysFields
    <3>2. job'.targets \in Seq(Targets) /\ Range(job.targets) = {id} \cup Range(job'.targets)
      BY <2>1, <2>2, HeadTail
    <3> HIDE DEF id
    <3>3. DOMAIN sys'.dev = DOMAIN sys.dev /\ \A x \in DOMAIN sys.dev : sys'.dev[x] = IF x = id THEN <<"mapper", x>> ELSE sys.dev[x]
      BY <3>1
    <3>4. \A x \in DOMAIN sys.dev : sys'.dev[x] = IF x \in sys'.crypt THEN <<"mapper", x>> ELSE <<"part", x>>
      BY <2>1, <3>1, <3>3
    <3>5. sys'.crypt \cup Range(job'.targets) = Targets
      BY <2>1, <3>1, <3>2
    <3>6. pc' \notin Unsealed \cup Sealed
      BY <2>2 DEF Sealed, Signable, Unsealed, Unlisted, Fresh, Untaken
    <3> QED
      BY <1>2, <2>1, <3>2, <3>3, <3>4, <3>5, <3>6 DEF DevInv
  <2>3. CASE job.targets = <<>> /\ pc' = "wire" /\ DevicesSettled
    <3>1. Range(job.targets) = {}
      BY <2>3 DEF Range
    <3>2. sys'.crypt = FdeSealed
      BY <2>1, <2>3, <3>1 DEF FdeSealed, DevicesSettled, SameSeals
    <3>3. pc' \notin Unsealed \cup {"encrypt"}
      BY <2>3 DEF Unsealed, Unlisted, Fresh, Untaken
    <3>4. sys'.dev = sys.dev /\ sys'.crypt = sys.crypt
      BY <2>3 DEF DevicesSettled, SameSeals
    <3> QED
      BY <1>2, <2>1, <3>2, <3>3, <3>4 DEF DevInv
  <2> QED
    BY <1>1, <1>8, <2>2, <2>3, FdeTurns DEF Live
<1>9. CASE pc \in Sealed
  <2>1. pc' \in Sealed
    BY <1>9, Moves DEF Sealed, Signable
  <2>2. sys'.dev = sys.dev /\ sys'.crypt = sys.crypt
    <3>1. CASE pc = "wire"
      <4>1. \E keyed : sys' = [sys EXCEPT !.keyed = keyed]
        BY <1>1, <3>1, FdeTurns DEF Live
      <4> QED
        BY <1>3, <4>1 DEF SysFields
    <3>2. CASE pc # "wire"
      BY <1>1, <1>9, <3>2 DEF Sealed, Signable, DevicesSettled, SameSeals
    <3> QED
      BY <3>1, <3>2
  <2>3. pc \notin Untaken /\ pc' \notin Unsealed \cup {"encrypt"}
    BY <1>9, <2>1 DEF Sealed, Signable, Unsealed, Unlisted, Fresh, Untaken
  <2> QED
    BY <1>1, <1>2, <1>9, <2>2, <2>3 DEF DevInv
<1> QED
  BY <1>4, <1>5, <1>6, <1>7, <1>8, <1>9, Moves

\* What a stage that writes does not.
LEMMA Leaves ==
  ASSUME StageInv, ShapeInv, InstallNext, Live'
  PROVE  /\ pc = "site" => \A f \in RootFields \ {"fstab", "site"} : root'[f] = root[f]
         /\ pc = "secure" => \A f \in RootFields \ {"fstab"} : root'[f] = root[f]
         /\ pc = "wire" => \A f \in RootFields \ {"cmdline", "key", "crypttab"} : root'[f] = root[f]
         /\ pc = "initramfs" => \A f \in RootFields \ {"initramfs", "grubStub", "uki", "loader"} : root'[f] = root[f]
         /\ pc = "hash" => \A f \in RootFields \ {"hashed", "stale"} : root'[f] = root[f]
         /\ pc = "ukify" => \A f \in RootFields \ {"uki", "stale"} : root'[f] = root[f]
         /\ pc = "loader" => \A f \in RootFields \ {"loader"} : root'[f] = root[f]
         /\ pc = "sign" => \A f \in RootFields \ {"signed"} : root'[f] = root[f]
<1>1. Live /\ IsDisk /\ ~Lost' /\ DOMAIN root = RootFields
  BY Lives DEF Live, ShapeInv
<1>2. CASE pc = "site"
  <2>1. ConfigureImage(root) # Refused /\ root' = ConfigureImage(root)[1]
    BY <1>1, <1>2, EarlyTurns
  <2>2. PICK site, fstab : root' = [[root EXCEPT !.fstab = fstab] EXCEPT !.site = site]
    BY <1>1, <2>1 DEF ConfigureImage, UpdateImageFstab
  <2> QED
    BY <1>1, <1>2, <2>2 DEF RootFields
<1>3. CASE pc = "secure"
  <2>1. root' = ConfigImageSecurity(root, t)
    BY <1>1, <1>3, EarlyTurns
  <2> QED
    BY <1>1, <1>3, <2>1 DEF ConfigImageSecurity, RootFields
<1>4. CASE pc = "wire"
  <2>1. WireFDEBoot(root, sys.dev, t, Parts) # Refused /\ root' = WireFDEBoot(root, sys.dev, t, Parts)[1]
    BY <1>1, <1>4, FdeTurns
  <2>2. root' = root \/ \E c, k, e : root' = [root EXCEPT !.cmdline = c, !.key = k, !.crypttab = e]
    <3>1. CASE ~t.fde.enabled
      BY <2>1, <3>1 DEF WireFDEBoot
    <3>2. CASE t.fde.enabled
      BY <2>1, <3>2 DEF WireFDEBoot
    <3> QED
      BY <3>1, <3>2
  <2> QED
    BY <1>1, <1>4, <2>2 DEF RootFields
<1>5. CASE pc = "initramfs"
  <2> DEFINE r == UpdateInitramfs(root, root.kernels[1], t)
  <2>1. r # Refused /\ root' = PrepareESPDir(r[1])
    BY <1>1, <1>5, UkiTurns
  <2>2. PICK content : r[1] = Generated(root, "dracut", root.kernels[1], content)
    BY <2>1 DEF UpdateInitramfs
  <2> HIDE DEF r
  <2>3. DOMAIN r[1] = RootFields /\ \A f \in RootFields \ {"initramfs"} : r[1][f] = root[f]
    BY <1>1, <2>2 DEF Generated, RootFields
  <2> QED
    BY <1>5, <2>1, <2>3 DEF PrepareESPDir, RootFields
<1>6. CASE pc = "hash"
  <2>1. PICK pair : root' = GetVerityRootHash(root, pair)
    BY <1>1, <1>6, UkiTurns
  <2> QED
    BY <1>1, <1>6, <2>1 DEF GetVerityRootHash, RootFields
<1>7. CASE pc = "ukify"
  <2>1. PICK options : LET built == BuildUKI(root, root.kernels[1], options, t) IN
             built # Refused /\ root' = (IF t.immutable THEN WriteRoot(built[1], sys.ro) ELSE built[1])
    BY <1>1, <1>7, UkiTurns
  <2> DEFINE built == BuildUKI(root, root.kernels[1], options, t)
  <2>2. built # Refused => \E uki : built[1] = [root EXCEPT !.uki = uki]
    BY DEF BuildUKI
  <2>3. built # Refused /\ root' = (IF t.immutable THEN WriteRoot(built[1], sys.ro) ELSE built[1])
    BY <2>1
  <2> HIDE DEF built
  <2>4. DOMAIN built[1] = RootFields /\ \A f \in RootFields \ {"uki"} : built[1][f] = root[f]
    BY <1>1, <2>2, <2>3 DEF RootFields
  <2> QED
    BY <1>7, <2>3, <2>4 DEF WriteRoot, RootFields
<1>8. CASE pc = "loader"
  <2>1. root' = CopyBootloader(root, t)
    BY <1>1, <1>8, UkiTurns
  <2> QED
    BY <1>1, <1>8, <2>1 DEF CopyBootloader, RootFields
<1>9. CASE pc = "sign"
  <2>1. SignImage(root, t) # Refused /\ root' = SignImage(root, t)[1]
    BY <1>1, <1>9, UkiTurns
  <2>2. PICK signed : root' = root \/ root' = [root EXCEPT !.signed = signed]
    BY <2>1 DEF SignImage
  <2> QED
    BY <1>1, <1>9, <2>2 DEF RootFields
<1> QED
  BY <1>2, <1>3, <1>4, <1>5, <1>6, <1>7, <1>8, <1>9

LEMMA KernelsStay == ASSUME StageInv, InstallNext, pc \notin {"install", "kernels"} PROVE root'.kernels = root.kernels
  BY Followed, DiskFollows DEF InstallNext, Untouching

\* The kernels' modules can be found once they are looked for.
LEMMA DepStays ==
  ASSUME StageInv, ShapeInv, StandInInv, Live => DevInv /\ LoaderInv /\ DepInv, InstallNext, Live' PROVE DepInv'
<1>1. Live /\ DevInv /\ LoaderInv /\ DepInv /\ Steady /\ IsDisk /\ ~Lost' /\ world \in Worlds /\ DOMAIN root = RootFields
  BY Lives DEF StageInv, Live, ShapeInv
<1> DEFINE Deep(m) == \A k \in DOMAIN m : "dep" \in DOMAIN m[k]
           Found(m, kernels) == \A k \in Range(kernels) : k \in DOMAIN m => m[k].dep
           Unsorted == Fresh \cup {"kernels", "dkms", "depmod"}
<1>2. Deep(root.modules) /\ (pc \notin Unsorted => Found(root.modules, root.kernels))
  BY <1>1 DEF DepInv
<1>3. SUFFICES Deep(root'.modules) /\ (pc' \notin Unsorted => Found(root'.modules, root'.kernels))
  BY DEF DepInv
<1>4. CASE pc = "install"
  <2>1. pc' \in Unsorted
    BY <1>4, Moves DEF Fresh
  <2>2. root'.modules = root.modules \/ root'.modules = t.trees
    <3>1. InstallPackage \/ PackagesInstalled \/ ImageCommandFails
      BY <1>4, Acts, TurnsOnDisk, DiskFollows DEF InstallNext
    <3>2. CASE InstallPackage
      <4>1. \E scaffold : root' = [root EXCEPT !.scaffold = scaffold]
        BY <3>2 DEF InstallPackage
      <4> QED
        BY <1>1, <4>1 DEF RootFields
    <3>3. CASE PackagesInstalled
      <4>1. \E scaffold, gen : root' = [root EXCEPT !.scaffold = scaffold, !.kernels = t.boot, !.modules = t.trees, !.gen = gen]
        BY <3>3 DEF PackagesInstalled
      <4> QED
        BY <1>1, <4>1 DEF RootFields
    <3>4. CASE ImageCommandFails
      BY <3>4, Fails
    <3> QED
      BY <3>1, <3>2, <3>3, <3>4
  <2>3. Deep(t.trees)
    BY <1>1, TemplateAssumption DEF t
  <2> QED
    BY <1>2, <2>1, <2>2, <2>3
<1>5. CASE pc = "depmod"
  <2>1. EnsureDepmodForBootKernels(root) # Refused /\ root' = EnsureDepmodForBootKernels(root)[1]
    BY <1>1, <1>5, EarlyTurns
  <2> DEFINE m == [k \in DOMAIN root.modules |-> [root.modules[k] EXCEPT !.dep = @ \/ k \in Range(root.kernels)]]
  <2> DEFINE q == [root EXCEPT !.modules = m]
  <2>5. EnsureDepmodForBootKernels(root) = IF ~(Range(root.kernels) \subseteq DOMAIN root.modules) THEN Refused ELSE <<q>>
    BY Zenon DEF EnsureDepmodForBootKernels, ListInstalledKernelVersions
  <2> HIDE DEF q
  <2>6. root' = q
    BY <2>1, <2>5
  <2>2. root' = [root EXCEPT !.modules = m]
    BY <2>6 DEF q
  <2>3. root'.modules = m /\ root'.kernels = root.kernels
    BY <1>1, <2>2 DEF RootFields
  <2>4. Deep(m) /\ Found(m, root.kernels)
    BY <1>2
  <2> HIDE DEF m
  <2> QED
    BY <2>3, <2>4
<1>6. CASE pc = "boot"
  <2>1. Given(root, root') /\ DepKept(root, root')
    BY <1>1, <1>6, EarlyTurns, BootMade
  <2>2. root'.kernels = root.kernels /\ pc \notin Unsorted
    BY <1>6, <2>1 DEF Given, Fresh, Untaken
  <2> QED
    BY <1>2, <2>1, <2>2 DEF DepKept
<1>7. CASE pc \notin {"install", "depmod", "boot"}
  <2>1. root'.modules = root.modules
    BY <1>1, <1>7 DEF Steady
  <2>2. pc' \notin Unsorted => pc \notin Unsorted
    BY <1>7, Moves
  <2>3. pc' \notin Unsorted => root'.kernels = root.kernels
    BY <2>2, KernelsStay DEF Fresh
  <2> QED
    BY <1>2, <2>1, <2>2, <2>3
<1> QED
  BY <1>4, <1>5, <1>6, <1>7

\* What is mounted where.
LEMMA FstabStays ==
  ASSUME StageInv, StandInInv, ShapeInv, Live => DevInv /\ LoaderInv /\ FstabInv, InstallNext, Live' PROVE FstabInv'
<1>1. Live /\ DevInv /\ LoaderInv /\ FstabInv /\ Steady /\ world' = world /\ IsDisk /\ ~Lost' /\ DOMAIN root = RootFields
  BY Lives DEF Live, ShapeInv
<1>2. \A e : MountedAs(e) => MountedAs(e)'
  BY <1>1, Fixed DEF MountedAs
<1>3. ASSUME root'.fstab = root.fstab, pc' \in Unlisted <=> pc \in Unlisted PROVE FstabInv'
  BY <1>1, <1>2, <1>3 DEF FstabInv
<1>4. CASE pc = "site"
  <2>1. ConfigureImage(root) # Refused /\ root' = ConfigureImage(root)[1] /\ pc' \notin Unlisted
    BY <1>1, <1>4, EarlyTurns DEF Unlisted, Fresh, Untaken
  <2> DEFINE entry(p) == [mount |-> p.mount,
                          source |-> IF t.fde.enabled /\ p.id \in Range(t.fde.partitions) /\ p.mount # "/"
                                     THEN <<"mapper", p.id>> ELSE <<"partuuid", p.id>>]
             listed == {p \in Range(Parts) : p.id \in DOMAIN sys.dev /\ (IsSwapFsType(p.fs) \/ p.mount \notin {"", "none"})}
  <2>2. UpdateImageFstab(root, sys.dev, t, Parts) = [root EXCEPT !.fstab = @ \cup {entry(p) : p \in listed}]
    BY DEF UpdateImageFstab
  <2>3. PICK site : root' = [UpdateImageFstab(root, sys.dev, t, Parts) EXCEPT !.site = site]
    BY <1>1, <2>1 DEF ConfigureImage
  <2>4. root.fstab = {}
    BY <1>1, <1>4 DEF FstabInv, Unlisted
  <2>5. root'.fstab = {entry(p) : p \in listed}
    BY <1>1, <2>2, <2>3, <2>4 DEF RootFields
  <2>6. \A p \in Range(Parts) : MountedAs(entry(p))
    BY DEF MountedAs
  <2>7. \A e \in root'.fstab : MountedAs(e)'
    BY <1>2, <2>5, <2>6
  <2> QED
    BY <2>1, <2>7 DEF FstabInv
<1>5. CASE pc = "secure"
  <2>1. root' = ConfigImageSecurity(root, t) /\ pc' \notin Unlisted /\ pc \notin Unlisted
    BY <1>1, <1>5, EarlyTurns DEF Unlisted, Fresh, Untaken
  <2> DEFINE added == {[source |-> <<"tmpfs", "">>, mount |-> "/tmp"], [source |-> <<"tmpfs", "">>, mount |-> "/run"],
                       [source |-> <<"bind", "/opt/home">>, mount |-> "/home"],
                       [source |-> <<"bind", "/opt/var">>, mount |-> "/var"]}
  <2>2. root' = root \/ root' = [root EXCEPT !.fstab = @ \cup added]
    BY <2>1 DEF ConfigImageSecurity
  <2>3. \A e \in added : MountedAs(e)
    <3>1. ASSUME NEW e \in added PROVE e.source[1] \in {"tmpfs", "bind"}
      <4>1. CASE e = [source |-> <<"tmpfs", "">>, mount |-> "/tmp"]
        BY <4>1
      <4>2. CASE e = [source |-> <<"tmpfs", "">>, mount |-> "/run"]
        BY <4>2
      <4>3. CASE e = [source |-> <<"bind", "/opt/home">>, mount |-> "/home"]
        BY <4>3
      <4>4. CASE e = [source |-> <<"bind", "/opt/var">>, mount |-> "/var"]
        BY <4>4
      <4> QED
        BY <3>1, <4>1, <4>2, <4>3, <4>4
    <3> HIDE DEF added
    <3> QED
      BY <3>1 DEF MountedAs
  <2> HIDE DEF added
  <2>4. root'.fstab \subseteq root.fstab \cup added
    BY <1>1, <2>2 DEF RootFields
  <2>5. \A e \in root'.fstab : MountedAs(e)'
    BY <1>1, <1>2, <2>1, <2>3, <2>4 DEF FstabInv
  <2> QED
    BY <2>1, <2>5 DEF FstabInv
<1>6. CASE pc = "boot"
  <2>1. Given(root, root') /\ pc' = "sbom"
    BY <1>1, <1>6, EarlyTurns, BootMade
  <2> QED
    BY <1>3, <1>6, <2>1 DEF Given, Unlisted, Fresh, Untaken
<1>7. CASE pc \notin Writing
  <2>1. root'.fstab = root.fstab
    BY <1>1, <1>7 DEF Steady, Settled
  <2>2. pc' \in Unlisted <=> pc \in Unlisted
    BY <1>7, Moves DEF Writing, Unlisted, Fresh, Untaken, Sealed, Signable
  <2> QED
    BY <1>3, <2>1, <2>2
<1>8. CASE pc \in {"wire", "initramfs", "hash", "ukify", "loader", "sign"}
  <2>1. root'.fstab = root.fstab
    BY <1>8, Leaves DEF RootFields
  <2>2. pc' \in {"initramfs", "sign", "verity", "ukify", "loader", "post"}
    BY <1>8, Moves
  <2>3. pc \notin Unlisted /\ pc' \notin Unlisted
    BY <1>8, <2>2 DEF Unlisted, Fresh, Untaken
  <2> QED
    BY <1>3, <2>1, <2>3
<1> QED
  BY <1>4, <1>5, <1>6, <1>7, <1>8 DEF Writing

\* Options with some of theirs replaced.
Shown(r, v, p, luks) == [root |-> r, verity |-> v, pair |-> p, hash |-> <<>>, luks |-> luks]
Repaired(v, p, luks) == [[FirstOptions EXCEPT !.pair = p, !.verity = v] EXCEPT !.luks = luks]
LEMMA OptionsEdited ==
  /\ \A luks : [FirstOptions EXCEPT !.luks = luks] = Shown(FirstOptions.root, FirstOptions.verity, FirstOptions.pair, luks)
  /\ \A r, luks : [[FirstOptions EXCEPT !.root = r] EXCEPT !.luks = luks] = Shown(r, FirstOptions.verity, FirstOptions.pair, luks)
  /\ \A v, p, luks : Repaired(v, p, luks) = Shown(FirstOptions.root, v, p, luks)
<1> DEFINE o == FirstOptions
<1>1. o = [root |-> o.root, verity |-> o.verity, pair |-> o.pair, hash |-> <<>>, luks |-> o.luks]
  BY DEF FirstOptions, Options
<1> HIDE DEF o
<1>2. \A luks : [o EXCEPT !.luks = luks] = Shown(o.root, o.verity, o.pair, luks)
  BY <1>1 DEF Shown
<1>3. ASSUME NEW r, NEW luks PROVE [[o EXCEPT !.root = r] EXCEPT !.luks = luks] = Shown(r, o.verity, o.pair, luks)
  <2> DEFINE a == [o EXCEPT !.root = r]
  <2>1. a = [root |-> r, verity |-> o.verity, pair |-> o.pair, hash |-> <<>>, luks |-> o.luks]
    BY <1>1
  <2> HIDE DEF a
  <2>2. [a EXCEPT !.luks = luks] = Shown(r, o.verity, o.pair, luks)
    BY <2>1 DEF Shown
  <2> QED
    BY <2>2 DEF a
<1>4. ASSUME NEW v, NEW p, NEW luks
      PROVE  [[o EXCEPT !.pair = p, !.verity = v] EXCEPT !.luks = luks] = Shown(o.root, v, p, luks)
  <2> DEFINE a == [o EXCEPT !.pair = p, !.verity = v]
             b == [o EXCEPT !.pair = p]
  <2>3. b = [root |-> o.root, verity |-> o.verity, pair |-> p, hash |-> <<>>, luks |-> o.luks]
    BY <1>1
  <2>4. a = [b EXCEPT !.verity = v]
    BY <1>1
  <2> HIDE DEF b
  <2>1. a = [root |-> o.root, verity |-> v, pair |-> p, hash |-> <<>>, luks |-> o.luks]
    BY <2>3, <2>4
  <2> HIDE DEF a
  <2>2. [a EXCEPT !.luks = luks] = Shown(o.root, v, p, luks)
    BY <2>1 DEF Shown
  <2> QED
    BY <2>2 DEF a
<1> QED
  BY <1>2, <1>3, <1>4 DEF o, Repaired

\* What the encryption makes of the options, and of the crypttab.
LEMMA WireMade ==
  ASSUME StageInv, ShapeInv, Live, DevInv, LoaderInv, WireInv, pc = "wire", t.provider = "systemd-boot",
         WireFDEBoot(root, sys.dev, t, Parts) # Refused
  PROVE  LET q == WireFDEBoot(root, sys.dev, t, Parts)[1] IN
         /\ q.cmdline = <<LastOptions>>
         /\ t.fde.enabled =>
              /\ q.crypttab = {FdeCrypttabEntry(id, t.fde.auto) : id \in {x \in Targets : x # RootId \/ t.fde.auto}}
              /\ q.key = t.fde.auto
<1>1. /\ DOMAIN root = RootFields /\ world \in Worlds /\ PlainLayout /\ Rooted /\ (t.immutable => HashKept)
      /\ root.cmdline = <<FirstOptions>> /\ root.crypttab = {}
  BY DEF StageInv, ShapeInv, Live, LoaderInv, WireInv, Unlisted, Fresh, Untaken
<1>2. /\ Ids \subseteq DOMAIN sys.dev /\ sys.crypt = FdeSealed
      /\ \A id \in DOMAIN sys.dev : sys.dev[id] = IF id \in sys.crypt THEN <<"mapper", id>> ELSE <<"part", id>>
  BY DEF DevInv, Untaken, Sealed
<1>3. RootId \in Ids
  BY <1>1, PlainIds DEF Rooted, Ids
<1>4. sys.dev[RootId] = Behind(FdeSealed)
  BY <1>2, <1>3 DEF Behind
<1>5. CASE ~t.fde.enabled
  <2>1. WireFDEBoot(root, sys.dev, t, Parts)[1] = root
    BY <1>5 DEF WireFDEBoot
  <2>2. LastOptions = FirstOptions
    BY <1>5 DEF LastOptions, FirstOptions, FdeSealed
  <2> QED
    BY <1>1, <1>5, <2>1, <2>2
<1>6. CASE t.fde.enabled
  <2> DEFINE mapper == IF RootId \in Targets THEN sys.dev[RootId] ELSE <<>>
             hash == FdeHashPartitionDev(sys.dev, Parts)
             params == FdeCollectBootParams(Targets, RootId, t.fde.auto)
             options == FdeRewriteCmdlineFields(FirstOptions, mapper, hash, t, params.luks)
  <2> DEFINE wired == [root EXCEPT !.cmdline = options, !.key = t.fde.auto,
                                   !.crypttab = IF params.crypttab = {} THEN @ ELSE params.crypttab]
  <2>1. options # Refused /\ WireFDEBoot(root, sys.dev, t, Parts)[1] = wired
    <3> DEFINE o == FdeRewriteCmdlineFields(root.cmdline[1], mapper, hash, t, params.luks)
               w == [root EXCEPT !.cmdline = o, !.key = t.fde.auto,
                                 !.crypttab = IF params.crypttab = {} THEN @ ELSE params.crypttab]
    <3>1. WireFDEBoot(root, sys.dev, t, Parts) = Refused \/ (o # Refused /\ WireFDEBoot(root, sys.dev, t, Parts) = <<w>>)
      BY <1>6 DEF WireFDEBoot, RootId, Targets
    <3>2. root.cmdline[1] = FirstOptions
      BY <1>1
    <3> QED
      BY <3>1, <3>2
  <2>2. /\ params.luks = {FdeLuksCmdlineParams(id, t.fde.auto) : id \in Targets \cap {RootId}}
        /\ params.crypttab = {FdeCrypttabEntry(id, t.fde.auto) : id \in {x \in Targets : x # RootId \/ t.fde.auto}}
    BY DEF FdeCollectBootParams
  <2>3. FdeSealed = Targets
    BY <1>6 DEF FdeSealed
  <2>4. LastOptions.luks = params.luks
    BY <2>2, <2>3 DEF LastOptions, Options
  <2>5. t.immutable => hash = <<"part", HashId>>
    <3>1. SUFFICES ASSUME t.immutable PROVE hash = <<"part", HashId>>
      OBVIOUS
    <3>2. PICK h \in Range(Parts) : h.mount = "none"
      BY <1>1, <3>1 DEF HashKept
    <3>3. h.id = HashId /\ HashId \notin Targets /\ h.id \in DOMAIN sys.dev
      BY <1>1, <1>2, <3>1, <3>2, PlainHash DEF Ids
    <3>4. hash = sys.dev[HashId]
      BY <1>1, <3>1, <3>2, <3>3, PlainHash
    <3> QED
      BY <1>2, <2>3, <3>3, <3>4
  <2> HIDE DEF params, hash
  <2>6. options = <<LastOptions>>
    <3>1. CASE RootId \notin Targets
      <4>1. options = <<[FirstOptions EXCEPT !.luks = params.luks]>>
        BY <3>1 DEF FdeRewriteCmdlineFields, Refused
      <4>2. Behind(FdeSealed) = Behind({})
        BY <2>3, <3>1 DEF Behind
      <4> HIDE DEF options
      <4>3. LastOptions = Shown(FirstOptions.root, FirstOptions.verity, FirstOptions.pair, params.luks)
        BY <2>4, <4>2 DEF FirstOptions, LastOptions, Options, Shown
      <4> QED
        BY <4>1, <4>3, OptionsEdited
    <3>2. CASE RootId \in Targets
      <4>1. mapper = <<"mapper", RootId>> /\ mapper # <<>> /\ Behind(FdeSealed) = <<"mapper", RootId>>
        BY <1>4, <2>3, <3>2 DEF Behind
      <4>2. NameOf(Behind(FdeSealed)) = <<"mapper", RootId>> /\ NameOf(Behind({})) = <<"partuuid", RootId>>
        BY <4>1 DEF NameOf, Behind
      <4> HIDE DEF mapper
      <4>3. CASE ~t.immutable
        <5>1. options = <<[[FirstOptions EXCEPT !.root = mapper] EXCEPT !.luks = params.luks]>>
          BY <4>1, <4>3 DEF FdeRewriteCmdlineFields, Refused
        <5> HIDE DEF options
        <5>2. LastOptions = Shown(mapper, FirstOptions.verity, FirstOptions.pair, params.luks)
          BY <2>4, <4>1, <4>2, <4>3 DEF FirstOptions, LastOptions, Options, Shown
        <5> QED
          BY <5>1, <5>2, OptionsEdited
      <4>4. CASE t.immutable
        <5>1. FirstOptions.verity = <<<<"partuuid", RootId>>, <<"partuuid", HashId>>>>
          BY <4>2, <4>4 DEF FirstOptions, Options
        <5> DEFINE v == IF FirstOptions.verity = <<>> THEN FirstOptions.verity ELSE <<mapper, FirstOptions.verity[2]>>
        <5>2. v = <<mapper, <<"partuuid", HashId>>>>
          BY <5>1
        <5>3. options = <<[[FirstOptions EXCEPT !.pair = <<mapper, hash>>, !.verity = v] EXCEPT !.luks = params.luks]>>
          <6>1. hash = <<"part", HashId>>
            BY <2>5, <4>4, Zenon
          <6>2. hash # <<>>
            BY <6>1
          <6> QED
            BY <4>1, <4>4, <5>1, <6>2 DEF FdeRewriteCmdlineFields, Refused, FirstOptions, Options
        <5>4. LastOptions = Shown(FirstOptions.root, v, <<mapper, hash>>, params.luks)
          BY <2>4, <2>5, <4>1, <4>2, <4>4, <5>2 DEF FirstOptions, LastOptions, Options, Shown
        <5> HIDE DEF v
        <5> DEFINE p == <<mapper, hash>>
        <5>5. Repaired(v, p, params.luks) = Shown(FirstOptions.root, v, p, params.luks)
          <6> HIDE DEF p
          <6> QED
            BY OptionsEdited
        <5> QED
          BY Zenon, <5>3, <5>4, <5>5 DEF Repaired
      <4> QED
        BY <4>3, <4>4
    <3> QED
      BY <3>1, <3>2
  <2> HIDE DEF options
  <2>7. WireFDEBoot(root, sys.dev, t, Parts)[1] =
          [root EXCEPT !.cmdline = options, !.key = t.fde.auto, !.crypttab = params.crypttab]
    BY <1>1, <2>1
  <2> QED
    BY <1>1, <2>2, <2>6, <2>7 DEF RootFields
<1> QED
  BY <1>5, <1>6

\* The loader has its options, of what each stage leaves.
LEMMA LoaderStays ==
  ASSUME StageInv, StandInInv, ShapeInv, Live => DevInv /\ LoaderInv /\ WireInv, InstallNext, Live' PROVE LoaderInv'
<1> DEFINE plain == Unlisted \cup {"boot"}
           sealing == {"initramfs", "verity", "hash", "ukify", "loader"}
<1>1. /\ Live /\ DevInv /\ LoaderInv /\ WireInv /\ Steady /\ IsDisk /\ ~Lost' /\ DOMAIN root = RootFields
      /\ (t.cmdlineRoot = "" \/ t.immutable) /\ (t.provider = "grub" => ~t.immutable)
  BY Lives DEF Live, ShapeInv
<1>2. /\ t' = t /\ Parts' = Parts /\ Rooted' = Rooted /\ HashKept' = HashKept /\ RootId' = RootId
      /\ FirstOptions' = FirstOptions /\ LastOptions' = LastOptions
  BY Lives, Fixed
<1>3. GrubSet(root') => GrubSet(root)'
  BY <1>2 DEF GrubSet
<1>4. pc' \in sealing => t.provider = "systemd-boot"
  <2>1. pc \in {"wire"} \cup sealing => t.provider = "systemd-boot" \/ pc' \notin sealing
    BY <1>1, Moves DEF LoaderInv
  <2>2. pc \notin {"wire"} \cup sealing => pc' \notin sealing
    BY Moves DEF Sealed, Signable, Fresh, Untaken
  <2> QED
    BY <2>1, <2>2
<1>5. CASE pc \in Unlisted
  <2>1. root'.cmdline = root.cmdline /\ root'.initramfs = root.initramfs
    <3>1. CASE pc = "site"
      BY <3>1, Leaves DEF RootFields
    <3>2. CASE pc # "site"
      BY <1>1, <1>5, <3>2 DEF Steady, Settled, Writing, Unlisted, Fresh, Untaken
    <3> QED
      BY <3>1, <3>2
  <2>2. pc' \in plain
    BY <1>5, Moves DEF Unlisted
  <2>3. pc' \notin sealing \cup {"sbom", "secure", "fde", "encrypt", "wire"}
    BY <2>2 DEF Unlisted, Fresh, Untaken
  <2> QED
    BY <1>1, <1>2, <1>5, <2>1, <2>2, <2>3 DEF LoaderInv
<1>6. CASE pc = "boot"
  <2>1. pc' = "sbom" /\ root' \in InstallImageBoot(root, sys.dev, t, Parts)
    BY <1>1, <1>6, EarlyTurns
  <2>2. /\ t.provider \in {"grub", "systemd-boot"} /\ Rooted /\ (t.immutable => HashKept)
        /\ t.provider = "grub" => root'.cmdline = <<>> /\ GrubSet(root')
        /\ t.provider = "systemd-boot" => root'.cmdline = <<FirstOptions>>
    BY <1>1, <1>6, <2>1, BootMade
  <2>3. pc' \notin plain
    BY <2>1 DEF Unlisted, Fresh, Untaken
  <2> QED
    BY <1>2, <1>3, <2>1, <2>2, <2>3 DEF LoaderInv
<1>7. CASE pc \notin plain
  <2>1. /\ t.provider \in {"grub", "systemd-boot"} /\ Rooted /\ (t.immutable => HashKept)
        /\ t.provider = "grub" => root.cmdline = <<>> /\ GrubSet(root)
    BY <1>1, <1>7 DEF LoaderInv
  <2>2. pc' \notin plain
    BY <1>7, Moves DEF Unlisted, Fresh, Untaken, Sealed, Signable
  <2>3. root'.kernels = root.kernels
    BY <1>7, KernelsStay DEF Unlisted, Fresh
  <2>4. CASE t.provider = "grub"
    <3>1. pc \notin sealing
      BY <1>1, <2>4 DEF LoaderInv
    <3>2. /\ root'.cmdline = root.cmdline /\ root'.defaultGrub = root.defaultGrub /\ root'.grubStub = root.grubStub
          /\ root'.grubCfg = root.grubCfg /\ root'.initramfs = root.initramfs
      <4>1. CASE pc \notin Writing
        BY <1>1, <4>1 DEF Steady, Settled
      <4>2. CASE pc \in {"secure", "sign"}
        BY <4>2, Leaves DEF RootFields
      <4>3. CASE pc = "wire"
        <5>1. WireFDEBoot(root, sys.dev, t, Parts) # Refused /\ root' = WireFDEBoot(root, sys.dev, t, Parts)[1]
          BY <1>1, <4>3, FdeTurns
        <5>2. ~t.fde.enabled
          BY <2>1, <2>4, <5>1 DEF WireFDEBoot
        <5> QED
          BY <5>1, <5>2 DEF WireFDEBoot
      <4> QED
        BY <1>7, <3>1, <4>1, <4>2, <4>3 DEF Writing, Unlisted
    <3>3. GrubSet(root')
      BY <2>1, <2>3, <2>4, <3>2 DEF GrubSet
    <3> QED
      BY <1>2, <1>3, <1>4, <2>1, <2>2, <2>4, <3>2, <3>3 DEF LoaderInv
  <2>5. CASE t.provider = "systemd-boot"
    <3>1. pc' \in {"sbom", "secure", "fde", "encrypt", "wire"} => root'.cmdline = <<FirstOptions>>
      <4>1. SUFFICES ASSUME pc' \in {"sbom", "secure", "fde", "encrypt", "wire"} PROVE root'.cmdline = <<FirstOptions>>
        OBVIOUS
      <4>2. pc \in {"sbom", "secure", "fde", "encrypt"}
        BY <1>7, <4>1, Moves DEF Unlisted, Fresh, Untaken, Sealed, Signable
      <4>3. root.cmdline = <<FirstOptions>>
        BY <1>1, <2>5, <4>2 DEF LoaderInv
      <4>4. CASE pc = "secure"
        BY <4>3, <4>4, Leaves DEF RootFields
      <4>5. CASE pc # "secure"
        BY <1>1, <4>2, <4>3, <4>5 DEF Steady, Settled, Writing
      <4> QED
        BY <4>4, <4>5
    <3>2. pc' \in {"initramfs", "verity", "hash", "ukify"} => root'.cmdline = <<LastOptions>>
      <4>1. SUFFICES ASSUME pc' \in {"initramfs", "verity", "hash", "ukify"} PROVE root'.cmdline = <<LastOptions>>
        OBVIOUS
      <4>2. pc \in {"wire", "initramfs", "verity", "hash"}
        BY <1>7, <4>1, Moves DEF Unlisted, Fresh, Untaken, Sealed, Signable
      <4>3. CASE pc = "wire"
        <5>1. WireFDEBoot(root, sys.dev, t, Parts) # Refused /\ root' = WireFDEBoot(root, sys.dev, t, Parts)[1]
          BY <1>1, <4>3, FdeTurns
        <5> QED
          BY <1>1, <2>5, <4>3, <5>1, WireMade
      <4>4. CASE pc # "wire"
        <5>1. root.cmdline = <<LastOptions>>
          BY <1>1, <2>5, <4>2, <4>4 DEF LoaderInv
        <5>2. CASE pc \in {"initramfs", "hash"}
          BY <5>1, <5>2, Leaves DEF RootFields
        <5>3. CASE pc = "verity"
          BY <1>1, <5>1, <5>3 DEF Steady, Settled, Writing
        <5> QED
          BY <4>2, <4>4, <5>1, <5>2, <5>3
      <4> QED
        BY <4>3, <4>4
    <3> QED
      BY <1>2, <2>1, <2>2, <2>5, <3>1, <3>2 DEF LoaderInv
  <2> QED
    BY <2>1, <2>4, <2>5
<1> QED
  BY <1>5, <1>6, <1>7

\* The crypttab and the keys are those of what is encrypted.
LEMMA WireStays ==
  ASSUME StageInv, ShapeInv, Live => DevInv /\ LoaderInv /\ WireInv, InstallNext, Live' PROVE WireInv'
<1> DEFINE table == {FdeCrypttabEntry(id, t.fde.auto) : id \in {x \in Targets : x # RootId \/ t.fde.auto}}
<1>1. /\ Live /\ DevInv /\ LoaderInv /\ WireInv /\ Steady /\ ~Lost' /\ DOMAIN root = RootFields /\ DOMAIN sys = SysFields
      /\ pc \notin {"image", "encrypt", "wire"} => DevicesSettled
  BY Lives DEF Live, ShapeInv, StageInv, SysFields
<1>2. t' = t /\ Rooted' = Rooted /\ RootId' = RootId /\ Targets' = Targets
  BY Lives, Fixed
<1>3. table' = table
  BY <1>2 DEF FdeCrypttabEntry
<1>4. CASE pc \notin Sealed \/ pc = "wire"
  <2>1. root.crypttab = {}
    BY <1>1, <1>4 DEF WireInv
  <2>2. CASE pc # "wire"
    <3>1. pc' \notin Sealed \/ pc' = "wire"
      BY <1>4, <2>2, Moves DEF Sealed, Signable, Fresh, Untaken
    <3>2. root'.crypttab = root.crypttab
      <4>1. CASE pc \notin Writing
        BY <1>1, <4>1 DEF Steady, Settled
      <4>2. CASE pc \in {"site", "secure"}
        BY <4>2, Leaves DEF RootFields
      <4>3. CASE pc = "boot"
        BY <1>1, <4>3, EarlyTurns, BootGives DEF Given, Live
      <4> QED
        BY <1>4, <2>2, <4>1, <4>2, <4>3 DEF Writing, Sealed, Signable
    <3> QED
      BY <2>1, <3>1, <3>2 DEF WireInv
  <2>3. CASE pc = "wire"
    <3>1. /\ WireFDEBoot(root, sys.dev, t, Parts) # Refused /\ root' = WireFDEBoot(root, sys.dev, t, Parts)[1]
          /\ sys' = [sys EXCEPT !.keyed = IF IsFDEAutoUnlock(t) THEN Range(FdeTargetPartitionIDs(t, Parts)) ELSE @]
          /\ pc' \in {"initramfs", "sign"}
      BY <1>1, <2>3, FdeTurns
    <3>2. pc' \in Sealed \ {"wire"}
      BY <3>1 DEF Sealed, Signable
    <3>3. CASE ~t.fde.enabled
      BY <1>2, <3>2, <3>3 DEF WireInv
    <3>4. CASE t.fde.enabled
      <4>1. root.cmdline # <<>>
        BY <3>1, <3>4 DEF WireFDEBoot
      <4>2. t.provider = "systemd-boot" /\ Rooted
        BY <1>1, <2>3, <4>1 DEF LoaderInv, Unlisted, Fresh, Untaken
      <4>3. root'.crypttab = table /\ root'.key = t.fde.auto
        BY <1>1, <2>3, <3>1, <3>4, <4>2, WireMade
      <4>4. t.fde.auto => sys'.keyed = Targets
        BY <1>1, <3>1, <3>4 DEF IsFDEAutoUnlock, SysFields, Targets
      <4> HIDE DEF table
      <4>5. root'.crypttab = table' /\ t'.fde.auto = t.fde.auto
        BY <1>2, <1>3, <4>3
      <4> QED
        BY <1>2, <3>2, <4>2, <4>3, <4>4, <4>5 DEF WireInv, table
    <3> QED
      BY <3>3, <3>4
  <2> QED
    BY <2>2, <2>3
<1>5. CASE pc \in Sealed \ {"wire"}
  <2>1. root'.crypttab = root.crypttab /\ root'.key = root.key
    <3>1. CASE pc \notin Writing
      BY <1>1, <3>1 DEF Steady, Settled
    <3>2. CASE pc \in {"initramfs", "hash", "ukify", "loader", "sign"}
      BY <3>2, Leaves DEF RootFields
    <3> QED
      BY <1>5, <3>1, <3>2 DEF Writing, Sealed, Signable
  <2>2. sys'.keyed = sys.keyed
    BY <1>1, <1>5 DEF Sealed, Signable, DevicesSettled, SameSeals
  <2>3. pc' \in Sealed \ {"wire"}
    BY <1>5, Moves DEF Sealed, Signable
  <2>4. t.fde.enabled => /\ t.provider = "systemd-boot" /\ Rooted /\ root.crypttab = table
                         /\ t.fde.auto => root.key /\ sys.keyed = Targets
    BY <1>1, <1>5 DEF WireInv
  <2> HIDE DEF table
  <2>5. t'.fde.enabled => root'.crypttab = table'
    BY <1>2, <1>3, <2>1, <2>4
  <2> QED
    BY <1>2, <2>1, <2>2, <2>3, <2>4, <2>5 DEF WireInv, table
<1> QED
  BY <1>4, <1>5

\* The unified kernel image: of the options, of what was hashed, in the order it is made.
LEMMA UkiStays ==
  ASSUME StageInv, StandInInv, ShapeInv, Live => LoaderInv /\ UkiInv, InstallNext, Live' PROVE UkiInv'
<1>1. /\ Live /\ LoaderInv /\ UkiInv /\ Steady /\ ~Lost' /\ DOMAIN root = RootFields /\ ~job.unclean
      /\ Binaries \subseteq DOMAIN root.gen /\ DOMAIN sys = SysFields
  BY Lives DEF Live, ShapeInv, StageInv, SysFields
<1>2. t' = t /\ LastOptions' = LastOptions /\ Content' = Content
  BY Lives, Fixed
<1>3. Hashed' <=> (t.immutable => root'.hashed = LastOptions.pair /\ ~root'.stale)
  BY <1>2 DEF Hashed
<1>4. SUFFICES ASSUME t.provider = "systemd-boot" PROVE UkiInv'
  BY <1>2 DEF UkiInv
<1> DEFINE final == IF t.immutable THEN [LastOptions EXCEPT !.hash = LastOptions.pair] ELSE LastOptions
<1>5. CASE pc \notin {"initramfs", "verity", "hash", "ukify", "loader"} \cup Signable
  <2>1. pc' \notin {"verity", "hash", "ukify", "loader"} \cup Signable
    BY <1>4, <1>5, Moves DEF Sealed, Signable, Fresh, Untaken
  <2> QED
    BY <2>1 DEF UkiInv
<1>6. CASE pc = "initramfs"
  <2> DEFINE k == root.kernels[1]
             r == UpdateInitramfs(root, k, t)
  <2>1. r # Refused /\ root' = PrepareESPDir(r[1]) /\ pc' = IF t.immutable THEN "verity" ELSE "ukify"
    BY <1>1, <1>6, UkiTurns
  <2>2. root.gen["dracut"] # "dummy"
    BY <1>1, <1>6 DEF StandInInv, CleanRoot, Dummies, OnRoot, Binaries
  <2>3. r[1] = [root EXCEPT !.initramfs = Put(@, k, Content)]
    BY <2>1, <2>2 DEF UpdateInitramfs, Generated, Content
  <2>4. root'.initramfs = Put(root.initramfs, k, Content) /\ root'.kernels = root.kernels
    <3> HIDE DEF r, k
    <3> QED
      BY <1>1, <2>1, <2>3 DEF PrepareESPDir, RootFields
  <2>5. k \in DOMAIN root'.initramfs /\ root'.initramfs[k] = Content
    <3> HIDE DEF k
    <3> QED
      BY <2>4 DEF Put
  <2>6. pc' \notin {"hash", "loader"} \cup Signable
    BY <2>1 DEF Signable
  <2> QED
    BY <1>2, <1>3, <2>1, <2>4, <2>5, <2>6 DEF UkiInv
<1>7. CASE pc = "verity"
  <2>1. ExtractRootHashPH(root.cmdline[1]) # Refused /\ root' = root /\ sys'.ro = TRUE /\ pc' = "hash"
    BY <1>1, <1>7, UkiTurns
  <2>2. root.cmdline[1] = LastOptions
    BY <1>1, <1>4, <1>7 DEF LoaderInv
  <2>3. ExtractRootHashPH(LastOptions)' = ExtractRootHashPH(LastOptions)
    BY <1>2 DEF ExtractRootHashPH
  <2>4. root.kernels[1] \in DOMAIN root.initramfs /\ root.initramfs[root.kernels[1]] = Content
    BY <1>1, <1>4, <1>7 DEF UkiInv
  <2>5. pc' \notin {"ukify", "loader"} \cup Signable
    BY <2>1 DEF Signable
  <2> QED
    BY <1>2, <2>1, <2>2, <2>3, <2>4, <2>5 DEF UkiInv
<1>8. CASE pc = "hash"
  <2>1. root' = GetVerityRootHash(root, ExtractRootHashPH(root.cmdline[1])[1]) /\ sys' = sys /\ pc' = "ukify"
    BY <1>1, <1>8, UkiTurns
  <2>2. root.cmdline[1] = LastOptions
    BY <1>1, <1>4, <1>8 DEF LoaderInv
  <2>3. ExtractRootHashPH(LastOptions)[1] = LastOptions.pair
    BY <1>1, <1>4, <1>8 DEF UkiInv, ExtractRootHashPH
  <2>4. root'.hashed = LastOptions.pair /\ root'.stale = FALSE /\ root'.kernels = root.kernels /\ root'.initramfs = root.initramfs
    BY <1>1, <2>1, <2>2, <2>3 DEF GetVerityRootHash, RootFields
  <2>5. sys.ro /\ root.kernels[1] \in DOMAIN root.initramfs /\ root.initramfs[root.kernels[1]] = Content
    BY <1>1, <1>4, <1>8 DEF UkiInv
  <2>6. pc' \notin {"loader"} \cup Signable
    BY <2>1 DEF Signable
  <2> QED
    BY <1>2, <1>3, <2>1, <2>4, <2>5, <2>6 DEF UkiInv
<1>9. CASE pc = "ukify"
  <2> DEFINE options == IF t.immutable THEN ReplaceRootHashPH(root.cmdline[1], root.hashed) ELSE root.cmdline[1]
             built == BuildUKI(root, root.kernels[1], options, t)
  <2>1. built # Refused /\ root' = (IF t.immutable THEN WriteRoot(built[1], sys.ro) ELSE built[1]) /\ pc' = "loader"
    BY <1>1, <1>9, UkiTurns
  <2>2. root.cmdline[1] = LastOptions
    BY <1>1, <1>4, <1>9 DEF LoaderInv
  <2>3. /\ root.initramfs[root.kernels[1]] = Content /\ (t.immutable => sys.ro /\ root.hashed = LastOptions.pair /\ ~root.stale)
    BY <1>1, <1>4, <1>9 DEF UkiInv, Hashed
  <2>4. options = final
    BY <2>2, <2>3 DEF ReplaceRootHashPH
  <2> HIDE DEF options, final
  <2>5. t.arch \in UkifyStubs /\ built[1] = [root EXCEPT !.uki = <<[kernel |-> root.kernels[1], initramfs |-> Content, options |-> final]>>]
    BY <2>1, <2>3, <2>4 DEF BuildUKI
  <2> HIDE DEF built
  <2>6. /\ built[1].uki = <<[kernel |-> root.kernels[1], initramfs |-> Content, options |-> final]>>
        /\ built[1].hashed = root.hashed /\ built[1].stale = root.stale /\ DOMAIN built[1] = RootFields
    BY <1>1, <2>5 DEF RootFields
  <2>7. /\ root'.uki = built[1].uki /\ root'.hashed = root.hashed /\ (t.immutable => ~root'.stale)
    <3>1. CASE t.immutable
      <4>1. root' = [built[1] EXCEPT !.stale = @ \/ (~sys.ro /\ built[1].hashed # <<>>)]
        BY <2>1, <3>1 DEF WriteRoot
      <4> QED
        BY <2>3, <2>6, <3>1, <4>1 DEF RootFields
    <3>2. CASE ~t.immutable
      BY <2>1, <2>6, <3>2
    <3> QED
      BY <3>1, <3>2
  <2>8. root'.uki[1].initramfs = Content /\ root'.uki[1].options = final
    BY <2>6, <2>7
  <2>9. final = IF t.immutable THEN [LastOptions EXCEPT !.hash = root'.hashed] ELSE LastOptions
    BY <2>3, <2>7 DEF final
  <2>10. pc' \notin {"verity", "hash", "ukify"} \cup Signable
    BY <2>1 DEF Signable
  <2>11. Hashed'
    BY <1>3, <2>3, <2>7
  <2> QED
    BY <1>2, <2>1, <2>5, <2>8, <2>9, <2>10, <2>11 DEF UkiInv
<1>10. CASE pc \in {"loader"} \cup Signable
  <2>1. /\ t.arch \in UkifyStubs /\ Hashed /\ root.uki[1].initramfs = Content
        /\ root.uki[1].options = IF t.immutable THEN [LastOptions EXCEPT !.hash = root.hashed] ELSE LastOptions
    BY <1>1, <1>4, <1>10 DEF UkiInv
  <2>2. pc' \in Signable /\ (pc = "loader" => pc' = "sign")
    BY <1>10, Moves DEF Signable
  <2>3. root'.uki = root.uki /\ root'.hashed = root.hashed /\ root'.stale = root.stale
    <3>1. CASE pc \in {"loader", "sign"}
      BY <3>1, Leaves DEF RootFields
    <3>2. CASE pc \notin {"loader", "sign"}
      BY <1>1, <1>10, <3>2 DEF Steady, Settled, Writing, Signable
    <3> QED
      BY <3>1, <3>2
  <2>4. Hashed'
    BY <1>3, <2>1, <2>3 DEF Hashed
  <2>5. root'.loader = IF t.arch = "x86_64" THEN "BOOTX64" ELSE "BOOTAA64"
    <3>1. CASE pc = "loader"
      <4>1. root' = CopyBootloader(root, t)
        BY <1>1, <3>1, UkiTurns
      <4> QED
        BY <1>1, <2>1, <4>1 DEF CopyBootloader, UkifyStubs, RootFields
    <3>2. CASE pc # "loader"
      <4>1. root.loader = IF t.arch = "x86_64" THEN "BOOTX64" ELSE "BOOTAA64"
        BY <1>1, <1>4, <1>10, <3>2 DEF UkiInv
      <4>2. CASE pc = "sign"
        BY <4>1, <4>2, Leaves DEF RootFields
      <4>3. CASE pc # "sign"
        BY <1>1, <1>10, <3>2, <4>1, <4>3 DEF Steady, Settled, Writing, Signable
      <4> QED
        BY <4>2, <4>3
    <3> QED
      BY <3>1, <3>2
  <2>6. pc' # "sign" /\ t.immutable /\ t.keys => root'.signed = {"uki", "loader"}
    <3>1. CASE pc = "sign"
      <4>1. SignImage(root, t) # Refused /\ root' = SignImage(root, t)[1]
        BY <1>1, <3>1, UkiTurns
      <4> QED
        BY <1>1, <4>1 DEF SignImage, RootFields
    <3>2. CASE pc \notin {"loader", "sign"}
      <4>1. root'.signed = root.signed
        BY <1>1, <1>10, <3>2 DEF Steady, Settled, Writing, Signable
      <4> QED
        BY <1>1, <1>4, <1>10, <3>2, <4>1 DEF UkiInv
    <3> QED
      BY <2>2, <3>1, <3>2
  <2>7. pc' \notin {"verity", "hash", "ukify", "loader"}
    BY <2>2 DEF Signable
  <2> QED
    BY <1>2, <2>1, <2>2, <2>3, <2>4, <2>5, <2>6, <2>7 DEF UkiInv
<1> QED
  BY <1>5, <1>6, <1>7, <1>8, <1>9, <1>10

LEMMA BootStays ==
  ASSUME InstallInv, MadeInv, BootInv, InstallNext PROVE BootInv'
<1>1. StageInv /\ StandInInv /\ ShapeInv /\ Steady /\ (Live => DevInv /\ DepInv /\ FstabInv /\ LoaderInv /\ WireInv /\ UkiInv)
  BY AllSteady DEF InstallInv, BootInv
<1>2. ShapeInv'
  BY <1>1 DEF Steady, ShapeInv
<1>3. Live' => DevInv' /\ DepInv' /\ FstabInv' /\ LoaderInv' /\ WireInv' /\ UkiInv'
  BY <1>1, DevStays, DepStays, FstabStays, LoaderStays, WireStays, UkiStays
<1> QED
  BY <1>2, <1>3 DEF BootInv

LEMMA BootStutters ==
  ASSUME BootInv, UNCHANGED installVars PROVE BootInv'
<1>1. world' = world /\ sys' = sys /\ job' = job /\ root' = root /\ pc' = pc
  BY DEF installVars, diskVars, imageVars
<1>2. /\ t' = t /\ Parts' = Parts /\ IsDisk' = IsDisk /\ PlainLayout' = PlainLayout
      /\ Ids' = Ids /\ Rooted' = Rooted /\ HashKept' = HashKept /\ RootId' = RootId /\ Targets' = Targets /\ FdeSealed' = FdeSealed
      /\ FirstOptions' = FirstOptions /\ LastOptions' = LastOptions /\ Content' = Content
  BY <1>1, Fixed
<1>3. ShapeInv' /\ (Live' => Live)
  BY <1>1, <1>2 DEF BootInv, ShapeInv, Live, Lost
<1>4. DevInv => DevInv'
  BY <1>1, <1>2 DEF DevInv
<1>5. DepInv => DepInv'
  BY <1>1 DEF DepInv
<1>6. FstabInv => FstabInv'
  BY <1>1, <1>2 DEF FstabInv, MountedAs
<1>7. GrubSet(root)' <=> GrubSet(root)
  BY <1>1, <1>2 DEF GrubSet
<1>8. LoaderInv => LoaderInv'
  BY <1>1, <1>2, <1>7 DEF LoaderInv
<1>9. WireInv => WireInv'
  BY <1>1, <1>2 DEF WireInv, FdeCrypttabEntry
<1>10. Hashed' <=> Hashed
  BY <1>1, <1>2 DEF Hashed
<1>11. UkiInv => UkiInv'
  BY <1>1, <1>2, <1>10 DEF UkiInv, ExtractRootHashPH
<1> QED
  BY <1>3, <1>4, <1>5, <1>6, <1>8, <1>9, <1>11 DEF BootInv

LEMMA BootStart == ASSUME ImageInit PROVE BootInv
<1>1. /\ root.gen = t.gen /\ sys.crypt = {} /\ root.kernels = <<>> /\ root.modules = <<>> /\ root.fstab = {}
      /\ root.cmdline = <<>> /\ root.initramfs = <<>> /\ root.crypttab = {} /\ DOMAIN root = RootFields
  <2>1. DOMAIN root = RootFields
    BY DEF ImageInit, RootFields
  <2> QED
    BY <2>1 DEF ImageInit, t
<1>6. world \in Worlds /\ pc \in {"select", "check", "image"}
  BY DEF ImageInit, DiskInit
<1>2. ShapeInv
  BY <1>1, <1>6, TemplateAssumption DEF ShapeInv, Binaries, t
<1>3. pc \in Unlisted /\ pc \in Unsealed /\ pc \in Untaken /\ pc \in Fresh /\ pc \notin Sealed
  BY <1>6 DEF Unlisted, Unsealed, Untaken, Fresh, Sealed, Signable
<1>4. DevInv /\ FstabInv /\ WireInv /\ LoaderInv
  BY <1>1, <1>3, <1>6 DEF DevInv, FstabInv, WireInv, LoaderInv
<1>5. DepInv /\ UkiInv
  BY <1>1, <1>3, <1>6 DEF DepInv, UkiInv, Sealed, Signable
<1> QED
  BY <1>2, <1>4, <1>5 DEF BootInv

LEMMA BootKept == InstallSpec => []BootInv
<1>1. ImageInit => BootInv
  BY BootStart
<1>2. InstallInv /\ DisksInv /\ BootInv /\ [InstallNext]_installVars => BootInv'
  BY BootStays, BootStutters DEF DisksInv
<1> QED
  BY <1>1, <1>2, Invariant, DisksKept, PTL DEF InstallSpec

\* An image that is installed: what its kernel is told of the root leads there.
LEMMA RootIsReached ==
  ASSUME world \in Worlds, PlainLayout, Rooted, t.immutable => HashKept /\ Hashed,
         NEW options, options = IF t.immutable THEN [LastOptions EXCEPT !.hash = root.hashed] ELSE LastOptions,
         t.cmdlineRoot = "" \/ t.immutable, sys.crypt = FdeSealed, t.fde.enabled /\ t.fde.auto => root.key /\ sys.keyed = Targets,
         NEW initramfs, t.immutable => "verity" \in initramfs,
         t.fde.enabled => "crypt" \in initramfs /\ (t.fde.auto => "key" \in initramfs)
  PROVE  RootReached(options, initramfs) /\ options.luks = LastOptions.luks
<1> DEFINE device == NameOf(Behind(FdeSealed))
           names == {<<"partuuid", RootId>>, <<"mapper", RootId>>}
           reached(d) == /\ d \in names /\ AtBoot(d, options.luks)
                         /\ d[1] = "mapper" => "crypt" \in initramfs /\ (IsFDEAutoUnlock(t) => "key" \in initramfs)
<1>1. LastOptions.luks = {FdeLuksCmdlineParams(id, t.fde.auto) : id \in FdeSealed \cap {RootId}}
  BY DEF LastOptions, Options
<1>2. /\ LastOptions.root = IF t.immutable THEN <<"mapper", "root">> ELSE device
      /\ LastOptions.verity = IF t.immutable THEN <<device, <<"partuuid", HashId>>>> ELSE <<>>
      /\ LastOptions.pair = IF t.immutable THEN <<Behind(FdeSealed), <<"part", HashId>>>> ELSE <<>>
      /\ DOMAIN LastOptions = {"root", "verity", "pair", "hash", "luks"}
  BY DEF LastOptions, Options
<1>3. options.luks = LastOptions.luks /\ options.root = LastOptions.root /\ options.verity = LastOptions.verity
      /\ (t.immutable => options.hash = root.hashed)
  BY <1>2
<1>4. reached(device)
  <2>1. CASE RootId \in FdeSealed
    <3>1. device = <<"mapper", RootId>>
      BY <2>1 DEF NameOf, Behind
    <3>2. t.fde.enabled /\ RootId \in Targets
      BY <2>1 DEF FdeSealed
    <3>3. FdeLuksCmdlineParams(RootId, t.fde.auto) \in options.luks
      BY <1>1, <1>3, <2>1
    <3>4. Opens(options.luks, RootId)
      BY <3>2, <3>3 DEF Opens, FdeLuksCmdlineParams
    <3>5. AtBoot(<<"mapper", RootId>>, options.luks)
      BY <2>1, <3>4 DEF AtBoot
    <3> QED
      BY <3>1, <3>2, <3>5 DEF IsFDEAutoUnlock
  <2>2. CASE RootId \notin FdeSealed
    <3>1. device = <<"partuuid", RootId>>
      BY <2>2 DEF NameOf, Behind
    <3>2. AtBoot(<<"partuuid", RootId>>, options.luks)
      BY <2>2 DEF AtBoot
    <3>3. device[1] # "mapper"
      BY <2>2 DEF NameOf, Behind
    <3>4. device \in names /\ AtBoot(device, options.luks)
      BY <3>1, <3>2
    <3> HIDE DEF device, names
    <3> QED
      BY <3>3, <3>4
  <2> QED
    BY <2>1, <2>2
<1>5. RootReached(options, initramfs) <=>
        IF ~t.immutable THEN reached(options.root)
        ELSE /\ options.root = <<"mapper", "root">> /\ "verity" \in initramfs
             /\ reached(options.verity[1]) /\ AtBoot(options.verity[2], {})
             /\ options.hash = root.hashed /\ ~root.stale
             /\ <<NameOf(root.hashed[1]), NameOf(root.hashed[2])>> = options.verity
  BY DEF RootReached, RootId
<1> HIDE DEF reached, device
<1>6. CASE ~t.immutable
  BY <1>2, <1>3, <1>4, <1>5, <1>6
<1>7. CASE t.immutable
  <2>1. options.verity[1] = device /\ options.verity[2] = <<"partuuid", HashId>>
    BY <1>2, <1>3, <1>7
  <2>2. AtBoot(<<"partuuid", HashId>>, {})
    <3>1. PICK h \in Range(Parts) : h.mount = "none"
      BY <1>7 DEF HashKept
    <3>2. HashId \notin Targets
      BY <1>7, <3>1, PlainHash
    <3>3. HashId \notin sys.crypt
      BY <3>2 DEF FdeSealed
    <3> QED
      BY <3>3 DEF AtBoot
  <2>3. root.hashed = LastOptions.pair /\ ~root.stale
    BY <1>7 DEF Hashed
  <2>4. root.hashed[1] = Behind(FdeSealed) /\ root.hashed[2] = <<"part", HashId>>
    BY <1>2, <1>7, <2>3
  <2>5. NameOf(<<"part", HashId>>) = <<"partuuid", HashId>>
    BY DEF NameOf
  <2>6. <<NameOf(root.hashed[1]), NameOf(root.hashed[2])>> = options.verity
    BY <1>2, <1>3, <1>7, <2>4, <2>5 DEF device
  <2>7. options.root = <<"mapper", "root">> /\ options.hash = root.hashed
    BY <1>2, <1>3, <1>7
  <2> QED
    BY <1>4, <1>5, <1>7, <2>1, <2>2, <2>3, <2>6, <2>7
<1> QED
  BY <1>3, <1>6, <1>7

\* What the fstab lists is found.
LEMMA FstabFound ==
  ASSUME world \in Worlds, PlainLayout, Rooted, sys.crypt = FdeSealed,
         t.fde.enabled =>
            /\ root.crypttab = {FdeCrypttabEntry(id, t.fde.auto) : id \in {x \in Targets : x # RootId \/ t.fde.auto}}
            /\ t.fde.auto => root.key /\ sys.keyed = Targets,
         NEW e, MountedAs(e), e.mount # "/"
  PROVE  AtBoot(e.source, root.crypttab)
<1>1. CASE e.source[1] \in {"tmpfs", "bind"}
  BY <1>1 DEF AtBoot
<1>2. ASSUME NEW p \in Range(Parts), e.mount = p.mount,
             e.source = IF t.fde.enabled /\ p.id \in Range(t.fde.partitions) /\ p.mount # "/"
                        THEN <<"mapper", p.id>> ELSE <<"partuuid", p.id>>
      PROVE  AtBoot(e.source, root.crypttab)
  <2>1. p.id # RootId /\ p.mount # "/"
    BY <1>2, PlainIds
  <2>2. Range(<<RootId>>) = {RootId} /\ Range(<<>>) = {}
    BY DEF Range
  <2>3. CASE t.fde.enabled /\ p.id \in Range(t.fde.partitions)
    <3>1. p.id \in Targets
      BY <2>2, <2>3 DEF Targets, FdeTargetPartitionIDs
    <3>2. FdeCrypttabEntry(p.id, t.fde.auto) \in root.crypttab
      BY <2>1, <2>3, <3>1
    <3>3. Opens(root.crypttab, p.id)
      BY <2>3, <3>1, <3>2 DEF Opens, FdeCrypttabEntry
    <3>4. AtBoot(<<"mapper", p.id>>, root.crypttab)
      BY <2>3, <3>1, <3>3 DEF AtBoot, FdeSealed
    <3> QED
      BY <1>2, <2>1, <2>3, <3>4
  <2>4. CASE ~(t.fde.enabled /\ p.id \in Range(t.fde.partitions))
    <3>1. t.fde.enabled => p.id \notin Targets
      BY <2>1, <2>2, <2>4 DEF Targets, FdeTargetPartitionIDs, RootId
    <3>2. p.id \notin sys.crypt
      BY <3>1 DEF FdeSealed
    <3>3. AtBoot(<<"partuuid", p.id>>, root.crypttab)
      BY <3>2 DEF AtBoot
    <3> QED
      BY <1>2, <2>4, <3>3
  <2> QED
    BY <2>3, <2>4
<1> QED
  BY <1>1, <1>2 DEF MountedAs

\* What is encrypted is opened, the root by the options, what else by the crypttab.
LEMMA AllOpen ==
  ASSUME sys.crypt = FdeSealed, t.fde.enabled,
         root.crypttab = {FdeCrypttabEntry(id, t.fde.auto) : id \in {x \in Targets : x # RootId \/ t.fde.auto}},
         t.fde.auto => root.key /\ sys.keyed = Targets, NEW id \in sys.crypt
  PROVE  Opens(root.crypttab \cup LastOptions.luks, id)
<1>1. id \in Targets
  BY DEF FdeSealed
<1>2. CASE id = RootId
  <2>1. FdeLuksCmdlineParams(id, t.fde.auto) \in LastOptions.luks
    BY <1>2 DEF LastOptions, Options
  <2> QED
    BY <1>1, <2>1 DEF Opens, FdeLuksCmdlineParams
<1>3. CASE id # RootId
  <2>1. FdeCrypttabEntry(id, t.fde.auto) \in root.crypttab
    BY <1>1, <1>3
  <2>2. Opens(root.crypttab, id)
    BY <1>1, <2>1 DEF Opens, FdeCrypttabEntry
  <2> QED
    BY <2>2 DEF Opens
<1> QED
  BY <1>2, <1>3

LEMMA InstalledBoots ==
  ASSUME StageInv, TreeInv, BootInv, IsDisk, Installed, ~job.unclean, BootSupported
  PROVE  BootReachesRoot
<1>1. pc \in Signable \ {"sign"} /\ ~Lost
  BY DEF Installed, Signable, Lost
<1>2. Live /\ PlainLayout /\ (t.provider = "grub" => ~t.immutable /\ Len(root.kernels) = 1) /\ world \in Worlds
      /\ (t.cmdlineRoot = "" \/ t.immutable)
  BY <1>1 DEF Live, BootSupported, StageInv
<1>3. pc \in Sealed \ {"wire"} /\ pc \notin Fresh \cup {"kernels", "dkms", "depmod"} /\ pc \notin Unlisted \cup {"boot"}
  BY <1>1 DEF Sealed, Signable, Fresh, Untaken, Unlisted
<1>4. sys.crypt = FdeSealed
  BY <1>2, <1>3 DEF BootInv, DevInv
<1>5. /\ t.provider \in {"grub", "systemd-boot"} /\ Rooted /\ (t.immutable => HashKept)
      /\ t.provider = "grub" => GrubSet(root)
  BY <1>2, <1>3 DEF BootInv, LoaderInv
<1>6. t.fde.enabled =>
        /\ t.provider = "systemd-boot"
        /\ root.crypttab = {FdeCrypttabEntry(id, t.fde.auto) : id \in {x \in Targets : x # RootId \/ t.fde.auto}}
        /\ t.fde.auto => root.key /\ sys.keyed = Targets
  BY <1>2, <1>3 DEF BootInv, WireInv
<1>7. \A k \in Range(root.kernels) : k \in DOMAIN root.modules => root.modules[k].dep
  BY <1>2, <1>3 DEF BootInv, DepInv
<1>8. \A e \in root.fstab : e.mount # "/" => AtBoot(e.source, root.crypttab)
  <2>1. \A e \in root.fstab : MountedAs(e)
    BY <1>2, <1>3 DEF BootInv, FstabInv
  <2> QED
    BY <1>2, <1>4, <1>5, <1>6, <2>1, FstabFound
<1>9. t.provider = "systemd-boot" =>
        /\ Hashed /\ root.uki[1].initramfs = Content /\ t.arch \in UkifyStubs
        /\ root.uki[1].options = IF t.immutable THEN [LastOptions EXCEPT !.hash = root.hashed] ELSE LastOptions
        /\ root.loader = IF t.arch = "x86_64" THEN "BOOTX64" ELSE "BOOTAA64"
        /\ t.immutable /\ t.keys => root.signed = {"uki", "loader"}
  BY <1>1, <1>2 DEF BootInv, UkiInv
<1>10. CASE t.provider = "systemd-boot"
  <2>1. /\ t.immutable => "verity" \in Content
        /\ t.fde.enabled => "crypt" \in Content /\ (t.fde.auto => "key" \in Content)
        /\ t.extra => "extra" \in Content
    BY DEF Content, IsFDEAutoUnlock
  <2>2. RootReached(root.uki[1].options, Content) /\ root.uki[1].options.luks = LastOptions.luks
    <3> DEFINE options == root.uki[1].options
    <3>1. options = IF t.immutable THEN [LastOptions EXCEPT !.hash = root.hashed] ELSE LastOptions
      BY <1>9, <1>10
    <3>2. (t.immutable => HashKept /\ Hashed) /\ (t.fde.enabled /\ t.fde.auto => root.key /\ sys.keyed = Targets)
      BY <1>5, <1>6, <1>9, <1>10
    <3> HIDE DEF options
    <3>3. RootReached(options, Content) /\ options.luks = LastOptions.luks
      BY <1>2, <1>4, <1>5, <2>1, <3>1, <3>2, RootIsReached
    <3> QED
      BY <3>3 DEF options
  <2>3. \A id \in sys.crypt : Opens(root.crypttab \cup root.uki[1].options.luks, id)
    <3>1. ASSUME NEW id \in sys.crypt PROVE Opens(root.crypttab \cup LastOptions.luks, id)
      <4>1. t.fde.enabled
        BY <1>4, <3>1 DEF FdeSealed
      <4> QED
        BY <1>4, <1>6, <3>1, <4>1, AllOpen
    <3> QED
      BY <2>2, <3>1
  <2> QED
    BY <1>7, <1>8, <1>9, <1>10, <2>1, <2>2, <2>3 DEF BootReachesRoot
<1>11. CASE t.provider = "grub"
  <2> DEFINE boots == {p.id : p \in {x \in Range(Parts) : x.mount = "/boot"}}
  <2>1. ~t.fde.enabled /\ ~t.immutable /\ Len(root.kernels) = 1 /\ FdeSealed = {} /\ t.provider # "systemd-boot"
    BY <1>2, <1>6, <1>11 DEF FdeSealed
  <2>2. /\ root.defaultGrub = <<FirstOptions>> /\ root.grubCfg[1].kernels = root.kernels
        /\ t.bootType = "efi" =>
             /\ root.grubStub[1].boot \in (IF boots = {} THEN {RootId} ELSE boots)
             /\ root.grubStub[1].prefix = (IF boots = {} THEN "/boot" ELSE "")
             /\ root.grubStub[1].version = root.grubCfg[1].version
        /\ t.deb => DOMAIN root.initramfs = {root.kernels[1]}
    BY <1>5, <1>11 DEF GrubSet
  <2>3. Range(root.kernels) = {root.kernels[1]}
    <3>1. DOMAIN root.kernels = {1}
      BY <2>1 DEF TreeInv, IsList
    <3> QED
      BY <3>1 DEF Range
  <2>4. RootReached(root.defaultGrub[1], {})
    <3>1. root.defaultGrub[1] = LastOptions
      <4>1. root.defaultGrub[1] = FirstOptions
        <5>1. root.defaultGrub = <<FirstOptions>>
          BY <2>2
        <5> QED
          BY <5>1
      <4>2. FirstOptions = LastOptions
        BY <2>1 DEF LastOptions, FirstOptions
      <4> QED
        BY <4>1, <4>2
    <3> DEFINE options == LastOptions
    <3>2. options = IF t.immutable THEN [LastOptions EXCEPT !.hash = root.hashed] ELSE LastOptions
      BY <2>1
    <3> HIDE DEF options
    <3>3. RootReached(options, {})
      BY <1>2, <1>4, <1>5, <2>1, <3>2, RootIsReached
    <3> QED
      BY <3>1, <3>3 DEF options
  <2>5. sys.crypt = {}
    BY <1>4, <2>1
  <2>6. t.deb => DOMAIN root.initramfs = Range(root.kernels)
    BY <2>2, <2>3
  <2> HIDE DEF boots
  <2>7. LET bs == {p.id : p \in {x \in Range(Parts) : x.mount = "/boot"}}
        IN  t.bootType = "efi" =>
             /\ root.grubStub[1].boot \in (IF bs = {} THEN {FdeRootPartitionID(Parts)} ELSE bs)
             /\ root.grubStub[1].prefix = (IF bs = {} THEN "/boot" ELSE "")
             /\ root.grubStub[1].version = root.grubCfg[1].version
    BY <2>2 DEF boots, RootId
  <2> QED
    BY <1>7, <1>8, <2>1, <2>2, <2>4, <2>5, <2>6, <2>7 DEF BootReachesRoot
<1> QED
  BY <1>5, <1>10, <1>11

(* Every image that is reported installed starts, for every template and       *)
(* layout BootSupported takes: the loader's configuration or the UKI has       *)
(* options that lead through what was encrypted and hashed to the root, and an *)
(* initramfs that can follow them, all else that is encrypted or mounted is    *)
(* found by the crypttab and the fstab, and nothing is written to the root     *)
(* after its hash is taken (stages of InstallImageOs from its boot loader on). *)
THEOREM BootLeadsToRoot == InstallSpec => []BootReachesRoot
<1>1. InstallInv /\ LaterInv /\ BootInv => BootReachesRoot
  BY InstalledBoots DEF InstallInv, LaterInv, BootReachesRoot
<1> QED
  BY <1>1, Invariant, LaterKept, BootKept, PTL
=============================================================================
