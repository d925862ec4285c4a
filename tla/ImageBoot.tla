----------------------------- MODULE ImageBoot -----------------------------
(* How the image starts: the kernels in its /boot, the initramfs of each,    *)
(* and what the boot loader passes them.                                     *)
(*                                                                           *)
(* root is the image.  Of its fields, kernels is the sequence of /boot, by    *)
(* name; modules each kernel's [vmlinuz, dep] in /lib/modules; gen each       *)
(* command's state, "real", "dummy" or "absent"; initramfs what that of a     *)
(* kernel holds; defaultGrub, cmdline the options written, if they are;       *)
(* grubStub, grubCfg GRUB's two files.  A device is <<"part", id>> or         *)
(* <<"mapper", name>>, its name in the options <<"partuuid", id>>.            *)
EXTENDS Lists

(* The partitions mounted there that have a device, in whatever order. *)
GetDiskPartByMountPoint(mount, dev, parts) ==
    {p.id : p \in {x \in Range(parts) : x.mount = mount /\ x.id \in DOMAIN dev}}

Exists(root, command) == root.gen[command] # "absent"

GetGrubVersion(root) ==
    IF Exists(root, "grub2-mkconfig") THEN <<"grub2">>
    ELSE IF Exists(root, "grub-mkconfig") \/ Exists(root, "update-grub") THEN <<"grub">>
    ELSE Refused

GrubEfiTargets == {"x86_64", "aarch64"}

(* GRUB looks for its configuration on the partition of /boot; Debian's own   *)
(* loader goes beside the stub.                                              *)
InstallGrubWithEfiMode(root, boot, prefix, version, t) ==
    IF t.deb /\ t.arch \notin GrubEfiTargets THEN Refused
    ELSE <<[root EXCEPT !.grubStub = <<[boot |-> boot, prefix |-> prefix, version |-> version]>>]>>

UpdateGrubConfig(root, version) == [root EXCEPT !.grubCfg = <<[version |-> version, kernels |-> root.kernels]>>]

-----------------------------------------------------------------------------
ListInstalledKernelVersions(root) == root.kernels
GetKernelVersionFromBoot(root) == IF root.kernels = <<>> THEN Refused ELSE <<root.kernels[1]>>

EnsureKernelModuleDependencies(root, k) ==
    IF k \notin DOMAIN root.modules THEN Refused ELSE <<[root EXCEPT !.modules[k].dep = TRUE]>>

EnsureDepmodForBootKernels(root) ==
    LET kernels == Range(ListInstalledKernelVersions(root))
        found(k) == [root.modules[k] EXCEPT !.dep = @ \/ k \in kernels]
    IN  IF ~(kernels \subseteq DOMAIN root.modules) THEN Refused
        ELSE <<[root EXCEPT !.modules = [k \in DOMAIN @ |-> found(k)]]>>

(* What a package's script would have made: a kernel that is not in /boot is  *)
(* linked there - but only while none is.                                    *)
FixKernelSymlinks(root) ==
    LET made == {k \in DOMAIN root.modules : root.modules[k].vmlinuz}
        sorted == {s \in [1 .. Cardinality(made) -> made] : \A i, j \in DOMAIN s : i < j => s[i] < s[j]}
    IN  IF root.kernels # <<>> THEN {root} ELSE {[root EXCEPT !.kernels = s] : s \in sorted}

(* A generator that is a dummy makes nothing. *)
Generated(root, generator, k, content) ==
    IF root.gen[generator] = "dummy" THEN root ELSE [root EXCEPT !.initramfs = Put(@, k, content)]

(* Of the first kernel by name, with the modules asked for. *)
UpdateInitramfsForGrub(root, k, t) ==
    LET r == EnsureKernelModuleDependencies(root, k)
        content == {"base"} \cup IF t.extra THEN {"extra"} ELSE {}
    IN  IF r = Refused THEN Refused
        ELSE IF Exists(root, "update-initramfs") THEN <<Generated(r[1], "update-initramfs", k, content)>>
        ELSE IF Exists(root, "dracut") THEN <<Generated(r[1], "dracut", k, content)>>
        ELSE Refused

-----------------------------------------------------------------------------
(* The options of the kernel.  An immutable root is behind verity; else it is *)
(* the partition, or what the template's own options say.                    *)
UpdateBootConfigTemplate(root, rootId, hashId, pair, t) ==
    LET options == [root   |-> IF t.immutable THEN <<"mapper", "root">>
                               ELSE IF t.cmdlineRoot # "" THEN <<"user", t.cmdlineRoot>> ELSE <<"partuuid", rootId>>,
                    verity |-> IF t.immutable /\ hashId # "" THEN <<<<"partuuid", rootId>>, <<"partuuid", hashId>>>> ELSE <<>>,
                    pair   |-> IF t.immutable THEN pair ELSE <<>>,
                    hash   |-> <<>>,
                    luks   |-> {}]
    IN  CASE t.provider = "grub"         -> <<[root EXCEPT !.defaultGrub = <<options>>]>>
          [] t.provider = "systemd-boot" -> <<[root EXCEPT !.cmdline = <<options>>]>>
          [] OTHER                       -> Refused

InstallGrub(root, rootId, boot, prefix, t) ==
    LET version == GetGrubVersion(root)
        stub == IF version = Refused THEN Refused
                ELSE IF t.bootType = "efi" THEN InstallGrubWithEfiMode(root, boot, prefix, version[1], t)
                ELSE IF t.bootType = "legacy" THEN Refused
                ELSE <<root>>
        options == IF stub = Refused THEN Refused ELSE UpdateBootConfigTemplate(stub[1], rootId, "", <<>>, t)
        kernel == GetKernelVersionFromBoot(root)
        ready == IF options = Refused THEN Refused
                 ELSE IF ~t.deb THEN options
                 ELSE IF kernel = Refused THEN Refused
                 ELSE UpdateInitramfsForGrub(options[1], kernel[1], t)
    IN  IF ready = Refused THEN Refused ELSE <<UpdateGrubConfig(ready[1], version[1])>>

(* With an immutable root, the options hold the pair of devices the hash is   *)
(* made of, until there is one.                                              *)
InstallSystemdBoot(root, rootId, dev, t, parts) ==
    LET hashes == GetDiskPartByMountPoint("none", dev, parts)
        options == IF ~t.immutable THEN {UpdateBootConfigTemplate(root, rootId, "", <<>>, t)}
                   ELSE {UpdateBootConfigTemplate(root, rootId, h, <<dev[rootId], dev[h]>>, t) : h \in hashes}
    IN  IF t.bootType # "efi" THEN {} ELSE {r[1] : r \in options \ {Refused}}

(* What the image may be then; none when it is refused. *)
InstallImageBoot(root, dev, t, parts) ==
    LET roots == GetDiskPartByMountPoint("/", dev, parts)
        boots == GetDiskPartByMountPoint("/boot", dev, parts)
        grub(r) == IF boots = {} THEN {InstallGrub(root, r, r, "/boot", t)}
                   ELSE {InstallGrub(root, r, b, "", t) : b \in boots}
    IN  CASE t.provider = "grub"         -> {x[1] : x \in (UNION {grub(r) : r \in roots}) \ {Refused}}
          [] t.provider = "systemd-boot" -> UNION {InstallSystemdBoot(root, r, dev, t, parts) : r \in roots}
          [] OTHER                       -> {}
=============================================================================
