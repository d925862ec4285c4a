---------------------------- MODULE ImageSecure ----------------------------
(* What protects the image: partitions encrypted, a root behind verity, a    *)
(* unified kernel image (UKI) that says how both are opened, and its          *)
(* signature.  They are put on an image that is complete otherwise.          *)
(*                                                                           *)
(* Of the image: fstab, the set of its [source, mount]; crypttab, that of     *)
(* its [name, key]; key, whether the key file is in it; uki, <<[kernel,    *)
(* initramfs, options]>>; loader, the name it has on the ESP; hashed, the     *)
(* <<data, hash>> devices its hash tree was made of, and stale, whether the   *)
(* root was written to since; signed, what is.  An fde section is [enabled,   *)
(* auto, partitions, passphrase].                                            *)
EXTENDS ImageBoot

IsSwapFsType(fs) == fs \in {"swap", "linux-swap"}
IsNonMountablePartition(p) == p.mount \in {"", "none"} \/ IsSwapFsType(p.fs)

IsFDEAutoUnlock(t) == t.fde.enabled /\ t.fde.auto

FdeRootPartitionID(parts) ==
    LET roots == {i \in DOMAIN parts : parts[i].mount = "/"} IN IF roots = {} THEN "" ELSE parts[Min(roots)].id
FdeTargetPartitionIDs(t, parts) ==
    IF t.fde.partitions # <<>> THEN t.fde.partitions
    ELSE IF FdeRootPartitionID(parts) = "" THEN <<>> ELSE <<FdeRootPartitionID(parts)>>

(* Of a hash partition the name counts before the mount point. *)
FdeHashPartitionDev(dev, parts) ==
    LET known == {i \in DOMAIN parts : parts[i].id \in DOMAIN dev}
        named == {i \in known : parts[i].id \in {"roothashmap", "hash"}}
        none == {i \in known : parts[i].mount = "none"}
        hash == IF named # {} THEN named ELSE none
    IN  IF hash = {} THEN <<>> ELSE dev[parts[Min(hash)].id]

(* Before anything is encrypted: what will be is named by its mapper, but for *)
(* the root, which the kernel's options find.                                *)
UpdateImageFstab(root, dev, t, parts) ==
    LET entry(p) == [mount |-> p.mount,
                     source |-> IF t.fde.enabled /\ p.id \in Range(t.fde.partitions) /\ p.mount # "/"
                                THEN <<"mapper", p.id>> ELSE <<"partuuid", p.id>>]
        listed == {p \in Range(parts) : p.id \in DOMAIN dev /\ (IsSwapFsType(p.fs) \/ p.mount \notin {"", "none"})}
    IN  [root EXCEPT !.fstab = @ \cup {entry(p) : p \in listed}]

(* What an immutable image still writes lies under /opt. *)
ConfigImageSecurity(root, t) ==
    IF ~t.immutable THEN root
    ELSE [root EXCEPT !.fstab = @ \cup {[source |-> <<"tmpfs", "">>, mount |-> "/tmp"], [source |-> <<"tmpfs", "">>, mount |-> "/run"],
                                        [source |-> <<"bind", "/opt/home">>, mount |-> "/home"],
                                        [source |-> <<"bind", "/opt/var">>, mount |-> "/var"]}]

-----------------------------------------------------------------------------
FdeLuksCmdlineParams(id, auto) == [name |-> id, key |-> auto]
FdeCrypttabEntry(id, auto) == [name |-> id, key |-> auto]

(* Mutant: verity is left the partition the root was. *)
FdeRewriteRootOnly(options, rootMapper, hashDev, t, luks) ==
    LET rewritten ==
            IF rootMapper = <<>> THEN <<options>>
            ELSE IF ~t.immutable THEN <<[options EXCEPT !.root = rootMapper]>>
            ELSE IF options.pair # <<>> /\ hashDev = <<>> THEN Refused
            ELSE <<[options EXCEPT !.pair = <<rootMapper, hashDev>>]>>
    IN  IF rewritten = Refused THEN Refused ELSE <<[rewritten[1] EXCEPT !.luks = luks]>>
(* An encrypted root is its mapper, to the kernel or to verity. *)
FdeRewriteCmdlineFields(options, rootMapper, hashDev, t, luks) ==
    LET rewritten ==
            IF rootMapper = <<>> THEN <<options>>
            ELSE IF ~t.immutable THEN <<[options EXCEPT !.root = rootMapper]>>
            ELSE IF options.pair # <<>> /\ hashDev = <<>> THEN Refused
            ELSE <<[options EXCEPT !.pair = <<rootMapper, hashDev>>,
                                                                              !.verity = IF @ = <<>> THEN @ ELSE <<rootMapper, @[2]>>]>>
    IN  IF rewritten = Refused THEN Refused ELSE <<[rewritten[1] EXCEPT !.luks = luks]>>

(* The root is opened by the kernel's options, the others - and a root with a *)
(* key, for its initramfs - by the crypttab.                                 *)
FdeCollectBootParams(targets, rootId, auto) ==
    [luks     |-> {FdeLuksCmdlineParams(id, auto) : id \in targets \cap {rootId}},
     crypttab |-> {FdeCrypttabEntry(id, auto) : id \in {x \in targets : x # rootId \/ auto}}]

WireFDEBoot(root, dev, t, parts) ==
    LET targets == FdeTargetPartitionIDs(t, parts)
        rootId == FdeRootPartitionID(parts)
        params == FdeCollectBootParams(Range(targets), rootId, t.fde.auto)
        options == IF targets = <<>> \/ ~(Range(targets) \subseteq DOMAIN dev) \/ root.cmdline = <<>> THEN Refused
                   ELSE FdeRewriteCmdlineFields(root.cmdline[1], IF rootId \in Range(targets) THEN dev[rootId] ELSE <<>>,
                                                FdeHashPartitionDev(dev, parts), t, params.luks)
    IN  IF ~t.fde.enabled THEN <<root>>
        ELSE IF options = Refused THEN Refused
        ELSE <<[root EXCEPT !.cmdline = options, !.key = t.fde.auto,
                                                 !.crypttab = IF params.crypttab = {} THEN @ ELSE params.crypttab]>>

-----------------------------------------------------------------------------
(* dracut's initramfs of a UKI. *)
UpdateInitramfs(root, k, t) ==
    LET content == {"base"} \cup (IF t.immutable THEN {"verity", "crypt"} ELSE {})
                            \cup (IF t.fde.enabled THEN {"crypt"} ELSE {})
                            \cup (IF IsFDEAutoUnlock(t) THEN {"crypttab", "key"} ELSE {})
                            \cup (IF t.extra THEN {"extra"} ELSE {})
    IN  IF ~Exists(root, "dracut") THEN Refused ELSE <<Generated(root, "dracut", k, content)>>

PrepareESPDir(root) == [root EXCEPT !.grubStub = <<>>, !.uki = <<>>, !.loader = ""]

(* The pair is two words once every dash is a blank: a name with a dash is    *)
(* none of the devices.                                                      *)
Dashed == {"root-fs"}
ExtractRootHashPH(options) ==
    IF options.pair = <<>> \/ \E d \in Range(options.pair) : d[1] = "mapper" /\ d[2] \in Dashed THEN Refused
    ELSE <<options.pair>>
ReplaceRootHashPH(options, hash) == [options EXCEPT !.hash = hash]

(* The tree is of the root as it is; a write after it is not of it. *)
GetVerityRootHash(root, pair) == [root EXCEPT !.hashed = pair, !.stale = FALSE]
WriteRoot(root, ro) == [root EXCEPT !.stale = @ \/ (~ro /\ root.hashed # <<>>)]

UkifyStubs == {"x86_64", "aarch64"}
(* The kernel there is in /boot, with its initramfs and the options. *)
BuildUKI(root, k, options, t) ==
    IF t.arch \notin UkifyStubs \/ k \notin DOMAIN root.initramfs THEN Refused
    ELSE <<[root EXCEPT !.uki = <<[kernel |-> k, initramfs |-> root.initramfs[k], options |-> options]>>]>>

CopyBootloader(root, t) ==
    [root EXCEPT !.loader = CASE t.arch = "x86_64" -> "BOOTX64" [] t.arch = "aarch64" -> "BOOTAA64" [] OTHER -> @]

(* Of an immutable image for which keys are given. *)
SignImage(root, t) ==
    IF ~t.immutable \/ ~t.keys THEN <<root>>
    ELSE IF root.loader # "BOOTX64" THEN Refused
    ELSE <<[root EXCEPT !.signed = {"uki", "loader"}]>>
=============================================================================
