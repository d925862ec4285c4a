--------------------------- MODULE MCImageInstall --------------------------
(* Disks and layouts of many kinds with a plain image on them, and images of  *)
(* many kinds on a plain disk.                                               *)
EXTENDS ImageInstall

Plain == [deb |-> FALSE, os |-> "azure-linux", arch |-> "x86_64", provider |-> "grub", bootType |-> "efi", immutable |-> FALSE,
          fde |-> [enabled |-> FALSE, auto |-> FALSE, partitions |-> <<>>, passphrase |-> TRUE],
          cmdlineRoot |-> "", keys |-> FALSE, extra |-> FALSE, packages |-> <<"kernel", "filesystem">>,
          provides |-> {"grub2-mkconfig", "dracut"}, boot |-> <<1>>, trees |-> (1 :> [vmlinuz |-> TRUE, dep |-> FALSE]),
          users |-> <<>>, files |-> {}, network |-> [backend |-> "", interfaces |-> <<>>], proxy |-> {},
          cloudInit |-> FALSE, scripts |-> <<>>, beforeLogin |-> FALSE, extend |-> FALSE, imageType |-> "raw", commands |-> <<>>,
          dkms |-> [enabled |-> FALSE, modules |-> {}, sign |-> FALSE, retain |-> FALSE],
          wsl |-> FALSE, localList |-> TRUE, osRelease |-> TRUE,
          gen |-> [b \in {"grub2-mkconfig", "grub-mkconfig", "update-grub", "update-initramfs", "dracut"} |-> "absent"],
          etc |-> [accounts |-> <<>>, groups |-> {}, files |-> {}, links |-> <<>>, keys |-> <<>>, sudoers |-> {}],
          brings |-> {},
          tree |-> [sources |-> <<>>, built |-> <<>>, installed |-> {}, left |-> {}, kos |-> <<>>, tools |-> <<>>, staged |-> FALSE, target |-> FALSE,
                    framework |-> <<>>]]

At(n) == [fromEnd |-> FALSE, bytes |-> n]
FromEnd(n) == [fromEnd |-> TRUE, bytes |-> n]
Device == [name |-> 1, size |-> 64, hw |-> 1, phys |-> 4, type |-> "disk", mapped |-> FALSE, iso |-> FALSE,
           removable |-> FALSE, hotplug |-> FALSE, tran |-> "sata", usb |-> FALSE, rota |-> FALSE, ssd |-> FALSE,
           label |-> "", parts |-> <<>>, used |-> FALSE]
Occupied == [from |-> 8, to |-> 40, kind |-> "primary", fs |-> "ext4", id |-> "theirs"]
Partition(id, start, end) == [id |-> id, type |-> "linux", fs |-> "ext4", mount |-> "", start |-> start, end |-> end, index |-> <<>>]
Esp == [Partition("esp", At(8), At(16)) EXCEPT !.type = "esp", !.fs = "fat32", !.mount = "/boot/efi"]
Root == [Partition("root", At(16), Zero) EXCEPT !.mount = "/"]
DiskConfig == [path |-> <<1>>, strategy |-> "", excludeRemovable |-> TRUE, requireEmpty |-> TRUE, table |-> "gpt",
               partitions |-> <<Esp, Root>>]
DiskBase == [kind |-> "raw", devices |-> <<Device>>, cfg |-> DiskConfig,
             firmware |-> [order |-> <<>>, entries |-> <<>>], policy |-> "preserve", efi |-> FALSE, arch |-> "x86_64",
             t |-> Plain, stale |-> {}]

(* Layouts, measured from either end, on disks of many sizes and blocks.     *)
Starts == {At(8), At(10), FromEnd(9)}
Ends == {At(18), FromEnd(9), FromEnd(3), Zero}
Layouts ==
    {[DiskBase EXCEPT !.kind = k, !.devices = <<[Device EXCEPT !.size = size, !.hw = b[1], !.phys = b[2]]>>,
                      !.cfg.partitions = <<Partition("a", s1, e1), Partition("b", s2, e2)>>] :
        k \in {"raw"}, size \in {24, 33, 44}, b \in {<<1, 4>>, <<4, 4>>},
        s1 \in Starts, e1 \in Ends, s2 \in Starts \cup {At(16), At(18)}, e2 \in Ends}
Indexes == {<<<<>>, <<>>, <<>>>>, <<<<>>, <<1>>, <<>>>>, <<<<3>>, <<>>, <<>>>>, <<<<>>, <<>>, <<1>>>>,
            <<<<2>>, <<7>>, <<2>>>>, <<<<>>, <<0>>, <<>>>>}
Numbers ==
    {[DiskBase EXCEPT !.cfg.table = table, !.devices = <<[Device EXCEPT !.parts = p, !.used = u, !.label = "gpt"]>>,
                      !.cfg.partitions = SubSeq([i \in 1..5 |-> [Partition(ids[i], At(8 * i), IF i = n THEN Zero ELSE At(8 * i + 8))
                            EXCEPT !.index = IF i <= 3 THEN x[i] ELSE <<>>, !.fs = fs]], 1, n)] :
        table \in {"gpt", "mbr"}, n \in {3, 4, 5}, p \in {<<>>, (2 :> Occupied)}, u \in BOOLEAN,
        ids \in {<<"a", "b", "c", "d", "e">>}, fs \in {"ext4", "vfat", "btrfs"},
        x \in Indexes}

Disks == {[Device EXCEPT !.name = 1, !.size = 40], [Device EXCEPT !.name = 2, !.tran = "nvme", !.parts = (1 :> Occupied)],
          [Device EXCEPT !.name = 3, !.tran = "usb", !.size = 128], [Device EXCEPT !.name = 4, !.hotplug = TRUE],
          [Device EXCEPT !.name = 5, !.iso = TRUE], [Device EXCEPT !.name = 6, !.type = "part"],
          [Device EXCEPT !.name = 7, !.ssd = TRUE, !.tran = "virtio"], [Device EXCEPT !.name = 8, !.rota = TRUE, !.size = 80],
          [Device EXCEPT !.name = 9, !.mapped = TRUE], [Device EXCEPT !.name = 10, !.tran = "mmc", !.usb = TRUE],
          [Device EXCEPT !.name = 11, !.size = 48, !.parts = (1 :> Occupied)], [Device EXCEPT !.name = 12, !.tran = "nvme", !.rota = TRUE]}
Selections ==
    {[DiskBase EXCEPT !.kind = "live", !.devices = <<a, b>>, !.cfg.path = path, !.cfg.strategy = s,
                      !.cfg.excludeRemovable = x, !.cfg.requireEmpty = e,
                      !.cfg.partitions[2] = Partition("root", At(16), end)] :
        a \in Disks, b \in Disks, path \in {<<>>, <<3>>, <<6>>, <<11>>}, s \in {"first", "largest", "fastest", ""},
        x \in BOOLEAN, e \in BOOLEAN, end \in {Zero, At(60)}}

Entry(label) == [label |-> label, disk |-> 0, part |-> 0]
Firmwares == {[order |-> o, entries |-> e] :
                o \in {<<>>, <<0>>, <<1, 0>>, <<0, 2, 1>>, <<3, 1>>},
                e \in {<<>>, (0 :> Entry("ICT")), (0 :> Entry("windows") @@ 1 :> Entry("ICT")),
                       (0 :> Entry("ICT") @@ 1 :> Entry("windows") @@ 3 :> Entry("ICT")),
                       (1 :> Entry("ICTX") @@ 2 :> Entry("net"))}}
Firmware ==
    {[DiskBase EXCEPT !.kind = "live", !.efi = TRUE, !.firmware = f, !.policy = p] :
        f \in Firmwares, p \in {"preserve", "exclusive"}}
    \cup {[DiskBase EXCEPT !.kind = "live", !.policy = p, !.arch = a, !.efi = e, !.cfg.partitions[1] = esp] :
        p \in {"preserve", "other"}, a \in {"x86_64", "riscv64"}, e \in BOOLEAN,
        esp \in {Esp, [Esp EXCEPT !.type = "linux"], [Esp EXCEPT !.type = "linux", !.mount = ""]}}

-----------------------------------------------------------------------------
(* How it boots: the provider, what is encrypted, what is immutable.          *)
Sized(i, n, p) == [p EXCEPT !.start = At(8 * i), !.end = IF i = n THEN Zero ELSE At(8 * i + 8)]
Laid(ps) == [i \in DOMAIN ps |-> Sized(i, Len(ps), ps[i])]
Data == [Root EXCEPT !.id = "data", !.mount = "/opt"]
HashOf(id) == [Root EXCEPT !.id = id, !.mount = "none"]
RootOf(id) == [Root EXCEPT !.id = id]
BootLayouts == {Laid(<<Esp, RootOf("rootfs")>>),
                Laid(<<Esp, [Root EXCEPT !.id = "boot", !.mount = "/boot"], RootOf("root")>>),
                Laid(<<Esp, RootOf("rootfs"), HashOf("roothashmap"), Data>>),
                Laid(<<Esp, RootOf("root-fs"), HashOf("verity"), [Data EXCEPT !.fs = "xfs"]>>),
                Laid(<<Esp, [Root EXCEPT !.id = "swap", !.fs = "linux-swap", !.mount = ""], RootOf("root"), HashOf("hash"), Data>>),
                Laid(<<Esp>>)}
Encryptions == {[Plain.fde EXCEPT !.enabled = e[1], !.auto = e[2], !.partitions = e[3], !.passphrase = e[4]] :
                 e \in {<<FALSE, FALSE, <<>>, FALSE>>, <<TRUE, FALSE, <<>>, TRUE>>, <<TRUE, TRUE, <<>>, TRUE>>,
                        <<TRUE, FALSE, <<>>, FALSE>>, <<TRUE, TRUE, <<"rootfs", "data">>, TRUE>>,
                        <<TRUE, FALSE, <<"data">>, TRUE>>, <<TRUE, TRUE, <<"data">>, TRUE>>, <<TRUE, FALSE, <<"data", "rootfs">>, TRUE>>}}
Deb == [Plain EXCEPT !.deb = TRUE, !.os = "ubuntu", !.packages = <<"dracut", "kernel", "base-files">>,
                     !.provides = {"grub-mkconfig", "update-grub", "update-initramfs"}]
DebDracut == [Deb EXCEPT !.provides = {"dracut"}, !.packages = <<"systemd-boot", "apparmor">>]
BootImages ==
    {[DiskBase EXCEPT !.cfg.partitions = l,
                      !.t = [b EXCEPT !.provider = p, !.fde = f, !.immutable = i, !.keys = f.auto, !.extra = ~f.auto]] :
        b \in {Plain, DebDracut}, p \in {"grub", "systemd-boot"}, f \in Encryptions, i \in BOOLEAN, l \in BootLayouts}
Kernels == {<<<<>>, <<>>>>, <<<<1>>, (1 :> [vmlinuz |-> TRUE, dep |-> FALSE])>>,
            <<<<>>, (1 :> [vmlinuz |-> TRUE, dep |-> FALSE] @@ 2 :> [vmlinuz |-> FALSE, dep |-> FALSE])>>,
            <<<<1, 2>>, (1 :> [vmlinuz |-> TRUE, dep |-> TRUE] @@ 2 :> [vmlinuz |-> TRUE, dep |-> FALSE])>>,
            <<<<2>>, (1 :> [vmlinuz |-> TRUE, dep |-> TRUE])>>}
KernelImages ==
    {[DiskBase EXCEPT !.t = [b EXCEPT !.provider = p, !.boot = k[1], !.trees = k[2]]] :
        b \in {Plain, Deb, DebDracut}, p \in {"grub", "systemd-boot", "none"}, k \in Kernels}
    \cup {[DiskBase EXCEPT !.t = [b EXCEPT !.bootType = y, !.arch = a, !.cmdlineRoot = c, !.immutable = m, !.keys = m, !.provider = p]] :
        b \in {Plain, [Deb EXCEPT !.gen["update-initramfs"] = "real"]}, y \in {"efi", "legacy", ""}, p \in {"grub", "systemd-boot"},
        a \in {"x86_64", "aarch64", "riscv64"}, c \in {"", "/dev/sda2"}, m \in BOOLEAN}

-----------------------------------------------------------------------------
(* What is not of the disk is tried in a directory. *)
InDirectory == [DiskBase EXCEPT !.kind = "rootfs", !.cfg.partitions = <<>>]
WithT(T) == {[InDirectory EXCEPT !.t = x] : x \in T}

User == [name |-> "user", shell |-> "", home |-> "", password |-> "", hash |-> "", maxAge |-> <<>>, groups |-> {}, sudo |-> FALSE,
         keys |-> {}, startup |-> ""]
Other == [User EXCEPT !.name = "other", !.keys = {"k1"}, !.sudo = TRUE]
Again == [User EXCEPT !.keys = {"k2"}]
Account(home) == [shell |-> "/bin/sh", home |-> home, shadow |-> [locked |-> TRUE, of |-> ""], maxAge |-> <<>>, groups |-> {}]
Accounts ==
    WithT({[Plain EXCEPT !.users = <<[User EXCEPT !.password = c[1], !.hash = c[2], !.keys = k, !.sudo = s, !.startup = x]>> \o o,
                         !.etc.accounts = a, !.etc.links = l, !.etc.files = {"/script"}, !.os = os] :
        c \in {<<"", "">>, <<"secret", "">>, <<"secret", "sha512">>, <<"secret", "crc">>, <<"$6$secret", "">>, <<"$6$secret", "sha512">>},
        k \in {{}, {"k1"}}, s \in BOOLEAN, x \in {"", "/script", "/none"}, o \in {<<>>, <<Other>>, <<Again>>},
        a \in {<<>>, ("user" :> Account("/home/user")), ("user" :> Account("/"))},
        l \in {<<>>, ("/home/user" :> "/home/other")}, os \in {"ubuntu"}})
    \cup WithT({[Plain EXCEPT !.users = <<[User EXCEPT !.keys = {"k1", "k2"}, !.groups = g, !.shell = "/bin/zsh", !.maxAge = <<30>>,
                                                      !.home = "/srv/user"]>>, !.os = os] :
        g \in {{}, {"sudo"}, {"wheel", "<group>", ""}}, os \in {"ubuntu", "azure-linux"}})

Script(n, stage) == [name |-> n, final |-> "/opt/" \o n, stage |-> stage, timeout |-> 0]
Provisioned ==
    WithT({[Plain EXCEPT !.scripts = x, !.beforeLogin = b, !.cloudInit = c, !.files = {"/opt/one", "/opt/two"} \cup f, !.os = os,
                         !.immutable = b, !.network = n, !.proxy = p, !.brings = {"systemd-networkd.service"}] :
        x \in {<<>>, <<Script("one", "every-boot")>>, <<Script("one", "first-boot"), Script("two", "every-boot")>>,
               <<Script("one", "first-boot"), Script("three", "every-boot")>>},
        b \in BOOLEAN, c \in BOOLEAN, f \in {{}, {"meta-data"}}, os \in {"ubuntu", "azure-linux"}, p \in {{"http_proxy"}},
        n \in {[backend |-> "netplan", interfaces |-> <<"a">>], [backend |-> "systemd-networkd", interfaces |-> <<"a", "b">>]}})
    \cup WithT({[Plain EXCEPT !.scripts = <<Script("one", "first-boot")>>, !.beforeLogin = b, !.cloudInit = TRUE, !.files = {"/opt/one"},
                               !.extend = e, !.imageType = i, !.commands = c] :
        b \in BOOLEAN, e \in BOOLEAN, i \in {"raw", "iso"}, c \in {<<>>, <<{"meta-data"}, {"/opt/one", "95ict-proxy"}>>}})
    \cup WithT({[Plain EXCEPT !.network = [backend |-> k, interfaces |-> i], !.proxy = p] :
        k \in {"other", "netplan", "systemd-networkd"}, i \in {<<>>, <<"">>, <<"a">>}, p \in {{}, {"no_proxy"}}})

Vendor(conf) == [Plain.tree EXCEPT !.sources = conf, !.tools = [k \in {1, 2} |-> {"kbuild"}]]
(* A package built one module of its own, for the first kernel. *)
Already(conf) == [Vendor(conf) EXCEPT !.built = (<<"gfx", 1>> :> {"a"}), !.installed = {<<"gfx", 1>>},
                                      !.kos = (<<1, "a">> :> [compressed |-> FALSE, signed |-> FALSE])]
Vendored ==
    {[DiskBase EXCEPT !.t = [Plain EXCEPT !.dkms = [enabled |-> TRUE, modules |-> m, sign |-> s, retain |-> s], !.tree = v,
                                          !.boot = k, !.trees = [x \in {1, 2} |-> [vmlinuz |-> TRUE, dep |-> FALSE]]]] :
        m \in {{}, {"gfx"}, {"gfx", "none"}}, s \in BOOLEAN, k \in {<<>>, <<1>>, <<1, 2>>},
        v \in {Vendor("gfx" :> <<{"a", "mei-vsc"}>>), Vendor("gfx" :> <<{"a"}>> @@ "old" :> <<>>),
               Vendor("gfx" :> <<{"a"}>> @@ OriginalModule :> <<>>), Vendor("gfx" :> <<{"a"}>> @@ "npu" :> <<{"b"}>>),
               Already("gfx" :> <<{"a"}>> @@ "npu" :> <<{"b"}>>), Already("gfx" :> <<{"a", "b"}>>),
               [Vendor("gfx" :> <<{"a"}>>) EXCEPT !.tools = [x \in {1, 2} |-> {}]]}}

Directories ==
    {[InDirectory EXCEPT !.kind = k, !.t = [b EXCEPT !.wsl = w, !.localList = l, !.osRelease = w], !.stale = IF w THEN {"/tmp"} ELSE {}] :
        k \in {"rootfs", "initrd"}, b \in {Plain, Deb}, w \in BOOLEAN, l \in BOOLEAN}

MCWorlds == Layouts \cup Numbers \cup Selections \cup Firmware \cup BootImages \cup KernelImages
            \cup Accounts \cup Provisioned \cup Vendored \cup Directories
=============================================================================
