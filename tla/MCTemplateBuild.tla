-------------------------- MODULE MCTemplateBuild --------------------------
(* Small template trees, selections, installers and repositories.            *)
EXTENDS TemplateBuild

Ubuntu == [NoTemplate EXCEPT !.target = "ubuntu", !.name = "image"]
Tree == <<"t">>
Leaf == <<"t", "a.yml">>
Parent == <<"t", "sub", "b.yml">>

Base == [files |-> (Leaf :> Ubuntu), links |-> <<>>, leaf |-> Leaf, dir |-> Tree, default |-> <<>>,
         host |-> (<<"script">> :> {} @@ <<"other">> :> {} @@ <<"alice.pub">> :> {"key1"}
                   @@ <<"user-data">> :> {"#cloud-config"} @@ <<"bad.pub">> :> {Malformed}),
         overrides |-> NoOverrides, request |-> "build", sel |-> NoSelection, catalogue |-> <<>>,
         edgePack |-> {"ov-runtime"}, os |-> "noble", imageType |-> "raw", oep |-> <<>>, kernels |-> {},
         keys |-> [cached |-> ("k1" :> "bad"), served |-> ("k1" :> "good" @@ "k2" :> "empty"), gpg |-> TRUE]]

(* Chains: what extends may say, with directories and files that are links.  *)
Links == (<<"t", "alias">> :> <<"t", "sub">>) @@ (<<"t", "out">> :> <<"o">>)
         @@ (<<"t", "sub", "up">> :> <<"t">>) @@ (<<"t", "sub", "self">> :> <<"t", "sub">>)
         @@ (<<"t", "l.yml">> :> Parent) @@ (<<"t", "sub", "k.yml">> :> <<"t", "sub", "c.yml">>)
Refs(s) == {<<>>} \cup s
FromLeaf == Refs({<<"sub", "b.yml">>, <<"alias", "b.yml">>, <<"out", "x.yml">>, <<"..", "o", "x.yml">>,
                  <<"l.yml">>, <<"alias", "k.yml">>, <<"/", "o", "x.yml">>, <<"sub", "..", "sub", ".", "b.yml">>, <<"a.yml">>, <<"gone.yml">>})
FromB == Refs({<<"c.yml">>, <<"self", "b.yml">>, <<"up", "a.yml">>, <<"..", "a.yml">>, <<"self", "c.yml">>})
FromC == Refs({<<"b.yml">>, <<"self", "self", "b.yml">>})
Extending(ref, os) == [Ubuntu EXCEPT !.extends = ref, !.target = os]
Chains ==
    {[Base EXCEPT !.links = Links,
                  !.files = (Leaf :> Extending(a, "ubuntu")) @@ (Parent :> Extending(b, "ubuntu"))
                            @@ (<<"t", "sub", "c.yml">> :> Extending(c, os)) @@ (<<"o", "x.yml">> :> Ubuntu)] :
        a \in FromLeaf, b \in FromB, c \in FromC, os \in {"ubuntu", "debian"}}

-----------------------------------------------------------------------------
(* Layers: a parent, a leaf and perhaps a default, overridden, installed on. *)
Script(name, local, final, order, reboot) ==
    [name |-> name, local |-> <<local>>, final |-> final, stage |-> "", order |-> order, rebootAfter |-> reboot]
S1 == <<"opt", "s1">>
With1(x) == [Ubuntu EXCEPT !.system.scripts = x]
Alice == [NoUser EXCEPT !.password = "$6$a", !.groups = {"sudo"}, !.sudo = TRUE]
OepDocs(pins, prefsFile, keyFile) ==
    <<[Document EXCEPT !.header = TRUE, !.modules = <<"m">>],
      [Document EXCEPT !.repo = <<[suite |-> "edge", url |-> <<"h1", "/edge">>, key |-> "k1",
            listFile |-> AptDir \o <<"sources.list.d", "edge.list">>, keyFile |-> keyFile, signedBy |-> keyFile,
            prefsFile |-> prefsFile,
            pins |-> pins, source |-> "src"]>>,
        !.packages = <<[kind |-> "package", kernel |-> "", name |-> "oep", version |-> <<>>, release |-> <<>>],
                       [kind |-> "package", kernel |-> "image", name |-> "linux-1", version |-> <<>>, release |-> <<1>>]>>]>>
Oep == <<[url |-> "cli", sbom |-> "sbom", modules |-> <<"m">>, user |-> "alice", args |-> <<>>]>>

ParentLayers ==
    {Ubuntu, With1(<<Script("one", "script", S1, 1, FALSE)>>), With1(<<Script("one", "script", S1, 1, TRUE)>>),
     [Ubuntu EXCEPT !.system.users = ("alice" :> Alice), !.system.oep = Oep],
     [Ubuntu EXCEPT !.system.immutability = [provided |-> TRUE, enabled |-> TRUE, key |-> ""],
                    !.disk.partitions = {"rootfs", "hash"}],
     [Ubuntu EXCEPT !.overlayPolicy = <<[operation |-> "", removal |-> FALSE, kernel |-> "", conflict |-> ""]>>,
                    !.baseline = <<[mode |-> "overlay", source |-> "img"]>>]}
LeafLayers ==
    {Ubuntu,
     With1(<<Script("two", "other", <<"opt", "s1", "s2">>, 0, FALSE)>>),
     With1(<<Script("two", "other", <<"opt", "s2">>, 5, FALSE)>>),
     With1(<<Script("one", "other", <<"opt", "s2">>, 5, TRUE)>>),
     [Ubuntu EXCEPT !.system.files = (S1 :> <<"other">>)],
     [Ubuntu EXCEPT !.system.files = (StampDir :> <<"other">>)],
     [Ubuntu EXCEPT !.system.files = (AptProxy :> <<"other">>)],
     [Ubuntu EXCEPT !.disk = [NoDisk EXCEPT !.partitions = {"rootfs"}]],
     [Ubuntu EXCEPT !.disk = [NoDisk EXCEPT !.size = 4, !.maxSize = 8]],
     [Ubuntu EXCEPT !.system.host = "edge1"],
     [Ubuntu EXCEPT !.system.users = ("alice" :> [NoUser EXCEPT !.keyFiles = {"alice.pub"}])],
     [Ubuntu EXCEPT !.system.users = ("alice" :> NoUser)],
     [Ubuntu EXCEPT !.system.cloudInit = [NoCloudInit EXCEPT !.enabled = <<TRUE>>, !.userData = "user-data"]],
     [Ubuntu EXCEPT !.repos = <<[NoRepository EXCEPT !.codename = "noble", !.url = <<"h2", "/u">>, !.key = "k1"]>>]}
Defaults == {<<>>, <<[Ubuntu EXCEPT !.system.bootloader.type = "efi", !.disk.partitions = {"rootfs"}]>>}
Overrides == {NoOverrides, [NoOverrides EXCEPT !.proxy = "http://p"], [NoOverrides EXCEPT !.strategy = "first"],
              [NoOverrides EXCEPT !.keys = <<[user |-> "alice", file |-> "alice.pub"]>>]}
Layers ==
    {[Base EXCEPT !.files = (Leaf :> [l EXCEPT !.extends = <<"sub", "b.yml">>]) @@ (Parent :> p),
                  !.default = d, !.overrides = o, !.oep = OepDocs(<<>>, <<>>, Append(StampDir, "edge.gpg")),
                  !.kernels = {[name |-> "linux-1", release |-> <<1>>]}] :
        p \in ParentLayers, l \in LeafLayers, d \in Defaults, o \in Overrides}

-----------------------------------------------------------------------------
(* Repositories, and which of them may upgrade. *)
Repo(suite, host, path, key, prio) ==
    [NoRepository EXCEPT !.codename = suite, !.url = <<host, path>>, !.key = key, !.priority = prio]
Repos1 == {Repo("noble", "h1", "/u", "k1", 0), Repo("noble", "a.x", "/u", "", 990), Repo("noble", "h1", "/u", "", 10)}
Repos2 == {Repo("edge", "h1", "/e", "", 990), Repo("noble", "a-x", "/u", "", 0), Repo("edge", "h3", "/u", "", 500),
           Repo("noble", "h1", "/v", "k2", 600)}
Policies == {<<>>, <<{}>>, <<{"noble"}>>, <<{"edge"}>>, <<{"gone"}>>}
Immutable == [provided |-> TRUE, enabled |-> TRUE, key |-> ""]
Repositories ==
    {[Base EXCEPT !.files = (Leaf :> [Ubuntu EXCEPT
            !.target = os, !.repos = <<a, b>>, !.system.aptPolicy = p,
            !.system.immutability = i, !.disk.partitions = {"hash"},
            !.system.oep = IF os = "ubuntu" THEN o ELSE <<>>,
            !.system.scripts = s,
            !.system.users = ("alice" :> Alice)]),
        !.oep = OepDocs(pins[1], pins[2], AptDir \o <<"edge.gpg">>), !.kernels = {[name |-> "linux-1", release |-> <<1>>]}] :
        a \in Repos1, b \in Repos2, p \in Policies, i \in {NoImmutability, Immutable},
        o \in {<<>>, Oep}, os \in {"ubuntu", "debian", "elxr", "emt"},
        s \in {<<>>, <<Script("one", "script", SourcesList, 1, FALSE)>>},
        pins \in {<<<<>>, <<>>>>} \cup
                 {<<<<[packages |-> "*", origin |-> "h1", priority |-> 700]>>, AptDir \o <<"preferences.d">> \o f>> :
                     f \in {<<"edge">>, <<"noble", "a-x">>}} \cup
                 {<<<<[packages |-> "*", origin |-> "h1", priority |-> 700],
                      [packages |-> "x", origin |-> h, priority |-> 900]>>, AptDir \o <<"preferences.d", "edge">> >> :
                     h \in {"h3", ""}}}

-----------------------------------------------------------------------------
(* Selections: what a user of the service may choose, of what template. *)
Disk(parts, expand) ==
    [name |-> "disk", path |-> "", size |-> 8, maxSize |-> 0, strategy |-> "", partitions |-> parts,
     artifacts |-> <<>>, expand |-> expand]
Part(id, end, mount) == [id |-> id, fs |-> "ext4", start |-> "1MiB", end |-> end, mount |-> mount]
Curated ==
    {[Ubuntu EXCEPT !.system.users = ("alice" :> Alice @@ "bob" :> [NoUser EXCEPT !.startup = "/bin/x", !.home = "/b"]),
                    !.system.packages = {Plain("vim")}, !.system.dkms.modules = {"igc"},
                    !.system.immutability = i, !.disk.partitions = parts,
                    !.repos = <<Repo("noble", "h1", "/u", "", 0)>>, !.baseline = b] :
        i \in {NoImmutability, Immutable}, parts \in {{"hash"}, {"rootfs"}},
        b \in {<<>>, <<[mode |-> "overlay", source |-> "img"]>>}}
(* and what it may extend: a parent that names a user too, or lies behind another. *)
Inherited ==
    {[Ubuntu EXCEPT !.system.users = ("bob" :> [NoUser EXCEPT !.groups = {"sudo"}, !.keyFiles = {"alice.pub"}]),
                    !.system.scripts = <<Script("one", "script", S1, 1, FALSE)>>,
                    !.system.cloudInit = [NoCloudInit EXCEPT !.enabled = <<TRUE>>, !.userData = "user-data"],
                    !.repos = <<Repo("extra", "h2", "/x", "", 10), Repo("edge", "h3", "/e", "", 0)>>],
     [Ubuntu EXCEPT !.extends = <<"..", "a.yml">>], [Ubuntu EXCEPT !.extends = <<"c.yml">>],
     [Ubuntu EXCEPT !.target = "debian"]}
Extended(t, p) == (Leaf :> [t EXCEPT !.extends = <<"sub", "b.yml">>]) @@ (Parent :> p)
                  @@ (<<"t", "sub", "c.yml">> :> [Ubuntu EXCEPT !.system.immutability = Immutable])
Pinned(n) == [name |-> n, version |-> <<[epoch |-> "", version |-> <<1>>, prefix |-> FALSE]>>]
Selections ==
    {[NoSelection EXCEPT !.name = "mine"], [NoSelection EXCEPT !.packages = {Plain("jq"), Pinned("vim")}],
     [NoSelection EXCEPT !.packages = {Plain("ov-runtime")}],
     [NoSelection EXCEPT !.repos = {"extra", "main"}],
     [NoSelection EXCEPT !.disk = <<Disk(<<Part("boot", "1GiB", "/boot"), Part("rootfs", "0", "/")>>, TRUE)>>],
     [NoSelection EXCEPT !.disk = <<Disk(<<Part("rootfs", "0", "/"), Part("hash", "2GiB", "none")>>, FALSE)>>],
     [NoSelection EXCEPT !.credentials = ("alice" :> [password |-> "secret", key |-> "key2"])],
     [NoSelection EXCEPT !.credentials = ("bob" :> [password |-> "", key |-> "key2"])],
     [NoSelection EXCEPT !.credentials = ("carol" :> [password |-> "x", key |-> ""])],
     [NoSelection EXCEPT !.newUsers = ("carol" :> [NoUser EXCEPT !.keys = {"key2"}, !.sudo = TRUE])],
     [NoSelection EXCEPT !.newUsers = ("alice" :> [NoUser EXCEPT !.password = "x"])]}
Catalogue == <<[id |-> "main", os |-> {}, type |-> "deb", default |-> TRUE, priority |-> 0,
                index |-> <<[codename |-> "noble", url |-> <<"h1", "/u">>, key |-> ""]>>],
               [id |-> "extra", os |-> {"noble"}, type |-> "deb", default |-> FALSE, priority |-> 700,
                index |-> <<[codename |-> "extra", url |-> <<"h2", "/x">>, key |-> "k1"]>>]>>
Composed ==
    {[Base EXCEPT !.files = f, !.default = d, !.request = r, !.sel = s, !.catalogue = Catalogue,
                  !.overrides = o] :
        f \in {Leaf :> t : t \in Curated} \cup {Extended(t, p) : t \in Curated, p \in Inherited}, s \in Selections, r \in {"compose", "start"}, d \in Defaults,
        o \in {NoOverrides, [NoOverrides EXCEPT !.proxy = "http://p"]}}

MCWorlds == Chains \cup Layers \cup Repositories \cup Composed

(* Two requests are combined into one exactly when some version meets both:  *)
(* as a prefix of the version's characters, or as all of them.               *)
Requests == {<<>>} \cup {<<[epoch |-> e, version |-> v, prefix |-> p]>> :
                e \in {"", "1", "2"}, v \in {<<>>, <<1>>, <<1, 2>>, <<2>>}, p \in BOOLEAN}
Actual == [epoch : {"1", "2", "3"}, version : {<<>>, <<1>>, <<1, 2>>, <<1, 2, 1>>, <<2>>, <<2, 1>>}]
Meets(v, r) == r # <<>> => /\ r[1].epoch \in {"", v.epoch}
                           /\ IF r[1].prefix THEN IsPrefix(r[1].version, v.version) ELSE r[1].version = v.version
ASSUME CombineIsMeet ==
    \A a, b \in Requests : LET both == {v \in Actual : Meets(v, a) /\ Meets(v, b)} IN
        IF CombineVersions(a, b) = Refused THEN both = {}
        ELSE both = {v \in Actual : Meets(v, CombineVersions(a, b)[1])}
=============================================================================
