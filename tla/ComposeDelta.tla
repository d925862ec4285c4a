---------------------------- MODULE ComposeDelta ----------------------------
(* How the web service turns a selection into a delta template:              *)
(* internal/api/service/{compose,delta,diskoverride,repos,edgepack}.go.      *)
(*                                                                           *)
(* A selection is [name, packages, repos, disk, credentials, newUsers]: the  *)
(* disk is <<>> or <<d>>, credentials and newUsers are functions of the user *)
(* names, repos the catalogue's ids.  The limits on lengths are left out.    *)
EXTENDS TemplateChecks

(* A catalogue repository: [id, os, type, default, priority, index], its      *)
(* index <<>> or the first one as [codename, url, key].                      *)
DefaultRepoPriority == 500
AppliesTo(repo, os) == os = "" \/ repo.os = {} \/ os \in repo.os

PackageRepos(catalogue, os) ==
    LET offered == Sift(catalogue, {i \in DOMAIN catalogue : AppliesTo(catalogue[i], os)})
        rank(r) == IF r.priority = 0 THEN DefaultRepoPriority ELSE r.priority
    IN  StableSort(offered, LAMBDA a, b : rank(a) > rank(b))

TemplateRepo(r) ==
    [NoRepository EXCEPT
        !.url = r.index[1].url, !.key = r.index[1].key,
        !.codename = IF r.type = "rpm" THEN r.id ELSE r.index[1].codename,
        !.priority = IF r.type = "rpm" \/ r.priority = DefaultRepoPriority THEN 0 ELSE r.priority]

(* Those enabled by default are in every template anyway. *)
ToTemplateRepos(catalogue, os, ids) ==
    LET wanted(r) == /\ r.id \in ids /\ ~r.default /\ r.index # <<>>
                     /\ r.type = "rpm" \/ r.index[1].codename # ""
        offered == PackageRepos(catalogue, os)
        chosen == Sift(offered, {i \in DOMAIN offered : wanted(offered[i])})
    IN  [i \in DOMAIN chosen |-> TemplateRepo(chosen[i])]

SelectsEdgePack(packages, edgePack) == \E p \in packages : p.name \in edgePack

-----------------------------------------------------------------------------
NoSelection == [name |-> "", packages |-> {}, repos |-> {}, disk |-> <<>>,
                credentials |-> <<>>, newUsers |-> <<>>]
HasOverrides(sel) == sel # NoSelection

ValidatePackages(packages) == Malformed \notin {p.name : p \in packages}
ValidateImageName(name) == name # Malformed

(* A chosen disk: [name, path, size, maxSize, strategy, partitions, artifacts, *)
(* expand], a partition [id, fs, start, end, mount], an artifact             *)
(* [type, compression].                                                      *)
ValidateDiskTop(d) ==
    /\ d.name # "" /\ Malformed \notin {d.name, d.path, d.strategy}
    /\ d.maxSize # 0 => d.size # 0

(* Only the last partition may take what is left. *)
ValidateDiskPartition(p, last) ==
    /\ p.fs \notin {"", Malformed} /\ p.start # "0" /\ Malformed \notin {p.start, p.end}
    /\ p.end = "0" => last

ValidateDiskArtifacts(artifacts, imageType) ==
    CASE imageType \in {"iso", "img"} -> TRUE
      [] imageType = "wsl2" -> /\ artifacts # <<>>
                               /\ \A a \in Range(artifacts) : a.type = "tar" /\ a.compression \in {"gz", "gzip"}
      [] OTHER -> \A a \in Range(artifacts) :
                     a.type \in {"raw", "qcow2", "vhdx"} /\ a.compression \in {"", "gz", "xz", "zstd"}

ValidateDiskAutoExpand(d, imageType) ==
    d.expand => /\ imageType # "iso"
                /\ imageType = "raw" => d.partitions # <<>> /\ Last(d.partitions).mount = "/"

ValidateDisk(disk, imageType) ==
    \A d \in Range(disk) :
        /\ ValidateDiskTop(d)
        /\ \A i \in DOMAIN d.partitions : ValidateDiskPartition(d.partitions[i], i = Len(d.partitions))
        /\ ValidateDiskArtifacts(d.artifacts, imageType)
        /\ ValidateDiskAutoExpand(d, imageType)

HashPasswordForHost(password) == IF password = "" THEN "" ELSE "$6$a"

ValidateCredentials(credentials, parent) ==
    \A n \in DOMAIN credentials : LET c == credentials[n] IN
        /\ n \in DOMAIN parent.system.users
        /\ c.password # "" \/ c.key # ""
        /\ c.key # Malformed

ValidateNewUsers(newUsers, parent) ==
    \A n \in DOMAIN newUsers : LET u == newUsers[n] IN
        /\ n \notin DOMAIN parent.system.users
        /\ Malformed \notin {n, u.startup} \cup u.groups \cup u.keys
        /\ ~NeedsCredential(u)
        /\ u.maxAge >= 0

-----------------------------------------------------------------------------
KeysGiven(key) == IF key = "" THEN {} ELSE {key}

DeltaUsers(sel) ==
    Over([n \in DOMAIN sel.credentials |->
             [NoUser EXCEPT !.password = HashPasswordForHost(sel.credentials[n].password),
                            !.keys = KeysGiven(sel.credentials[n].key)]],
         [n \in DOMAIN sel.newUsers |->
             [sel.newUsers[n] EXCEPT !.password = HashPasswordForHost(@)]])

DeltaDisk(disk) ==
    IF disk = <<>> THEN NoDisk
    ELSE LET d == disk[1] IN
         [path |-> d.path, strategy |-> d.strategy, size |-> d.size, maxSize |-> d.maxSize,
          partitions |-> {p.id : p \in Range(d.partitions)}]

(* The delta extends the curated template by name and says only what was      *)
(* chosen; edge-pack packages bring modules that must be built.               *)
BuildDelta(parentPath, parent, sel, catalogue, os, edgePack) ==
    [NoTemplate EXCEPT
        !.extends = parentPath, !.target = parent.target, !.name = Or(sel.name, parent.name),
        !.disk = DeltaDisk(sel.disk),
        !.system.packages = sel.packages,
        !.system.users = DeltaUsers(sel),
        !.system.dkms = IF SelectsEdgePack(sel.packages, edgePack)
                        THEN [NoDkms EXCEPT !.provided = TRUE, !.enabled = TRUE] ELSE NoDkms,
        !.repos = ToTemplateRepos(catalogue, os, sel.repos)]

=============================================================================
