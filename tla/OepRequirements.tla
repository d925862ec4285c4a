-------------------------- MODULE OepRequirements --------------------------
(* What the OEP Installer's published requirements make of a template:       *)
(* internal/oepinstaller.                                                    *)
(*                                                                           *)
(* A version request is <<>> for any version, else <<r>> with an epoch (""   *)
(* for none given), the characters of the version, and whether they are only *)
(* its beginning.                                                            *)
EXTENDS TemplateChecks

Document == [header |-> FALSE, cli |-> "", modules |-> <<>>, args |-> <<>>, packages |-> <<>>,
             cmdline |-> {}, repo |-> <<>>, preferences |-> {}]

(* The requirements must have been generated by the CLI that is installed; a  *)
(* page on a branch says only which file that is.                            *)
CheckCLI(cli, o) == cli \in {"", o.url, "page of " \o o.url}

(* The first document says what was asked for; each later one adds to it. *)
Parse(docs, o) ==
    /\ docs # <<>> /\ docs[1].header
    /\ docs[1].modules = o.modules /\ CheckCLI(docs[1].cli, o)
    /\ docs[1].args \in {<<>>, <<o.args>>}
    /\ \A i \in 2..Len(docs) :
          /\ ~docs[i].header
          /\ docs[i].repo # <<>> => docs[i].repo[1].signedBy = docs[i].repo[1].keyFile

Requirements(docs) ==
    [packages |-> FlattenSeq([i \in DOMAIN docs |-> docs[i].packages]),
     cmdline |-> UNION {d.cmdline : d \in Range(docs)},
     repos |-> LET from == Sift(docs, {i \in DOMAIN docs : docs[i].repo # <<>>})
               IN  [i \in DOMAIN from |-> from[i].repo[1]],
     preferences |-> \E d \in Range(docs) : d.repo = <<>> /\ d.preferences # {}]

-----------------------------------------------------------------------------
(* The request that asks for what both do, or none. *)
CombineVersions(a, b) ==
    LET within(x, y) == IF y.prefix THEN IsPrefix(y.version, x.version)
                        ELSE ~x.prefix /\ x.version = y.version
        keep(x, other) == <<<<[x EXCEPT !.epoch = Or(@, other.epoch)]>>>>
    IN  IF a = <<>> \/ a = b THEN <<b>>
        ELSE IF b = <<>> THEN <<a>>
        ELSE IF a[1].epoch # "" /\ b[1].epoch # "" /\ a[1].epoch # b[1].epoch THEN Refused
        ELSE IF within(a[1], b[1]) THEN keep(a[1], b[1])
        ELSE IF within(b[1], a[1]) THEN keep(b[1], a[1])
        ELSE Refused

(* All entries of one name become one. *)
AddPackage(packages, entry) ==
    LET same == {p \in packages : p.name = entry.name}
        version == Fold(LAMBDA r, p : Then(r, LAMBDA v : CombineVersions(p.version, v)),
                        <<entry.version>>, SetToSeq(same))
    IN  Then(version, LAMBDA v : Accept((packages \ same) \cup {[name |-> entry.name, version |-> v]}))

(* A URL is the installer's to fetch; kernels are the template's to choose.   *)
MergeOepPackages(packages, entries) ==
    LET add(r, e) ==
            IF e.kind = "url" \/ e.kernel \in {"image", "meta"} THEN r
            ELSE IF e.kind = "removal" THEN IF \E p \in packages : p.name = e.name THEN Refused ELSE r
            ELSE Then(r, LAMBDA ps : AddPackage(ps, [name |-> e.name, version |-> e.version]))
    IN  Fold(add, Accept(packages), entries)

(* Two repositories may share a file only if they agree on what is in it. *)
FilesAgree(a, b) ==
    /\ a.listFile = b.listFile => a.source = b.source
    /\ a.keyFile = b.keyFile => a.key = b.key
    /\ a.prefsFile # <<>> /\ a.prefsFile = b.prefsFile => a.pins = b.pins

(* The priority its preferences give all packages of its own host. *)
OriginPriority(r) ==
    LET own == SelectSeq(r.pins, LAMBDA p : p.packages = "*" /\ p.origin = r.url[1])
    IN  IF own = <<>> THEN 0 ELSE own[1].priority

ToPackageRepository(r) ==
    [NoRepository EXCEPT
        !.codename = r.suite, !.url = r.url, !.key = r.key, !.priority = OriginPriority(r),
        !.own = <<[listFile |-> r.listFile, keyFile |-> r.keyFile, prefsFile |-> r.prefsFile,
                   pins |-> r.pins]>>]

UniqueRepositories(repos) ==
    LET unique == Sift(repos, {i \in DOMAIN repos : \A j \in 1..(i - 1) : repos[j] # repos[i]})
    IN  Check([i \in DOMAIN unique |-> ToPackageRepository(unique[i])],
              \A a, b \in Range(repos) : FilesAgree(a, b))

(* The installer's definition of a repository takes the template's place. *)
MergeOepRepositories(repos, oep) ==
    Sift(repos, {i \in DOMAIN repos : \A o \in Range(oep) :
                    repos[i].url # o.url \/ repos[i].codename # o.codename}) \o oep

Apply(t, q) ==
    LET repos == UniqueRepositories(q.repos)
        packages == MergeOepPackages(t.system.packages, q.packages)
    IN  IF \/ ~(q.cmdline \subseteq t.system.kernel.cmdline) \/ q.preferences
           \/ packages = Refused \/ repos = Refused
        THEN Refused
        ELSE Accept([t EXCEPT !.system.packages = packages[1],
                              !.repos = MergeOepRepositories(@, repos[1])])

-----------------------------------------------------------------------------
CLIDir == <<"usr", "local", "share", "oep-installer">>
FirstBootScript == <<"usr", "local", "sbin", "ict-oep-installer.sh">>
SudoersInclude == <<"etc", "sudoers.d", "90-ict-oep-installer">>

NextScriptOrder(scripts) == Max({0} \cup {s.order + 1 : s \in Range(scripts)})

(* The three files are written to the host first. *)
AddFirstBoot(t, host) ==
    LET o == t.system.oep[1]
        written == [f \in DOMAIN host \cup {<<"openedge-cli">>, <<"first boot">>, <<"sudoers">>} |->
                        IF f \in DOMAIN host THEN host[f] ELSE {}]
        script == [name |-> "oep-installer", local |-> <<"first boot">>, final |-> FirstBootScript,
                   stage |-> "", order |-> NextScriptOrder(t.system.scripts), rebootAfter |-> FALSE]
        sudo(x) == Accept([x EXCEPT !.system.packages = @ \cup {Plain("sudo")}])
        files == {[local |-> <<"openedge-cli">>, final |-> Append(CLIDir, o.url)],
                  [local |-> <<"sudoers">>, final |-> SudoersInclude]}
    IN  Then(Then(AddLoweredFiles(t, written, files), sudo), LAMBDA x : AddGeneratedProvisioningScript(x, written, script))

(* What the requirements say of the kernel, of the kernels the image got:     *)
(* each of them [name, release].                                              *)
CheckKernel(entries, kernels) ==
    \A e \in Range(entries) : e.kind \notin {"url", "removal"} =>
        CASE e.kernel = "image" -> \E k \in kernels : k.name = e.name
          [] e.kernel = "meta"  -> \E k \in kernels : IsPrefix(e.release, k.release)
          [] e.kernel = "extra" -> \E k \in kernels : k.release = e.release
          [] OTHER -> TRUE
=============================================================================
