--------------------------- MODULE TemplateBuild ---------------------------
(* The way of an image template: found by its chain of extends, merged over  *)
(* the default of its target, checked and lowered, overridden from the       *)
(* command line, and given what the OEP Installer and the apt repositories   *)
(* generate, until the image is made of it.  The web service goes the first  *)
(* part of the way too, for a selection of a user's that it turns into a     *)
(* delta template.                                                           *)
(*                                                                           *)
(* A world is what is on the disk and on the network:                        *)
(*   files, links  the template files, and the symbolic links among them     *)
(*   leaf          the template asked for; dir the service's template        *)
(*                 directory, which holds it                                 *)
(*   default       <<>> or the default template of the target                *)
(*   host          the lines of the host files templates name                *)
(*   overrides     the command line's                                        *)
(*   request       "build", or "compose" or "start" for a selection          *)
(*   sel, catalogue, edgePack, os, imageType   what the service is asked,    *)
(*                 and what it offers                                        *)
(*   oep, kernels  the installer's documents, the kernels the image gets     *)
(*   keys          the signing keys, cached and served                       *)
EXTENDS OepRequirements, AptSources, ComposeDelta

CONSTANT Worlds

(* The names of files; a path may also hold "." and "..".                    *)
Names == STRING \ {".", ".."}
Delta(dir) == Append(dir, ".ict-adv.yml")

(* Where the files of a world are is written without links, and no file is a *)
(* directory of another.                                                     *)
ASSUME FilesAssumption ==
    \A w \in Worlds :
        LET paths == DOMAIN w.files \cup {Delta(w.dir)} IN
        /\ w.dir \in Seq(Names) /\ w.leaf \in Seq(Names) /\ w.leaf # <<>>
        /\ \A p \in DOMAIN w.links : w.links[p] \in Seq(Names)
        /\ \A p \in DOMAIN w.files : w.files[p].extends \in Seq(STRING)
        /\ paths \subseteq Seq(Names)
        /\ \A p, q \in paths : IsPrefix(p, q) => p = q

(* What a layer is made of.  The names by which the kinds of generated files   *)
(* go are no host file's, and the name of a preferences file, its suite and   *)
(* its host in one in the code, is not the policy's.                          *)
IsList(s) == s \in Seq(Range(s))
IsHostFile(f) == f[1] \notin {"pin", "own pins"}
IsRepository(r) ==
    /\ DOMAIN r = DOMAIN NoRepository
    /\ r.codename # "00-ict-apt-policy"
    /\ r.url # <<>> => r.url[1] # ""
    /\ ~HasOwnFiles(r) => r.priority \in Int
IsTemplate(t) ==
    /\ DOMAIN t = DOMAIN NoTemplate /\ DOMAIN t.system = DOMAIN NoSystem
    /\ IsList(t.system.scripts) /\ \A s \in Range(t.system.scripts) : IsList(s.final)
    /\ \A f \in DOMAIN t.system.files : IsHostFile(t.system.files[f])
    /\ IsList(t.repos) /\ \A r \in Range(t.repos) : IsRepository(r)
IsLayer(t) == IsTemplate(t) /\ \A r \in Range(t.repos) : ~HasOwnFiles(r)

(* The schema of the installer's documents says where their files may be, but *)
(* for keys.                                                                  *)
IsIn(dir, f) == IsList(f) /\ IsPrefix(dir, f) /\ Len(f) > Len(dir)
IsOepRepository(r) ==
    /\ IsIn(AptDir \o <<"sources.list.d">>, r.listFile)
    /\ r.prefsFile # <<>> => IsIn(AptDir \o <<"preferences.d">>, r.prefsFile)
    /\ r.suite # "00-ict-apt-policy"
    /\ r.url # <<>> => r.url[1] # ""

ASSUME LayersAssumption ==
    \A w \in Worlds :
        /\ \A p \in DOMAIN w.files : IsLayer(w.files[p])
        /\ w.default # <<>> => IsLayer(w.default[1])
        /\ \A f \in DOMAIN w.host : IsHostFile(f)
        /\ IsList(w.oep) /\ \A d \in Range(w.oep) : d.repo # <<>> => IsOepRepository(d.repo[1])
        /\ IsList(w.catalogue)
        /\ \A r \in Range(w.catalogue) : r.index # <<>> =>
              /\ "00-ict-apt-policy" \notin {r.id, r.index[1].codename}
              /\ r.index[1].url # <<>> => r.index[1].url[1] # ""
              /\ r.priority \in Int

VARIABLES
    world,
    files,     \* the template files, a delta of the service's among them
    goal,      \* what the template is loaded for
    pc,
    chain,     \* the layers loaded so far, the leaf first: [path, layer]
    template,  \* <<>>, or what has become of them
    views      \* the results the service compares: of the parent, of the delta
templateVars == <<world, files, goal, pc, chain, template, views>>

(* A name on a path is followed from the directory reached so far, where a    *)
(* symbolic link leads to what it names.                                     *)
Follow(at, name, links) ==
    CASE name = ".." -> IF at = <<>> THEN at ELSE Front(at)
      [] name = "."  -> at
      [] OTHER       -> LET next == Append(at, name)
                        IN  IF next \in DOMAIN links THEN links[next] ELSE next

Walk(path, links) ==
    LET at[n \in 0..Len(path)] == IF n = 0 THEN <<>> ELSE Follow(at[n - 1], path[n], links)
    IN  at[Len(path)]

(* A path as cleaned before it is used, and as the system resolves it.       *)
Clean(path) == Walk(path, <<>>)
CanonicalPath(path) == Walk(path, world.links)

(* The sections of a layer are records and functions of their kinds.  A       *)
(* template the service offers is in its directory, and the name of the delta *)
(* beside it is no other file's (writeDelta draws it).                        *)
Like(r, s) == r = [f \in DOMAIN s |-> r[f]]
HasSections(t) ==
    /\ Like(t.system.kernel, NoKernel) /\ Like(t.system.network, NoNetwork)
    /\ Like(t.system.bootloader, NoBootloader)
    /\ IsList(t.system.configurations) /\ Like(t.system.files, t.system.files)
    /\ \A n \in DOMAIN t.system.users : Like(t.system.users[n], NoUser)

ASSUME SelectionAssumption ==
    \A w \in {x \in Worlds : x.request # "build"} :
        /\ Len(w.dir) < Len(w.leaf) /\ IsPrefix(w.dir, w.leaf) /\ w.leaf[Len(w.dir) + 1] # "/"
        /\ Walk(w.dir, w.links) = w.dir
        /\ Delta(w.dir) \notin DOMAIN w.files \cup DOMAIN w.links
        /\ \A p \in DOMAIN w.files : HasSections(w.files[p])
        /\ w.default # <<>> => HasSections(w.default[1])

(* The check for a link follows those in the directories before.             *)
CheckSymlink(path) == Append(CanonicalPath(Front(path)), Last(path)) \notin DOMAIN world.links

Loadable(path) ==
    /\ CheckSymlink(path)
    /\ CanonicalPath(path) \in DOMAIN files
    /\ ValidateLayer(files[CanonicalPath(path)], world.host)
LoadTemplate(path) == [path |-> path, layer |-> files[CanonicalPath(path)]]

ResolveExtendsParentPath(child, ref) ==
    Clean(IF ref[1] = "/" THEN Tail(ref) ELSE Front(child) \o ref)

(* Mutant: containment by the spelling of the paths only. *)
VerifyLexicalContainment(child, parent) == IsPrefix(Front(child), parent)
VerifyResolvedContainment(child, parent) ==
    IsPrefix(CanonicalPath(Front(child)), CanonicalPath(parent))

Below(dir, path) == IsPrefix(dir, path) /\ path # dir

AcceptsParent(parent) ==
    LET child == Last(chain).path IN
    /\ Below(Front(child), parent)
    /\ CanonicalPath(parent) \in DOMAIN files
    /\ VerifyResolvedContainment(child, parent)
    /\ \A l \in Range(chain) : CanonicalPath(l.path) # CanonicalPath(parent)
    /\ Loadable(parent)
    /\ LoadTemplate(parent).layer.target = chain[1].layer.target

-----------------------------------------------------------------------------
Fail == /\ pc' = "failed" /\ template' = <<>>
        /\ files' = world.files
        /\ UNCHANGED <<world, goal, chain, views>>
Become(r, next) == /\ r # Refused /\ template' = r /\ pc' = next
                   /\ UNCHANGED <<world, files, goal, chain, views>>

(* Load a template for goal. *)
Load(path, for) ==
    /\ goal' = for /\ chain' = IF Loadable(path) THEN <<LoadTemplate(path)>> ELSE <<>>
    /\ pc' = "load" /\ template' = <<>>

DeltaPath == Delta(world.dir)

LoadFails ==
    /\ pc = "load"
    /\ chain # <<>> =>
          LET refs == Last(chain).layer.extends
          IN  refs # <<>> /\ ~AcceptsParent(ResolveExtendsParentPath(Last(chain).path, refs))
    /\ pc' = "merged" /\ template' = <<>> /\ UNCHANGED <<world, files, goal, chain, views>>

LoadParent ==
    /\ pc = "load" /\ chain # <<>>
    /\ LET refs == Last(chain).layer.extends
           parent == ResolveExtendsParentPath(Last(chain).path, refs)
       IN  refs # <<>> /\ AcceptsParent(parent) /\ chain' = Append(chain, LoadTemplate(parent))
    /\ UNCHANGED <<world, files, goal, pc, template, views>>

UserChain == With(Reverse(chain), LAMBDA s : [i \in DOMAIN s |-> s[i].layer])
UserMerged == With(UserChain, LAMBDA s : FoldChain(s[1], Tail(s)))

LoadOverlay(merged) ==
    IF ValidateBaseline(merged) /\ ValidateUsers(merged) THEN LowerSSHKeyFiles(merged, world.host) ELSE Refused
LoadFinal(merged) ==
    IF ValidateBaseline(merged) THEN FinalizeProvisioning(merged, world.host) ELSE Refused

(* Overlays have no default; a default that is not there is done without.     *)
LoadAndMergeTemplate ==
    /\ pc = "load" /\ chain # <<>> /\ Last(chain).layer.extends = <<>>
    /\ template' = With([UserMerged EXCEPT !.extends = <<>>], LAMBDA user :
                       IF IsOverlayMode(user) THEN LoadOverlay(user)
                       ELSE LoadFinal(IF world.default = <<>> THEN user
                                      ELSE FoldChain(world.default[1], UserChain)))
    /\ pc' = "merged" /\ UNCHANGED <<world, files, goal, chain, views>>

-----------------------------------------------------------------------------
(* The service: a selection is checked against the template it starts from.  *)
ComposeParent ==
    /\ pc = "merged" /\ goal = "parent"
    /\ IF /\ template # <<>>
          /\ ValidateCredentials(world.sel.credentials, template[1])
          /\ ValidateNewUsers(world.sel.newUsers, template[1])
       THEN pc' = "delta" /\ UNCHANGED <<world, files, goal, chain, template, views>>
       ELSE Fail

(* The delta is written beside the template. *)
DeltaForOverride ==
    /\ pc = "delta"
    /\ IF ~Loadable(world.leaf) THEN Fail
       ELSE /\ files' = Put(files, DeltaPath,
                            BuildDelta(SubSeq(world.leaf, Len(world.dir) + 1, Len(world.leaf)),
                                       files[CanonicalPath(world.leaf)], world.sel,
                                       world.catalogue, world.os, world.edgePack))
            /\ pc' = "resolve" /\ UNCHANGED <<world, goal, chain, template, views>>

ResolveDelta == pc = "resolve" /\ Load(DeltaPath, "delta") /\ UNCHANGED <<world, files, views>>

(* Asked only for the composition, the service shows it beside what the       *)
(* template alone comes to, then the delta goes.                             *)
ComposeResult ==
    /\ pc = "merged" /\ goal = "delta" /\ world.request = "compose"
    /\ IF template = <<>> THEN Fail
       ELSE Load(world.leaf, "base") /\ views' = [views EXCEPT !.delta = template] /\ UNCHANGED <<world, files>>

ComposeBase ==
    /\ pc = "merged" /\ goal = "base"
    /\ views' = [views EXCEPT !.base = template]
    /\ files' = world.files /\ pc' = "composed" /\ UNCHANGED <<world, goal, chain, template>>

(* Asked to build, it makes sure there is a way to log in, if it can tell,    *)
(* and leaves the delta to the build.                                        *)
CheckTemplateCredentials ==
    /\ pc = "merged" /\ goal = "delta" /\ world.request = "start"
    /\ IF template # <<>> /\ ~ValidateUserCredentials(template[1].system.users) THEN Fail
       ELSE Load(DeltaPath, "build") /\ UNCHANGED <<world, files, views>>

-----------------------------------------------------------------------------
(* The build. *)
BuildOverridden ==
    /\ pc = "merged" /\ goal = "build"
    /\ LET r == Then(template, LAMBDA t : ApplyCompositionOverrides(t, world.overrides, world.host))
       IN  IF r = Refused THEN Fail
           ELSE Become(r, IF IsOverlayMode(r[1]) THEN "image" ELSE "oep")

ApplyOEPInstaller ==
    /\ pc = "oep"
    /\ LET t == template[1]
           r == IF t.system.oep = <<>> THEN Accept(t)
                ELSE IF ~Parse(world.oep, t.system.oep[1]) THEN Refused
                ELSE Then(Apply(t, Requirements(world.oep)), LAMBDA x : AddFirstBoot(x, world.host))
       IN  IF r = Refused THEN Fail ELSE Become(r, "apt")

GenerateAptSources ==
    /\ pc = "apt"
    /\ LET r == GenerateAptSourcesFromRepositories(template[1], world.keys)
       IN  IF r = Refused THEN Fail ELSE Become(r, "download")

DownloadImagePkgs ==
    /\ pc = "download"
    /\ IF template[1].system.oep # <<>> /\ ~CheckKernel(Requirements(world.oep).packages, world.kernels)
       THEN Fail ELSE Become(template, "image")

(* Accounts are the last that is looked at before the image is theirs. *)
CreateUsers ==
    /\ pc = "image"
    /\ IF ValidateUserCredentials(template[1].system.users) THEN Become(template, "done") ELSE Fail

TemplateInit ==
    /\ world \in Worlds
    /\ files = world.files
    /\ views = [base |-> <<>>, delta |-> <<>>]
    /\ IF world.request = "build"
       THEN /\ goal = "build" /\ pc = "load" /\ template = <<>>
            /\ chain = IF Loadable(world.leaf) THEN <<LoadTemplate(world.leaf)>> ELSE <<>>
       ELSE /\ goal = "parent" /\ template = <<>>
            /\ HasOverrides(world.sel)
            /\ ValidateImageName(world.sel.name) /\ ValidatePackages(world.sel.packages)
            /\ ValidateDisk(world.sel.disk, world.imageType)
            /\ IF world.sel.credentials = <<>> /\ world.sel.newUsers = <<>>
               THEN pc = "delta" /\ chain = <<>>
               ELSE /\ pc = "load"
                    /\ chain = IF Loadable(world.leaf) THEN <<LoadTemplate(world.leaf)>> ELSE <<>>

TemplateNext == \/ LoadFails \/ LoadParent \/ LoadAndMergeTemplate
        \/ ComposeParent \/ DeltaForOverride \/ ResolveDelta
        \/ ComposeResult \/ ComposeBase \/ CheckTemplateCredentials
        \/ BuildOverridden \/ ApplyOEPInstaller \/ GenerateAptSources \/ DownloadImagePkgs \/ CreateUsers

TemplateSpec == TemplateInit /\ [][TemplateNext]_templateVars

-----------------------------------------------------------------------------
(* However extends is spelled, and whatever directories are links, no file   *)
(* is twice in a chain and none lies outside the directory of the template   *)
(* asked for (resolveExtendsChainFromLeaf checks each step by itself).       *)
LayersAreDistinct ==
    \A i, j \in DOMAIN chain :
        /\ i # j => CanonicalPath(chain[i].path) # CanonicalPath(chain[j].path)
        /\ Below(CanonicalPath(Front(chain[1].path)), CanonicalPath(chain[i].path))

Underway == goal = "build" /\ template # <<>> /\ pc \in {"oep", "apt", "download", "image", "done"}

(* What runs on the target is what the template named: whichever layer, flag, *)
(* installer or repository came later, each provisioning script's file is     *)
(* still its own, no other file lies over or below it, a script that reboots  *)
(* is the last, and no file is where the tool generates its own.  Only the    *)
(* first script, when the OEP Installer adds it, makes paths generated that   *)
(* no check has kept free, and only a key of the installer's repositories     *)
(* goes where it says (addGeneratedAdditionalFile looks at scripts alone).    *)
ScriptsSurvive ==
    Underway /\ ~IsOverlayMode(template[1]) =>
        LET s == template[1].system
            ownKeys == {r.own[1].keyFile : r \in {x \in Range(template[1].repos) : HasOwnFiles(x)}}
        IN
        /\ \A x \in Range(s.scripts) :
              /\ x.final \in DOMAIN s.files /\ s.files[x.final] = x.local
              /\ \A f \in DOMAIN s.files : Overlaps(f, x.final) => f = x.final
        /\ RebootAfterIsLast(s.scripts)
        /\ \/ s.oep # <<>> /\ Len(s.scripts) = 1
           \/ \A f \in DOMAIN s.files \ ownKeys : NotGenerated(template[1], f)

(* The stanzas of a preferences file, made or brought along, that concern a   *)
(* host and let it upgrade: a stanza without a host concerns them all.        *)
Upgrading(stanzas, host) ==
    {s \in stanzas : s.origin \in {"", host} /\ s.priority > NoUpgradePinPriority}
Stanzas(f) ==
    CASE f[1] = "pin" -> {[packages |-> "*", origin |-> f[2], priority |-> f[3]]}
      [] f[1] = "own pins" -> Range(f[2])
      [] OTHER -> {}

(* A repository the template denies upgrades has a pin in the image that      *)
(* gives it none, unless its file is written over: by another host's, whose   *)
(* name sanitizeFilename makes the same, or by the OEP Installer's of that    *)
(* name.  No preferences that are generated raise its host, whatever          *)
(* repositories share it; the preferences one of the installer's repositories *)
(* brings along, which go into the image as they are, may, and nothing else:  *)
(* then such a repository that may itself upgrade has them in the file it     *)
(* names, and they say so of the host or of every host.                       *)
DeniedRaisedOnlyByInstaller ==
    Underway /\ pc \in {"download", "image", "done"} =>
        LET t == template[1]
            installed == t.system.files
            displaced(r) == \E o \in Range(t.repos) :
                                \/ Origin(o) # Origin(r) /\ PreferencesPath(o) = PreferencesPath(r)
                                \/ HasOwnFiles(o) /\ o.own[1].prefsFile = PreferencesPath(r)
            pinned(r) == /\ PreferencesPath(r) \in DOMAIN installed
                         /\ LET f == installed[PreferencesPath(r)]
                            IN  f[1] = "pin" /\ f[2] = Origin(r) /\ f[3] <= NoUpgradePinPriority
            brings(o, f, r) == /\ HasOwnFiles(o) /\ o.own[1].prefsFile = f /\ RepoMayUpgrade(t, o)
                               /\ Upgrading(Range(o.own[1].pins), Origin(r)) # {}
        IN  IsDEBBasedTarget(t.target) /\ (\E x \in Range(t.repos) : IsListed(x)) =>
              \A r \in Range(t.repos) :
                ~HasOwnFiles(r) /\ r.url # <<>> /\ ~RepoMayUpgrade(t, r) =>
                    /\ displaced(r) \/ pinned(r)
                    /\ \A f \in DOMAIN installed : Upgrading(Stanzas(installed[f]), Origin(r)) # {} =>
                          \E o \in Range(t.repos) : brings(o, f, r)

(* What the service composes differs from the template by what was chosen     *)
(* and by nothing else: everyone the selection does not name is as before,    *)
(* those it gives a credential keep their groups and their rights, no package *)
(* and no repository is lost, and only another disk switches immutability     *)
(* off - or the merge itself, where there was none before.                   *)
DeltaChangesOnlyWhatWasAsked ==
    pc = "composed" /\ views.base # <<>> =>
        LET base == views.base[1]
            got == views.delta[1]
            sel == world.sel
            unasked(s) == [s EXCEPT !.users = <<>>, !.packages = {}, !.immutability = NoImmutability,
                                    !.dkms = NoDkms]
            login(u) == [u EXCEPT !.password = "", !.algo = "", !.keys = {}]
        IN  /\ unasked(got.system) = unasked(base.system)
            /\ got.system.packages = base.system.packages \cup sel.packages
            /\ DOMAIN got.system.users = DOMAIN base.system.users \cup DOMAIN sel.newUsers
            /\ \A n \in DOMAIN base.system.users :
                  /\ login(got.system.users[n]) = login(base.system.users[n])
                  /\ base.system.users[n].keys \subseteq got.system.users[n].keys
                  /\ n \notin DOMAIN sel.credentials => got.system.users[n] = base.system.users[n]
            /\ \A r \in Range(base.repos) : \E x \in Range(got.repos) : SameRepository(x, r)
            /\ sel.disk = <<>> => got.disk = base.disk
            /\ sel.disk = <<>> /\ HasHashPartition(base.disk) =>
                  got.system.immutability = base.system.immutability
            /\ ~SelectsEdgePack(sel.packages, world.edgePack) => got.system.dkms = base.system.dkms
            /\ got.target = base.target /\ got.baseline = base.baseline
            /\ got.overlayPolicy = base.overlayPolicy
=============================================================================
