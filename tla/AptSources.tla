----------------------------- MODULE AptSources -----------------------------
(* The apt configuration a deb build generates from the repositories of its  *)
(* template and puts into the image: internal/config/apt_sources.go.         *)
(*                                                                           *)
(* A generated file is told by what it holds: <<"sources">> the list of all  *)
(* repositories, <<"source", suite>> a repository's own list, <<"key", url>> *)
(* a signing key, <<"pin", host, priority>> a preferences file, and          *)
(* <<"own pins", stanzas>> one a repository brings along.  The keys are      *)
(* [cached, served, gpg]: what the cache and the servers hold by URL,        *)
(* "good", "bad" or "empty", and whether gpg is there to tell.               *)
EXTENDS TemplateChecks

AptDir == <<"etc", "apt">>
SourcesList == AptDir \o <<"sources.list.d", "package-repositories.list">>
NoUpgradePinPriority == 50

IsDEBBasedTarget(os) == os \in {"ubuntu", "debian", "elxr", "wind-river-elxr"}

NormalizeRepositoryPriorities(repos) ==
    [i \in DOMAIN repos |-> IF repos[i].priority = 0 THEN [repos[i] EXCEPT !.priority = 500] ELSE repos[i]]

HasOwnFiles(r) == r.own # <<>>
IsListed(r) == r.url # <<>> /\ r.codename # "" /\ ~HasOwnFiles(r)

(* Files to generate have the places of their repositories; of two at one     *)
(* path the later is what is there.                                          *)
Written(files) ==
    [p \in {f.final : f \in Range(files)} |->
        files[Max({i \in DOMAIN files : files[i].final = p})].local]

(* Mutant: no look at the scripts. *)
AddUncheckedAdditionalFiles(t, files) == Accept([t EXCEPT !.system.files = Over(@, Written(files))])

(* A script's file is not written over; anything else at the path is.        *)
AddGeneratedAdditionalFiles(t, files) ==
    Check([t EXCEPT !.system.files = Over(@, Written(files))],
          \A s \in Range(t.system.scripts), f \in Range(files) : ~Overlaps(s.final, f.final))

AddAptSourcesFile(t) ==
    AddGeneratedAdditionalFiles(t, <<[local |-> <<"sources">>, final |-> SourcesList]>>)

AddOwnSourcesListFiles(t) ==
    AddGeneratedAdditionalFiles(t,
        [i \in {i \in DOMAIN t.repos : HasOwnFiles(t.repos[i])} |->
            [local |-> <<"source", t.repos[i].codename>>, final |-> t.repos[i].own[1].listFile]])

-----------------------------------------------------------------------------
NoKeyNeeded == {"", "<PUBLIC_KEY_URL>", "[trusted=yes]"}

ValidateGPGKeyData(keys, data) == data # "empty" /\ (keys.gpg => data = "good")

(* The key as cached, if it still passes for one; else as served now. *)
GetCachedOrDownloadGPGKey(keys, url) ==
    LET usable(store) == url \in DOMAIN store /\ ValidateGPGKeyData(keys, store[url])
    IN  IF usable(keys.cached) THEN <<keys.cached[url]>>
        ELSE IF usable(keys.served) THEN <<keys.served[url]>> ELSE <<>>

ExtractGPGKeyFilename(url) == AptDir \o <<"trusted.gpg.d", url>>

DownloadAndAddGPGKeys(t, keys) ==
    LET signed == {i \in DOMAIN t.repos : t.repos[i].key \notin NoKeyNeeded}
        file(r) == [local |-> <<"key", r.key>>,
                    final |-> IF HasOwnFiles(r) THEN r.own[1].keyFile ELSE ExtractGPGKeyFilename(r.key)]
    IN  IF \E i \in signed : GetCachedOrDownloadGPGKey(keys, t.repos[i].key) = <<>> THEN Refused
        ELSE AddGeneratedAdditionalFiles(t, [i \in signed |-> file(t.repos[i])])

-----------------------------------------------------------------------------
(* What becomes of a name in a file's: dots, slashes and colons are dashes.   *)
SanitizeFilename(name) == IF name = "a.x" THEN "a-x" ELSE name
GeneratePreferencesFilename(r) ==
    LET suite == IF r.codename = "" THEN "repository" ELSE r.codename
    IN  <<SanitizeFilename(suite), SanitizeFilename(Origin(r))>>
PreferencesPath(r) == AptDir \o <<"preferences.d">> \o GeneratePreferencesFilename(r)

(* Installable but never an upgrade, unless the template pins it lower yet.   *)
PinPriority(t, r) ==
    IF ~RepoMayUpgrade(t, r) /\ (r.priority >= NoUpgradePinPriority \/ r.priority = 0)
    THEN NoUpgradePinPriority ELSE r.priority

(* What a repository of the OEP Installer brings along, or a pin of its host. *)
HasPreferences(r) == IF HasOwnFiles(r) THEN r.own[1].prefsFile # <<>> ELSE Origin(r) # ""
PreferencesFile(t, r) ==
    IF HasOwnFiles(r) THEN [local |-> <<"own pins", r.own[1].pins>>, final |-> r.own[1].prefsFile]
    ELSE [local |-> <<"pin", Origin(r), PinPriority(t, r)>>, final |-> PreferencesPath(r)]

GenerateAptPreferencesFromRepositories(t) ==
    IF \E r \in Range(t.repos) : HasOwnFiles(r) /\ ~RepoMayUpgrade(t, r) THEN Refused
    ELSE AddGeneratedAdditionalFiles(t,
            [i \in {i \in DOMAIN t.repos : HasPreferences(t.repos[i])} |-> PreferencesFile(t, t.repos[i])])

(* Without a repository to list, neither keys nor preferences are written.   *)
GenerateAptSourcesFromRepositories(t, keys) ==
    LET listed(x) == IF \E r \in Range(x.repos) : IsListed(r) THEN AddAptSourcesFile(x) ELSE Accept(x)
        generate(x) == Then(Then(Then(listed(x), AddOwnSourcesListFiles),
                                 LAMBDA y : DownloadAndAddGPGKeys(y, keys)),
                            GenerateAptPreferencesFromRepositories)
    IN  IF t.repos = <<>> \/ ~IsDEBBasedTarget(t.target) THEN Accept(t)
        ELSE With([t EXCEPT !.repos = NormalizeRepositoryPriorities(@)], LAMBDA x :
                 IF \E r \in Range(x.repos) : IsListed(r) \/ HasOwnFiles(r) THEN generate(x) ELSE Accept(x))
=============================================================================
