------------------------------- MODULE ChrootEnv -------------------------------
(***************************************************************************)
(* The chroot environment of a build (internal/chroot/chrootenv.go,        *)
(* chrootbuild/chrootbuild.go, internal/utils/mount/mount.go): its rootfs  *)
(* is extracted once from a tarball and reused, its repository             *)
(* configuration is swapped for a local one while a build runs, and its    *)
(* mounts are made by InitChrootEnv and removed by CleanupChrootEnv, which *)
(* PostProcess calls and the cleanup coordinator may call again.           *)
(***************************************************************************)
EXTENDS ShellContext

CONSTANTS
  Originals,  \* the repository files the rootfs comes with
  Local,      \* the local repository file
  NoFile,     \* no file: marks that there is no repo-config-backup directory
  Devices     \* loop devices; one stands for its root file system when mounted

ASSUME RepoFiles == Local \notin Originals /\ NoFile \notin Originals \cup {Local}

NoBackup == {NoFile}

VARIABLES
  rootfs,     \* ChrootEnvRoot: empty, part of a rootfs, or a whole one
  tarball,    \* chrootenv.tar.gz: none, part or whole
  conf,       \* the files in the repository configuration directory
  backup,     \* the files in repo-config-backup, or NoBackup
  had,        \* what InitChrootEnv found in both of them
  mounts,     \* what is mounted under ChrootEnvRoot
  cleanupErr  \* CleanupChrootEnv's cleanupErr, or the error it returns

rootfsVars == <<rootfs, tarball, had>>
confVars == <<conf, backup>>
chrootVars == <<rootfsVars, confVars, mounts, cleanupErr>>
envVars == <<pc, contextVars, coordinatorVars, chrootVars>>

\* proc, sys, dev and run of the chroot; its package cache; the same four in
\* the image's root; and a device's root file system at the image's root.
Mounts == {"sys", "repo", "rootsys"} \cup Devices

ConfFiles == Originals \cup {Local}
Held(b) == IF b = NoBackup THEN {} ELSE b

ChrootInit ==
  /\ rootfs = "empty" /\ tarball = "none"
  /\ conf = {} /\ backup = NoBackup /\ had = {}
  /\ mounts = {}
  /\ cleanupErr = FALSE

-----------------------------------------------------------------------------
(* InitChrootEnv: the rootfs *)

\* BuildChrootEnv, for an empty root without a tarball.
BuildTarball(how) ==
  /\ rootfs = "empty" /\ tarball = "none"
  /\ Command("init", how, "init", "failed")
  /\ tarball' \in CASE how = "ok" -> {"whole"}
                    [] how = "refused" -> {"none"}
                    [] OTHER -> {"none", "part", "whole"}
  /\ UNCHANGED <<coordinatorVars, rootfs, had, confVars, mounts, cleanupErr>>

\* DecompressFile and the copy of resolv.conf, for an empty root.
Extract(how) ==
  /\ rootfs = "empty" /\ tarball # "none"
  /\ how = "ok" => tarball = "whole"
  /\ Command("init", how, "mountsys", "failed")
  /\ rootfs' \in CASE how = "ok" -> {"whole"}
                   [] how = "refused" -> {"empty"}
                   [] OTHER -> {"empty", "part", tarball}
  /\ conf' \in CASE rootfs' = "whole" -> {Originals}
                 [] rootfs' = "part" -> SUBSET Originals
                 [] OTHER -> {{}}
  /\ had' = conf'
  /\ UNCHANGED <<coordinatorVars, tarball, backup, mounts, cleanupErr>>

\* A root that is not empty is used as it is.
ReuseRoot ==
  /\ rootfs # "empty"
  /\ Goto("init", "mountsys")
  /\ had' = conf \cup Held(backup)
  /\ UNCHANGED <<coordinatorVars, rootfs, tarball, confVars, mounts, cleanupErr>>

-----------------------------------------------------------------------------
(* InitChrootEnv: mounts and repository configuration *)

\* MountSysfs, and once it is done the registration of CleanupChrootEnv.  When
\* it fails it rolls back, which may fail as well.
MountChrootSysfs(how) ==
  /\ Command("mountsys", how, "backup", "failed")
  /\ IF how = "ok" THEN Register("chroot") ELSE UNCHANGED entries
  /\ mounts' \in CASE how = "ok" -> {mounts \cup {"sys"}}
                   [] how = "refused" -> {mounts}
                   [] OTHER -> {mounts \cup {"sys"}, mounts \ {"sys"}}
  /\ UNCHANGED <<fired, rootfsVars, confVars, cleanupErr>>

\* createChrootRepo copies the files it finds into the backup directory ...
BackUp(how) ==
  /\ conf # {}
  /\ Command("backup", how, "clear", "undo")
  /\ \/ how # "ok" /\ UNCHANGED backup
     \/ backup' \in Reached(how, Held(backup), Held(backup) \cup conf) /\ how # "refused"
  /\ UNCHANGED <<coordinatorVars, rootfsVars, conf, mounts, cleanupErr>>

NothingToBackUp ==
  /\ conf = {}
  /\ Goto("backup", "copylocal")
  /\ UNCHANGED <<coordinatorVars, chrootVars>>

\* ... and removes them.
Clear(how) ==
  /\ Command("clear", how, "copylocal", "undo")
  /\ conf' \in Reached(how, conf, {})
  /\ UNCHANGED <<coordinatorVars, rootfsVars, backup, mounts, cleanupErr>>

\* The local repository file takes their place.
CopyLocal(how) ==
  /\ Command("copylocal", how, "bindrepo", "undo")
  /\ conf' \in Reached(how, conf, conf \cup {Local})
  /\ UNCHANGED <<coordinatorVars, rootfsVars, backup, mounts, cleanupErr>>

\* initChrootLocalRepo: the bind mount, then the repository's metadata.
InitChrootLocalRepo(how) ==
  /\ Command("bindrepo", how, "image", "undo")
  /\ mounts' \in Reached(how, mounts, mounts \cup {"repo"})
  /\ UNCHANGED <<coordinatorVars, rootfsVars, confVars, cleanupErr>>

\* The deferred UmountChrootSysfs of an InitChrootEnv that failed.
UmountChrootSysfs(how) ==
  /\ Command("undo", how, "failed", "failed")
  /\ mounts' \in Reached(how, mounts, mounts \ {"sys"})
  /\ UNCHANGED <<coordinatorVars, rootfsVars, confVars, cleanupErr>>

-----------------------------------------------------------------------------
(* CleanupChrootEnv: from "stopgpg" to "cleaned" *)

\* A failure is remembered and the cleanup goes on.
StopGPGComponents(how) ==
  /\ Command("stopgpg", how, "umountall", "umountall")
  /\ cleanupErr' = (how # "ok")
  /\ UNCHANGED <<coordinatorVars, rootfsVars, confVars, mounts>>

\* A chroot without bash or gpgconf has no agent to stop.
NoGPG ==
  /\ rootfs # "whole"
  /\ Goto("stopgpg", "umountall")
  /\ cleanupErr' = FALSE
  /\ UNCHANGED <<coordinatorVars, rootfsVars, confVars, mounts>>

\* Mutation of UmountSubPath: its error is only logged.
UmountSubPathQuietly(how) ==
  /\ Command("umountall", how, "restore", "restore")
  /\ mounts' \in Reached(how, mounts, {})
  /\ UNCHANGED <<coordinatorVars, rootfsVars, confVars, cleanupErr>>

\* Everything mounted below the root, deepest first; the first mount that
\* resists all four ways of unmounting ends it.
UmountSubPath(how) ==
  /\ Command("umountall", how, "restore", "restore")
  /\ mounts' \in Reached(how, mounts, {})
  /\ cleanupErr' = (cleanupErr \/ how # "ok")
  /\ UNCHANGED <<coordinatorVars, rootfsVars, confVars>>

\* With no backup, or with no file left to replace, nothing is restored.
NothingToRestore ==
  /\ backup = NoBackup \/ conf = {}
  /\ Goto("restore", "cleaned")
  /\ UNCHANGED <<coordinatorVars, chrootVars>>

\* The three steps of a restore; an error in one of them is returned at once.
RemoveLocal(how) ==
  /\ backup # NoBackup /\ conf # {}
  /\ Command("restore", how, "copyback", "cleaned")
  /\ conf' \in Reached(how, conf, {})
  /\ cleanupErr' = (cleanupErr \/ how # "ok")
  /\ UNCHANGED <<coordinatorVars, rootfsVars, backup, mounts>>

CopyBack(how) ==
  /\ Command("copyback", how, "dropbackup", "cleaned")
  /\ conf' \in Reached(how, conf, conf \cup backup)
  /\ cleanupErr' = (cleanupErr \/ how # "ok")
  /\ UNCHANGED <<coordinatorVars, rootfsVars, backup, mounts>>

DropBackup(how) ==
  /\ Command("dropbackup", how, "cleaned", "cleaned")
  /\ \/ how \in {"ok", "cut", "fail"} /\ backup' = NoBackup
     \/ how # "ok" /\ backup' \in Reached(how, backup, {})
  /\ cleanupErr' = (cleanupErr \/ how # "ok")
  /\ UNCHANGED <<coordinatorVars, rootfsVars, conf, mounts>>

-----------------------------------------------------------------------------
InitChrootEnv(how) ==
  \/ BuildTarball(how) \/ Extract(how) \/ MountChrootSysfs(how) \/ BackUp(how)
  \/ Clear(how) \/ CopyLocal(how) \/ InitChrootLocalRepo(how)
  \/ UmountChrootSysfs(how)

CleanupChrootEnv(how) ==
  \/ StopGPGComponents(how) \/ UmountSubPath(how)
  \/ RemoveLocal(how) \/ CopyBack(how) \/ DropBackup(how)

ChrootStep ==
  \/ \E how \in Endings : InitChrootEnv(how) \/ CleanupChrootEnv(how)
  \/ ReuseRoot \/ NothingToBackUp \/ NoGPG \/ NothingToRestore
=============================================================================
