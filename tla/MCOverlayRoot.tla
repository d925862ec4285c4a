---------------------------- MODULE MCOverlayRoot -----------------------------
(* Small worlds for OverlayRoot: each family of inputs varies one part of the   *)
(* build and keeps the rest plain.                                              *)
EXTENDS OverlayRoot

CONSTANTS app, lib, tool, kold, knew, meta, mods, boot

MCPackages == {app, lib, tool, kold, knew, meta, mods, boot}
MCVersions == {1, 2}
MCImages == {kold, knew, meta}
MCAliases == {meta}
MCFamily == {mods}
MCBootloaders == {boot}

Alt(p, V) == [on |-> p, in |-> V]
Dep(p, alts) == [pkg |-> p, alts |-> alts]
Clash(p, on, V, kind) == [pkg |-> p, on |-> on, in |-> V, kind |-> kind]
Some(S) == {{}} \cup {{x} : x \in S}

Plain == [family |-> "deb", base |-> [p \in {lib, tool, kold, mods, boot} |-> 1], virtual |-> {},
          needs |-> {}, repo |-> [p \in {app, lib, knew, mods, boot} |-> 2],
          deps |-> {}, gives |-> {}, clash |-> {}, gone |-> {},
          requested |-> {app}, swap |-> NoSwap, allow |-> {}, bootloader |-> "grub2",
          unread |-> {},
          disk |-> [cur |-> 4000, size |-> 0, max |-> 0, free |-> 3000, sum |-> 100,
                    known |-> "all", gpt |-> TRUE, last |-> TRUE],
          ships |-> {}, prefile |-> FALSE, modules |-> FALSE, config |-> "nothing",
          generator |-> "dracut", mkconfig |-> TRUE, cmdline |-> FALSE,
          user |-> FALSE, owners |-> {}]

\* Dependencies, conflicts and obsoletes of an ordinary package, under every policy.
Ordinary ==
  {[Plain EXCEPT !.family = fam, !.allow = allow, !.deps = deps, !.needs = needs,
                 !.clash = clash, !.gone = gone, !.requested = asked, !.gives = gives] :
     fam \in {"deb", "rpm"}, allow \in SUBSET {"upgrade", "removal", "conflict"},
     deps \in Some({Dep(app, <<Alt(lib, MCVersions)>>), Dep(app, <<Alt(lib, {2})>>),
                    Dep(app, <<Alt(tool, {2}), Alt(lib, {1})>>)}),
     needs \in Some({Dep(tool, <<Alt(lib, {1})>>), Dep(tool, <<Alt(lib, MCVersions)>>),
                     Dep(boot, <<Alt(tool, MCVersions)>>), Dep(lib, <<Alt(tool, MCVersions)>>)}),
     clash \in Some({Clash(app, lib, {1}, "breaks"), Clash(app, tool, MCVersions, "conflicts"),
                     Clash(app, boot, MCVersions, "conflicts")}),
     gone \in Some({[pkg |-> app, on |-> tool, in |-> MCVersions]}),
     asked \in {{app}, {app, lib}}, gives \in {{}, {<<app, tool>>}}}

\* Kernel swaps by name, by alias and by pattern.
Swaps ==
  {[Plain EXCEPT !.family = fam, !.allow = allow, !.swap = swap, !.deps = deps, !.needs = needs,
                 !.requested = asked, !.bootloader = loader,
                 !.repo = [p \in {app, lib, kold, knew, meta, mods, boot} |-> IF p = kold THEN 1 ELSE 2],
                 !.base = [p \in {lib, tool, mods, boot} \cup images |-> 1]] :
     fam \in {"deb", "rpm"}, allow \in {{"upgrade"}, {"upgrade", "removal"}},
     images \in {{kold}, {kold, meta}, {knew}},
     swap \in {[glob |-> FALSE, names |-> {knew}], [glob |-> FALSE, names |-> {meta}],
               [glob |-> TRUE, names |-> {knew, kold}], [glob |-> TRUE, names |-> {mods}]},
     deps \in {{Dep(meta, <<Alt(knew, MCVersions)>>)},
               {Dep(meta, <<Alt(knew, MCVersions)>>), Dep(knew, <<Alt(mods, {2})>>)}},
     needs \in Some({Dep(tool, <<Alt(kold, MCVersions)>>), Dep(tool, <<Alt(mods, {1})>>),
                     Dep(meta, <<Alt(kold, MCVersions)>>)}),
     asked \in {{}, {app, kold}}, loader \in {"grub2", "systemd-boot"}}

\* Swaps for an image that is a virtual name of the baseline, or for a meta package
\* that brings none.
HollowSwaps ==
  {[x EXCEPT !.virtual = v, !.deps = deps] :
     x \in {y \in Swaps : y.family = "deb" /\ y.requested = {} /\ y.bootloader = "grub2"},
     v \in Some({knew}), deps \in Some({Dep(meta, <<Alt(knew, MCVersions)>>)})}

\* Sizes, with and without a ceiling.
Sizes ==
  {[Plain EXCEPT !.requested = asked,
                 !.disk = [cur |-> 4000, size |-> want, max |-> max, free |-> free, sum |-> sum,
                           known |-> known, gpt |-> gpt, last |-> last]] :
     asked \in {{}, {app}}, want \in {0, 3000, 5000}, max \in {0, 4500, 6000},
     free \in {0, 2000}, sum \in {0, 2000}, known \in {"all", "some", "none"},
     gpt \in BOOLEAN, last \in BOOLEAN}

\* Boot content from every source.
Boots ==
  {[Plain EXCEPT !.requested = asked, !.ships = ships, !.unread = unread, !.prefile = pre,
                 !.modules = mod, !.config = config, !.generator = gen, !.mkconfig = mk,
                 !.cmdline = cmd, !.bootloader = loader] :
     asked \in {{}, {app}, {app, knew}}, ships \in {{}, {app}}, unread \in Some({app}),
     pre \in BOOLEAN, mod \in BOOLEAN, config \in {"nothing", "boot"},
     gen \in {"none", "dracut"}, mk \in BOOLEAN, cmd \in BOOLEAN,
     loader \in {"grub2", "uki"}}

\* An account of the template's name that is there already, or by then.
Accounts == {[Plain EXCEPT !.user = user, !.owners = owners] :
               user \in BOOLEAN, owners \in Some({"baseline", "script"})}

\* The same with an artifact that cannot be read, and one that then erases a
\* bootloader, an image or a package of the kernel's.
Unreadable ==
  {[x EXCEPT !.unread = {app}] : x \in Ordinary}
  \cup {[Plain EXCEPT !.family = "rpm", !.allow = {"upgrade"}, !.requested = {app, lib}, !.unread = {app},
                      !.gone = {[pkg |-> app, on |-> p, in |-> MCVersions]}, !.swap = swap] :
          p \in {boot, kold, mods}, swap \in {NoSwap, [glob |-> FALSE, names |-> {kold}],
                                             [glob |-> FALSE, names |-> {knew}]}}

MCWorlds == Unreadable \cup Ordinary \cup Swaps \cup HollowSwaps \cup Sizes \cup Boots \cup Accounts
=============================================================================
