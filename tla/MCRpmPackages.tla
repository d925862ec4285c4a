--------------------------- MODULE MCRpmPackages ---------------------------
EXTENDS RpmPackages

V == INSTANCE DebVersion

(* Two applications a and b, a library c, d that can stand in for it. *)
MCNames == <<"a", "b", "c", "d", "d-2">>

MCBaseOf(f) == IF f[1] = "d-2" THEN "d" ELSE f[1]

Entry(n, o, w) == [name |-> n, op |-> o, ver |-> w]
Dep(n) == Entry(n, "", 0)
Pkg(n, w, r, q, pr, fs) == [pkg |-> n, ver |-> w, dist |-> FALSE, repo |-> r,
                            reqs |-> q, prov |-> pr \cup {n}, files |-> fs]
Req(k, n, w) == [kind |-> k, name |-> n, vers |-> w, names |-> {}, kernel |-> FALSE]
Kernel(n) == [Req("name", n, {}) EXCEPT !.kernel = TRUE]
Glob(ns) == [Req("glob", "", {}) EXCEPT !.names = ns]

(* What the applications require: the library at any or some version, what   *)
(* it provides, a file of it, something nobody has.                          *)
AReqs == {<<Dep("c")>>, <<Entry("c", ">=", 2)>>, <<Entry("c", ">", 2)>>, <<Entry("c", "<=", 1)>>,
          <<Dep("cap")>>, <<Dep("/file"), Dep("x")>>}
BReqs == {<<>>, <<Entry("c", "<=", 1), Dep("a")>>, <<Dep("a"), Entry("c", "<=", 1)>>,
          <<Entry("c", ">=", 2), Entry("c", "<", 3)>>,
          <<Dep("d"), Entry("c", "=", 2)>>, <<Dep("cap"), Entry("c", ">", 1)>>}

(* The library side: base's and the user repository's. *)
Libraries == {
    << <<Pkg("c", 1, "base", <<>>, {"cap"}, {})>>,
       <<Pkg("c", 2, "user", <<Dep("d")>>, {"cap"}, {}), Pkg("d", 1, "user", <<>>, {}, {"/file"})>> >>,
    << <<Pkg("c", 1, "base", <<>>, {}, {"/file"}), Pkg("c", 2, "base", <<Dep("d")>>, {}, {"/file"}),
         Pkg("d", 1, "base", <<Dep("a")>>, {"cap"}, {})>>,
       <<[Pkg("c", 3, "user", <<>>, {}, {}) EXCEPT !.dist = TRUE]>> >>,
    << <<Pkg("d", 1, "base", <<Entry("c", "=", 2)>>, {"cap"}, {})>>,
       <<Pkg("c", 2, "user", <<>>, {"cap"}, {"/file"}),
         Pkg("d-2", 1, "user", <<>>, {"d"}, {})>> >>}

Requests == {<<Req("name", "a", {}), Req("name", "b", {})>>,
             <<Req("name", "b", {}), Req("file", "c", {2})>>,
             <<Req("prefix", "c", {1, 2}), Req("name", "a", {}), Kernel("d")>>,
             <<Glob({"a", "c"}), Req("name", "b", {})>>}

Keyed == [base |-> "own", user |-> "own", local |-> "own"]

(* Resolution: one build, nothing fails, the mirrors stand still. *)
ResolverWorlds ==
    {[listing |-> [base |-> << <<Pkg("a", 1, "base", ra, {}, {})>> \o l[1] >>,
                   user |-> << <<Pkg("b", 1, "user", rb, {}, {})>> \o l[2] >>],
      skipped |-> {}, local |-> <<>>, keys |-> Keyed, priority |-> [user |-> pr], requests |-> q,
      otherRequests |-> {}, kernelVers |-> {1}, builds |-> 1, faults |-> 0] :
        ra \in AReqs, rb \in BReqs, l \in Libraries, q \in Requests, pr \in {0, 600, 400}}

(* The caches: base replaces a 1 by a 2, the user repository lists the same  *)
(* file of c as base or drops it, with a key, without one or trusted; a      *)
(* local repository has d.                                                   *)
A(w) == Pkg("a", w, "base", <<Dep("c")>>, {}, {})
C(r) == Pkg("c", 1, r, <<>>, {}, {})
D == Pkg("d", 1, "local", <<>>, {}, {})
Import(k, ps) == [kind |-> k, pkgs |-> ps]
CacheWorlds ==
    {[listing |-> [base |-> << <<A(1), C("base")>>, <<A(2), C("base")>> >>, user |-> u],
      skipped |-> s, local |-> l, keys |-> [base |-> "own", user |-> k, local |-> kl],
      priority |-> [user |-> 600], requests |-> <<Req("name", "a", {})>>,
      otherRequests |-> {<<Req("name", "c", {})>>} \cup
                        (IF l = <<>> THEN {} ELSE {<<Req("name", "d", {})>>}),
      kernelVers |-> {}, builds |-> 2, faults |-> 1] :
        u \in {<< <<C("user")>> >>, << <<>>, <<C("user")>> >>, << <<C("user")>>, <<>> >>},
        k \in {"own", "trusted", "none"},
        l \in {<<>>, <<Import("dir", <<D>>), Import("archive", <<D>>)>>,
               <<Import("archive", <<>>)>>, <<Import("dir", <<>>)>>},
        kl \in {"own", "trusted"}, s \in {{}, {"user"}}}

MCWorlds == ResolverWorlds \cup CacheWorlds

(* The comparison is antisymmetric, and a preorder among versions none of    *)
(* which continues another.                                                  *)
Short == UNION {[1..n -> {V!Dot, 49, 50, 97, V!Tilde}] : n \in 1..2}
Apart(x, y) == ~V!Continues(x, y) /\ ~V!Continues(y, x)
ASSUME VersionsOrdered ==
    \A x, y \in Short :
        /\ V!ComparePackageVersions(x, y) = -V!ComparePackageVersions(y, x)
        /\ \A z \in Short : /\ Apart(x, y) /\ Apart(y, z) /\ Apart(x, z)
                            /\ V!ComparePackageVersions(x, y) <= 0
                            /\ V!ComparePackageVersions(y, z) <= 0
                            => V!ComparePackageVersions(x, z) <= 0
=============================================================================
