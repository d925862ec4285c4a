--------------------------- MODULE MCDebResolver ---------------------------
EXTENDS DebResolver

V == INSTANCE DebVersion

(* Two applications a and b, a library c with up to three versions, d that   *)
(* can stand in for it, and the virtual name v.                              *)
MCNames == <<"a", "b", "c", "d", "v">>

Alt(n, o, w) == [name |-> n, op |-> o, ver |-> w]
Dep(n) == <<Alt(n, "", 0)>>
Pkg(n, w, r, q, pr) == [name |-> n, ver |-> w, repo |-> r, reqs |-> q, prov |-> pr]
Prov(n, w) == [name |-> n, ver |-> w]
Req(k, n, w) == [kind |-> k, name |-> n, vers |-> w, names |-> {}, kernel |-> FALSE]
Glob(ns, k) == [kind |-> "glob", name |-> "", vers |-> {}, names |-> ns, kernel |-> k]

Edges == {Dep("c"), <<Alt("c", ">=", 2)>>, <<Alt("c", "<=", 1)>>, <<Alt("c", "=", 2)>>,
          Dep("v"), <<Alt("v", ">=", 2)>>,
          <<Alt("c", ">=", 3), Alt("d", "", 0)>>, <<Alt("x", "", 0), Alt("d", ">=", 1)>>}

(* What the applications require: one edge each, or two for b. *)
AReqs == {<<e>> : e \in Edges} \cup {<< <<Alt("x", "", 0), Alt("d", "", 0)>>, <<Alt("x", "", 0), Alt("c", ">=", 2)>> >>}
BReqs == {<<e>> : e \in Edges} \cup {<<Dep("a"), <<Alt("c", "<<", 3)>>>>,
          <<Dep("v"), Dep("d")>>, <<Dep("x")>>, <<>>}

(* The library side. *)
Libraries == {
    <<Pkg("c", 1, "base", <<>>, <<>>), Pkg("c", 2, "base", <<>>, <<>>),
      Pkg("d", 1, "extra", <<Dep("c")>>, <<Prov("v", 0)>>)>>,
    <<Pkg("c", 1, "base", <<>>, <<>>), Pkg("c", 3, "extra", <<Dep("d")>>, <<Prov("v", 2)>>),
      Pkg("d", 1, "base", <<>>, <<>>)>>,
    <<Pkg("c", 2, "base", <<>>, <<Prov("v", 1)>>), Pkg("c", 2, "extra", <<>>, <<Prov("v", 2)>>),
      Pkg("d", 2, "extra", <<Dep("a")>>, <<Prov("v", 2), Prov("c", 2)>>)>>,
    <<Pkg("c", 2, "extra", <<>>, <<Prov("v", 2)>>), Pkg("c", 2, "base", <<>>, <<>>)>>,
    <<Pkg("d", 1, "base", <<Dep("b")>>, <<Prov("c", 1)>>),
      Pkg("d", 2, "base", <<>>, <<Prov("c", 2), Prov("v", 0)>>)>>,
    <<Pkg("c", 1, "base", <<<<Alt("d", "<=", 1)>>>>, <<>>),
      Pkg("d", 1, "base", <<Dep("c")>>, <<Prov("v", 1)>>),
      Pkg("d", 2, "base", <<Dep("b")>>, <<Prov("v", 2)>>)>>}

(* Two that need each other by virtual names, and two that displace each     *)
(* other in a circle.                                                        *)
Circles == {
    <<Pkg("c", 1, "base", <<<<Alt("v", ">=", 2)>>>>, <<Prov("w", 2)>>),
      Pkg("d", 1, "base", <<<<Alt("w", ">=", 2)>>>>, <<Prov("v", 2)>>)>>,
    <<Pkg("c", 1, "base", <<<<Alt("d", ">=", 2)>>>>, <<>>),
      Pkg("c", 2, "extra", <<<<Alt("d", "<=", 1)>>>>, <<>>),
      Pkg("d", 1, "base", <<<<Alt("c", "<=", 1)>>>>, <<>>),
      Pkg("d", 2, "base", <<<<Alt("c", ">=", 2)>>>>, <<Prov("v", 2)>>)>>}

Requests == {<<Req("name", "a", {}), Req("name", "b", {})>>,
             <<Req("name", "b", {}), Req("exact", "c", {2})>>,
             <<Req("prefix", "c", {1, 2}), Req("name", "a", {}), Glob({"c", "d"}, FALSE)>>,
             <<Req("name", "v", {}), Glob({"a", "b"}, TRUE)>>,
             <<Req("name", "a", {}), Glob({"c", "d"}, TRUE)>>}

Prefer == [general |-> FALSE, names |-> {"c"}, repos |-> {}, vers |-> {1}, priority |-> 1001]
Forbid == [general |-> TRUE, names |-> {}, repos |-> {"extra"}, vers |-> {}, priority |-> -1]

(* Priorities and pins: equal repositories, one preferred, one blocked, one  *)
(* version pinned, one origin forbidden by a pin.                            *)
Policies == {<<500, <<>> >>, <<990, <<>> >>, <<1000, <<Prefer>> >>, <<-1, <<>> >>,
             <<1001, <<Forbid>> >>}

WorldsOf(libraries, requests, policies) ==
    {[all |-> <<Pkg("a", 1, "base", ra, <<>>), Pkg("b", 1, "extra", rb, <<>>)>> \o l,
      requests |-> q, pins |-> po[2], imageBase |-> {"base"},
      priority |-> [base |-> 500, extra |-> po[1]],
      kernelVers |-> {1}] : ra \in AReqs, rb \in BReqs, l \in libraries, q \in requests, po \in policies}

MCWorlds ==
    WorldsOf(Libraries, Requests, Policies)
        \cup WorldsOf(Circles, {<<Req("name", "a", {}), Req("name", "b", {})>>}, {<<500, <<>> >>, <<-1, <<>> >>})

(* On every version of up to three characters the comparison is a total      *)
(* order, and the one dpkg defines as long as no number is zero.             *)
Short == UNION {[1..n -> {V!Dot, 49, 50, 97, V!Tilde}] : n \in 0..3}
ASSUME VersionsOrderedAsDpkg ==
    \A x, y \in Short : /\ V!CompareParts(x, y) = V!DpkgCompare(x, y)
                        /\ V!CompareParts(x, y) = -V!CompareParts(y, x)

(* A kernel version picks among the versions that start with it, and what it *)
(* picks for a leading part of a version it also picks for the whole.        *)
ASSUME KernelVersionsArePrefixes ==
    \A v, k \in Short :
        /\ V!MatchesKernelVersion(v, k) => V!VersionHasPrefix(v, k)
        /\ \A j \in Short : V!MatchesKernelVersion(v, k) /\ V!MatchesKernelVersion(k, j)
                            => V!MatchesKernelVersion(v, j)
=============================================================================
