-------------------------- MODULE MCPackageDownload --------------------------
(* A base repository with a signed Release, an InRelease one and one of the  *)
(* user's.  The first moves on to a newer package once.                      *)
EXTENDS PackageDownload

Pkg(n, v, f) == [name |-> n, ver |-> v, file |-> f]
MCRepos == <<"b1", "b2", "u">>
MCBase == {"b1", "b2"}
MCFormat == [r \in {"b1", "b2", "u"} |->
                CASE r = "b1" -> "classic" [] r = "b2" -> "inrelease" [] r = "u" -> "trusted"]
MCListing == [r \in {"b1", "b2", "u"} |->
                CASE r = "b1" -> <<{Pkg("a", 1, "a1")}, {Pkg("a", 2, "a2")}>>
                  [] r = "b2" -> <<{Pkg("a", 1, "a1")}>>
                  [] r = "u" -> <<{Pkg("c", 1, "c1")}>>]
MCLocal == {Pkg("l", 1, "l1")}
MCRequests == {{"a", "c"}, {"a", "l"}}
MCFilters == {{"a", "c"}, {"a"}}
=============================================================================
