--------------------------- MODULE MCPackageSearch ---------------------------
(* Two searches over two repositories, one of them with two indexes. *)
EXTENDS PackageSearch

CONSTANTS k1, k2, s1, s2, r1, r2

MCKeys == {k1, k2}
MCCallers == 1..3
MCWants == <<k1, k2, k1>>
MCSearchOf == <<s1, s1, s2>>
MCRepoOf == <<r1, r1, r2>>
=============================================================================
