-------------------------- MODULE TemplateBuildProofs --------------------------
(* Proofs about TemplateBuild, for any templates, symbolic links among them   *)
(* and spellings of extends, whatever is overridden, selected and installed:  *)
(* no file is twice in a chain, and none lies outside the directory of the    *)
(* template asked for (LayersDistinct); the scripts' files are theirs to the  *)
(* end (ScriptsStay); what is denied upgrades is pinned, but for what the      *)
(* installer brings along (DeniedRaisedByInstaller); what the service         *)
(* composes for a selection is the template with what was chosen              *)
(* (ComposedAsAsked).                                                         *)
(*                                                                            *)
(* Every layer read or written is a layer as assumed of the world, so the     *)
(* chain merged is one (Merged), the OEP Installer adds repositories of its   *)
(* own and a script (Installed), and of what is generated for apt each file   *)
(* is apart from the tool's own places but for the installer's keys           *)
(* (Generated).  What the service compares are results of the same chain, the *)
(* delta before it in one of them (SelectionInv).                             *)
EXTENDS TemplateBuild, SequenceTheorems, FiniteSetTheorems, WellFoundedInduction, TLAPS

-----------------------------------------------------------------------------
(* Ways along a path *)

(* What holds of nothing and passes from each number to the next holds of all. *)
LEMMA Climb ==
  ASSUME NEW S \in SUBSET Nat, 0 \in S, \A n \in S : n + 1 \in S
  PROVE  S = Nat
<1> SUFFICES ASSUME Nat \ S # {} PROVE FALSE
  OBVIOUS
<1>1. PICK m \in Nat \ S : \A n \in Nat \ S : ~(<<n, m>> \in OpToRel(<, Nat))
  BY NatLessThanWellFounded, WFMin
<1>2. \A n \in Nat \ S : ~(n < m)
  BY <1>1 DEF OpToRel
<1>3. m \in Nat /\ m # 0 /\ m \notin S
  OBVIOUS
<1>4. m - 1 \in S
  BY <1>2, <1>3
<1>5. (m - 1) + 1 \in S
  BY <1>4
<1> QED
  BY <1>3, <1>5

IsWay(at, path, links) ==
  at = [n \in 0..Len(path) |-> IF n = 0 THEN <<>> ELSE Follow(at[n - 1], path[n], links)]

(* There is a way along a path, *)
LEMMA WayExists ==
  ASSUME NEW path \in Seq(STRING), NEW links
  PROVE  \E at : IsWay(at, path, links)
<1> DEFINE Upto(at, k) == at = [n \in 0..k |-> IF n = 0 THEN <<>> ELSE Follow(at[n - 1], path[n], links)]
           S == {k \in Nat : \E at : Upto(at, k)}
<1>1. 0 \in S
  <2>1. Upto([n \in 0..0 |-> <<>>], 0)
    OBVIOUS
  <2> QED
    BY <2>1
<1>2. ASSUME NEW k \in S PROVE k + 1 \in S
  <2>1. PICK at : Upto(at, k)
    OBVIOUS
  <2> DEFINE on == [n \in 0..(k + 1) |-> IF n = k + 1 THEN Follow(at[k], path[k + 1], links) ELSE at[n]]
  <2>2. ASSUME NEW n \in 0..(k + 1)
        PROVE  on[n] = IF n = 0 THEN <<>> ELSE Follow(on[n - 1], path[n], links)
    <3>0. k \in Nat
      OBVIOUS
    <3>1. CASE n = k + 1
      <4>1. on[n - 1] = at[k]
        BY <3>0, <3>1
      <4>2. on[n] = Follow(at[k], path[k + 1], links)
        BY <3>0, <3>1
      <4> QED
        BY <3>0, <3>1, <4>1, <4>2
    <3>2. CASE n # k + 1 /\ n # 0
      <4>1. n \in 0..k /\ n - 1 \in 0..k /\ n - 1 # k + 1 /\ n - 1 \in 0..(k + 1)
        BY <3>0, <3>2
      <4>2. on[n] = at[n] /\ on[n - 1] = at[n - 1]
        BY <4>1, <3>2
      <4>3. at[n] = Follow(at[n - 1], path[n], links)
        BY <4>1, <3>2, <2>1
      <4> QED
        BY <4>2, <4>3, <3>2
    <3>3. CASE n # k + 1 /\ n = 0
      BY <3>0, <3>3, <2>1
    <3> QED
      BY <3>1, <3>2, <3>3
  <2> HIDE DEF on
  <2>3. on = [n \in 0..(k + 1) |-> on[n]]
    BY DEF on
  <2>4. Upto(on, k + 1)
    BY <2>2, <2>3
  <2> QED
    BY <2>4
<1>3. S = Nat
  <2> HIDE DEF S
  <2>1. S \in SUBSET Nat
    BY DEF S
  <2> QED
    BY <1>1, <1>2, <2>1, Climb
<1>4. Len(path) \in S
  BY <1>3
<1> QED
  BY <1>4 DEF IsWay

(* and paths that begin the same go the same way. *)
LEMMA WaysAgree ==
  ASSUME NEW p \in Seq(STRING), NEW q \in Seq(STRING), NEW links, NEW a, NEW b,
         IsWay(a, p, links), IsWay(b, q, links), Len(p) <= Len(q),
         \A n \in 1..Len(p) : p[n] = q[n]
  PROVE  a[Len(p)] = b[Len(p)]
<1> DEFINE S == {n \in Nat : n \in 0..Len(p) => a[n] = b[n]}
<1>1. 0 \in S
  BY DEF IsWay
<1>2. ASSUME NEW n \in S PROVE n + 1 \in S
  <2> SUFFICES ASSUME n + 1 \in 0..Len(p) PROVE a[n + 1] = b[n + 1]
    OBVIOUS
  <2>1. n \in 0..Len(p) /\ n + 1 \in 0..Len(q) /\ n + 1 \in 1..Len(p) /\ n + 1 # 0
    OBVIOUS
  <2>2. a[n] = b[n]
    BY <2>1
  <2>3. a[n + 1] = Follow(a[(n + 1) - 1], p[n + 1], links)
    BY <2>1 DEF IsWay
  <2>4. b[n + 1] = Follow(b[(n + 1) - 1], q[n + 1], links)
    BY <2>1 DEF IsWay
  <2>5. (n + 1) - 1 = n
    OBVIOUS
  <2> QED
    BY <2>1, <2>2, <2>3, <2>4, <2>5
<1>3. S = Nat
  <2> HIDE DEF S
  <2>1. S \in SUBSET Nat
    BY DEF S
  <2> QED
    BY <1>1, <1>2, <2>1, Climb
<1> QED
  BY <1>3

LEMMA WalkIsWay ==
  ASSUME NEW path \in Seq(STRING), NEW links
  PROVE  \E at : IsWay(at, path, links) /\ Walk(path, links) = at[Len(path)]
<1> DEFINE way == CHOOSE at : IsWay(at, path, links)
<1>1. IsWay(way, path, links)
  BY WayExists
<1>2. Walk(path, links) = way[Len(path)]
  BY DEF Walk, IsWay
<1> QED
  BY <1>1, <1>2

Leads(links) == \A p \in DOMAIN links : links[p] \in Seq(Names)

LEMMA FollowIsPath ==
  ASSUME NEW at \in Seq(Names), NEW name \in STRING, NEW links, Leads(links)
  PROVE  Follow(at, name, links) \in Seq(Names)
<1>1. CASE name = ".."
  <2>1. CASE at = <<>>
    BY <1>1, <2>1 DEF Follow
  <2>2. CASE at # <<>>
    <3>1. Front(at) \in Seq(Names)
      BY <2>2 DEF Front
    <3> QED
      BY <1>1, <2>2, <3>1 DEF Follow
  <2> QED
    BY <2>1, <2>2
<1>2. CASE name = "." /\ name # ".."
  BY <1>2 DEF Follow
<1>3. CASE name # "." /\ name # ".."
  <2>1. Append(at, name) \in Seq(Names)
    BY <1>3 DEF Names
  <2>2. Append(at, name) \in DOMAIN links => links[Append(at, name)] \in Seq(Names)
    BY DEF Leads
  <2>3. Follow(at, name, links) = IF Append(at, name) \in DOMAIN links THEN links[Append(at, name)]
                                  ELSE Append(at, name)
    BY <1>3 DEF Follow
  <2> QED
    BY <2>1, <2>2, <2>3
<1> QED
  BY <1>1, <1>2, <1>3

LEMMA WalkIsPath ==
  ASSUME NEW path \in Seq(STRING), NEW links, Leads(links)
  PROVE  Walk(path, links) \in Seq(Names)
<1>1. PICK at : IsWay(at, path, links) /\ Walk(path, links) = at[Len(path)]
  BY WalkIsWay
<1> DEFINE S == {n \in Nat : n \in 0..Len(path) => at[n] \in Seq(Names)}
<1>2. 0 \in S
  <2>1. at[0] = <<>>
    BY <1>1 DEF IsWay
  <2>2. <<>> \in Seq(Names)
    OBVIOUS
  <2> QED
    BY <2>1, <2>2
<1>3. ASSUME NEW n \in S PROVE n + 1 \in S
  <2> SUFFICES ASSUME n + 1 \in 0..Len(path) PROVE at[n + 1] \in Seq(Names)
    OBVIOUS
  <2>1. n \in Nat /\ n \in 0..Len(path) /\ n + 1 \in 1..Len(path) /\ n + 1 # 0 /\ (n + 1) - 1 = n
    OBVIOUS
  <2>2. at[n + 1] = Follow(at[(n + 1) - 1], path[n + 1], links)
    BY <1>1, <2>1 DEF IsWay
  <2>3. at[n] \in Seq(Names) /\ path[n + 1] \in STRING
    BY <2>1
  <2> HIDE DEF S
  <2> QED
    BY <2>1, <2>2, <2>3, FollowIsPath
<1>4. S = Nat
  <2> HIDE DEF S
  <2>1. S \in SUBSET Nat
    BY DEF S
  <2> QED
    BY <1>2, <1>3, <2>1, Climb
<1> QED
  BY <1>1, <1>4

LEMMA FrontIs ==
  ASSUME NEW S, NEW s \in Seq(S), s # <<>>
  PROVE  /\ Front(s) \in Seq(S) /\ Len(Front(s)) = Len(s) - 1
         /\ \A n \in 1..Len(Front(s)) : Front(s)[n] = s[n]
<1>1. Len(s) \in Nat \ {0} /\ \A i \in 1..(Len(s) - 1) : s[i] \in S
  OBVIOUS
<1> DEFINE n == Len(s) - 1
<1>2. n \in Nat /\ 1 \in Int
  BY <1>1
<1>3. Front(s) = SubSeq(s, 1, n)
  BY DEF Front
<1> HIDE DEF n
<1>4. /\ SubSeq(s, 1, n) \in Seq(S)
      /\ Len(SubSeq(s, 1, n)) = IF 1 <= n THEN n - 1 + 1 ELSE 0
      /\ \A i \in 1..(n - 1 + 1) : SubSeq(s, 1, n)[i] = s[1 + i - 1]
  <2>1. \A i \in 1..n : s[i] \in S
    BY <1>1 DEF n
  <2> QED
    BY <1>2, <2>1, SubSeqProperties
<1>5. Len(SubSeq(s, 1, n)) = n /\ \A i \in 1..n : SubSeq(s, 1, n)[i] = s[i]
  BY <1>2, <1>4
<1> QED
  BY <1>3, <1>4, <1>5 DEF n

(* Where a path leads that is no link: into the directory it is in. *)
LEMMA WalkLast ==
  ASSUME NEW path \in Seq(Names), path # <<>>, NEW links,
         Append(Walk(Front(path), links), Last(path)) \notin DOMAIN links
  PROVE  Walk(path, links) = Append(Walk(Front(path), links), Last(path))
<1> DEFINE k == Len(path)
           front == Front(path)
<1>1. /\ k \in Nat /\ k # 0 /\ k \in 1..k /\ k - 1 \in 0..k /\ path \in Seq(STRING)
      /\ front \in Seq(STRING) /\ Len(front) = k - 1
      /\ \A n \in 1..Len(front) : front[n] = path[n]
  <2>1. k \in Nat /\ k # 0 /\ k \in 1..k /\ k - 1 \in 0..k
    OBVIOUS
  <2>2. path \in Seq(STRING)
    BY DEF Names
  <2> QED
    BY <2>1, <2>2, FrontIs
<1>2. PICK a : IsWay(a, front, links) /\ Walk(front, links) = a[Len(front)]
  <2> HIDE DEF front
  <2> QED
    BY <1>1, WalkIsWay
<1>3. PICK b : IsWay(b, path, links) /\ Walk(path, links) = b[Len(path)]
  BY <1>1, WalkIsWay
<1>4. a[Len(front)] = b[Len(front)]
  <2> HIDE DEF front
  <2> QED
    BY <1>1, <1>2, <1>3, WaysAgree
<1>5. b[k] = Follow(b[k - 1], path[k], links)
  BY <1>1, <1>3 DEF IsWay
<1>6. path[k] = Last(path) /\ path[k] # "." /\ path[k] # ".."
  BY <1>1 DEF Last, Names
<1> DEFINE dir == Walk(front, links)
<1>7. Walk(path, links) = Follow(dir, Last(path), links)
  <2> HIDE DEF front
  <2> QED
    BY <1>1, <1>2, <1>3, <1>4, <1>5, <1>6
<1>8. Append(dir, Last(path)) \notin DOMAIN links
  OBVIOUS
<1> HIDE DEF dir
<1>9. Follow(dir, Last(path), links) = Append(dir, Last(path))
  BY <1>6, <1>8 DEF Follow
<1> QED
  BY <1>7, <1>9 DEF dir

LEMMA PrefixIs ==
  ASSUME NEW p \in Seq(Names), NEW q \in Seq(Names)
  PROVE  IsPrefix(p, q) <=> Len(p) <= Len(q) /\ \A i \in 1..Len(p) : p[i] = q[i]
<1> DEFINE k == Len(p)
<1>1. k \in Nat /\ Len(q) \in Nat /\ SubSeq(p, 1, k) = p
  OBVIOUS
<1> SUFFICES ASSUME k <= Len(q)
             PROVE  p = SubSeq(q, 1, k) <=> \A i \in 1..k : p[i] = q[i]
  BY <1>1 DEF IsPrefix
<1> HIDE DEF k
<1>2. /\ SubSeq(q, 1, k) \in Seq(Names)
      /\ Len(SubSeq(q, 1, k)) = IF 1 <= k THEN k - 1 + 1 ELSE 0
      /\ \A i \in 1..(k - 1 + 1) : SubSeq(q, 1, k)[i] = q[1 + i - 1]
  <2>1. \A i \in 1..k : q[i] \in Names
    BY <1>1
  <2> QED
    BY <1>1, <2>1, SubSeqProperties
<1>3. Len(SubSeq(q, 1, k)) = k /\ \A i \in 1..k : SubSeq(q, 1, k)[i] = q[i]
  BY <1>1, <1>2
<1>4. Len(p) = k
  BY DEF k
<1> QED
  BY <1>2, <1>3, <1>4, SeqEqual

LEMMA PrefixTransitive ==
  ASSUME NEW p \in Seq(Names), NEW q \in Seq(Names), NEW r \in Seq(Names), IsPrefix(p, q), IsPrefix(q, r)
  PROVE  IsPrefix(p, r)
BY PrefixIs

LEMMA PrefixOfFile ==
  ASSUME NEW p \in Seq(Names), NEW q \in Seq(Names), NEW name \in Names
  PROVE  /\ Below(q, Append(q, name))
         /\ Below(p, Append(q, name)) => IsPrefix(p, q)
<1> DEFINE file == Append(q, name)
<1>1. /\ file \in Seq(Names) /\ Len(file) = Len(q) + 1 /\ file[Len(file)] = name
      /\ \A i \in 1..Len(q) : file[i] = q[i]
  OBVIOUS
<1> HIDE DEF file
<1>2. Below(q, file)
  BY <1>1, PrefixIs DEF Below
<1>3. ASSUME Below(p, file) PROVE IsPrefix(p, q)
  <2>1. Len(p) <= Len(file) /\ \A i \in 1..Len(p) : p[i] = file[i]
    BY <1>1, <1>3, PrefixIs DEF Below
  <2>2. Len(p) # Len(file)
    BY <1>1, <1>3, <2>1, SeqEqual DEF Below
  <2>3. Len(p) <= Len(q) /\ \A i \in 1..Len(p) : p[i] = q[i]
    BY <1>1, <2>1, <2>2
  <2> QED
    BY <2>3, PrefixIs
<1> QED
  BY <1>2, <1>3 DEF file

-----------------------------------------------------------------------------
(* A chain as the loader makes it. *)
IsChain(c) ==
  /\ c \in Seq(Range(c))
  /\ \A i \in DOMAIN c : /\ c[i].path \in Seq(Names) \ {<<>>}
                         /\ c[i].layer.extends \in Seq(STRING)
                         /\ CheckSymlink(c[i].path)

IsLoaded(c) == \A i \in DOMAIN c : CanonicalPath(c[i].path) \in DOMAIN files

IsDistinct(c) ==
  \A i, j \in DOMAIN c :
     /\ i # j => CanonicalPath(c[i].path) # CanonicalPath(c[j].path)
     /\ Below(CanonicalPath(Front(c[1].path)), CanonicalPath(c[i].path))

FilesInv ==
  /\ world \in Worlds
  /\ DOMAIN files \subseteq DOMAIN world.files \cup {DeltaPath}
  /\ \A p \in DOMAIN files : files[p].extends \in Seq(STRING)

ChainInv ==
  /\ FilesInv
  /\ IsChain(chain)
  /\ IsDistinct(chain)
  /\ pc = "load" => IsLoaded(chain)

LEMMA CanonicalIsPath ==
  ASSUME FilesInv, NEW path \in Seq(STRING)
  PROVE  CanonicalPath(path) \in Seq(Names)
<1>1. Leads(world.links)
  BY FilesAssumption DEF FilesInv, Leads
<1> QED
  BY <1>1, WalkIsPath DEF CanonicalPath

LEMMA NamesAreStrings == Seq(Names) \subseteq Seq(STRING)
BY DEF Names

LEMMA CanonicalLast ==
  ASSUME FilesInv, NEW path \in Seq(Names) \ {<<>>}, CheckSymlink(path)
  PROVE  LET dir == CanonicalPath(Front(path)) IN
         /\ dir \in Seq(Names) /\ CanonicalPath(path) \in Seq(Names)
         /\ Below(dir, CanonicalPath(path))
         /\ \A p \in Seq(Names) : Below(p, CanonicalPath(path)) => IsPrefix(p, dir)
<1> DEFINE dir == CanonicalPath(Front(path))
<1>1. Front(path) \in Seq(Names) /\ Last(path) \in Names
  BY FrontIs DEF Last
<1>2. dir \in Seq(Names) /\ CanonicalPath(path) \in Seq(Names)
  BY <1>1, CanonicalIsPath, NamesAreStrings
<1>3. CanonicalPath(path) = Append(dir, Last(path))
  BY WalkLast DEF CanonicalPath, CheckSymlink
<1> HIDE DEF dir
<1>4. /\ Below(dir, Append(dir, Last(path)))
      /\ \A p \in Seq(Names) : Below(p, Append(dir, Last(path))) => IsPrefix(p, dir)
  BY <1>1, <1>2, PrefixOfFile
<1> QED
  BY <1>2, <1>3, <1>4 DEF dir

(* The first layer, *)
LEMMA FirstLayer ==
  ASSUME FilesInv, NEW path \in Seq(Names) \ {<<>>},
         NEW c, c = IF Loadable(path) THEN <<LoadTemplate(path)>> ELSE <<>>
  PROVE  IsChain(c) /\ IsLoaded(c) /\ IsDistinct(c)
<1>1. CASE ~Loadable(path)
  <2>1. c = <<>> /\ DOMAIN c = {} /\ c \in Seq(Range(c))
    BY <1>1
  <2> QED
    BY <2>1 DEF IsChain, IsLoaded, IsDistinct
<1>2. CASE Loadable(path)
  <2> DEFINE l == LoadTemplate(path)
  <2>1. /\ CheckSymlink(path) /\ CanonicalPath(path) \in DOMAIN files
        /\ l.path = path /\ l.layer.extends \in Seq(STRING)
    BY <1>2 DEF Loadable, LoadTemplate, FilesInv
  <2>2. c = <<l>>
    BY <1>2
  <2> HIDE DEF l
  <2>3. DOMAIN c = {1} /\ c[1] = l /\ c \in Seq(Range(c))
    <3>1. <<l>> \in Seq({l}) /\ Len(<<l>>) = 1 /\ <<l>>[1] = l
      OBVIOUS
    <3>2. c \in Seq({l}) /\ Len(c) = 1 /\ c[1] = l
      BY <2>2, <3>1
    <3>3. DOMAIN c = {1}
      BY <3>2
    <3>4. Range(c) = {l}
      BY <3>2, <3>3 DEF Range
    <3> QED
      BY <3>2, <3>3, <3>4
  <2>4. Below(CanonicalPath(Front(path)), CanonicalPath(path))
    BY <2>1, CanonicalLast
  <2>5. IsChain(c)
    BY <2>1, <2>3 DEF IsChain
  <2>6. IsLoaded(c)
    BY <2>1, <2>3 DEF IsLoaded
  <2>7. IsDistinct(c)
    BY <2>1, <2>3, <2>4 DEF IsDistinct
  <2> QED
    BY <2>5, <2>6, <2>7
<1> QED
  BY <1>1, <1>2

LEMMA OneMore ==
  ASSUME NEW c, c \in Seq(Range(c)), NEW x
  PROVE  /\ Append(c, x) \in Seq(Range(Append(c, x)))
         /\ Len(c) \in Nat /\ DOMAIN c = 1..Len(c) /\ DOMAIN Append(c, x) = 1..(Len(c) + 1)
         /\ \A i \in DOMAIN c : Append(c, x)[i] = c[i]
         /\ Append(c, x)[Len(c) + 1] = x
<1> DEFINE S == Range(c) \cup {x}
<1>1. c \in Seq(S)
  OBVIOUS
<1> HIDE DEF S
<1>2. x \in S
  BY DEF S
<1>3. /\ Append(c, x) \in Seq(S) /\ Len(Append(c, x)) = Len(c) + 1
      /\ Len(c) \in Nat /\ DOMAIN c = 1..Len(c) /\ DOMAIN Append(c, x) = 1..(Len(c) + 1)
      /\ \A i \in DOMAIN c : Append(c, x)[i] = c[i]
      /\ Append(c, x)[Len(c) + 1] = x
  BY <1>1, <1>2
<1>4. Append(c, x) \in Seq(Range(Append(c, x)))
  BY <1>3 DEF Range
<1> QED
  BY <1>3, <1>4

(* and one more: its file is none of the chain's, and it is below the first's *)
(* directory, because its child is and it is below the child's.              *)
LEMMA NextLayer ==
  ASSUME ChainInv, pc = "load", chain # <<>>,
         NEW parent \in Seq(STRING \ {".", ".."}), AcceptsParent(parent),
         NEW c, c = Append(chain, LoadTemplate(parent))
  PROVE  IsChain(c) /\ IsLoaded(c) /\ IsDistinct(c)
<1> DEFINE l == LoadTemplate(parent)
           last == Last(chain).path
           k == Len(chain)
           top == CanonicalPath(Front(chain[1].path))
<1>1. /\ k \in Nat \ {0} /\ DOMAIN chain = 1..k /\ 1 \in DOMAIN chain /\ k \in DOMAIN chain
      /\ c \in Seq(Range(c)) /\ DOMAIN c = 1..(k + 1)
      /\ \A i \in DOMAIN chain : c[i] = chain[i]
      /\ c[k + 1] = l
  <2>1. chain \in Seq(Range(chain))
    BY DEF ChainInv, IsChain
  <2> HIDE DEF l
  <2>2. c = Append(chain, l)
    BY DEF l
  <2>3. k \in Nat /\ k # 0
    BY <2>1
  <2> HIDE DEF k
  <2>4. /\ c \in Seq(Range(c)) /\ DOMAIN chain = 1..k /\ DOMAIN c = 1..(k + 1)
        /\ \A i \in DOMAIN chain : c[i] = chain[i]
        /\ c[k + 1] = l
    BY <2>1, <2>2, OneMore DEF k
  <2> QED
    BY <2>3, <2>4
<1>2. last = chain[k].path /\ last \in Seq(Names) \ {<<>>} /\ CheckSymlink(last)
  BY <1>1 DEF ChainInv, IsChain, Last
<1>3. /\ CheckSymlink(parent) /\ CanonicalPath(parent) \in DOMAIN files
      /\ l.path = parent /\ l.layer.extends \in Seq(STRING)
  BY DEF AcceptsParent, Loadable, LoadTemplate, ChainInv, FilesInv
<1>4. parent \in Seq(Names) \ {<<>>}
  <2>1. Below(Front(last), parent) /\ parent \in Seq(Names) /\ Front(last) \in Seq(Names)
    BY <1>2, FrontIs DEF AcceptsParent, Names
  <2>2. ASSUME parent = <<>> PROVE Front(last) = <<>>
    <3>1. Len(Front(last)) <= Len(parent)
      BY <2>1 DEF Below, IsPrefix
    <3>2. Len(Front(last)) = 0
      BY <2>1, <2>2, <3>1
    <3> HIDE DEF last
    <3> QED
      BY <2>1, <3>2, EmptySeq
  <2> QED
    BY <2>1, <2>2 DEF Below
<1>5. FilesInv
  BY DEF ChainInv
<1>6. /\ CanonicalPath(parent) \in Seq(Names)
      /\ CanonicalPath(last) \in Seq(Names) /\ CanonicalPath(Front(last)) \in Seq(Names)
      /\ \A p \in Seq(Names) : Below(p, CanonicalPath(last)) => IsPrefix(p, CanonicalPath(Front(last)))
  BY <1>2, <1>3, <1>4, <1>5, CanonicalLast
<1>7. top \in Seq(Names) /\ CanonicalPath(chain[1].path) \in Seq(Names)
  BY <1>1, <1>5, CanonicalLast DEF ChainInv, IsChain
<1>8. \A i \in DOMAIN chain : Below(top, CanonicalPath(chain[i].path))
  BY <1>1 DEF ChainInv, IsDistinct
<1>9. IsPrefix(top, CanonicalPath(parent))
  <2>1. IsPrefix(CanonicalPath(Front(last)), CanonicalPath(parent))
    BY DEF AcceptsParent, VerifyResolvedContainment
  <2>2. IsPrefix(top, CanonicalPath(Front(last)))
    BY <1>1, <1>2, <1>6, <1>7, <1>8
  <2> HIDE DEF top, last
  <2> QED
    BY <1>6, <1>7, <2>1, <2>2, PrefixTransitive
<1>10. top # CanonicalPath(parent)
  <2>1. /\ CanonicalPath(parent) \in DOMAIN world.files \cup {DeltaPath}
        /\ CanonicalPath(chain[1].path) \in DOMAIN world.files \cup {DeltaPath}
    BY <1>1, <1>3 DEF ChainInv, FilesInv, IsLoaded
  <2>2. IsPrefix(CanonicalPath(parent), CanonicalPath(chain[1].path))
           => CanonicalPath(parent) = CanonicalPath(chain[1].path)
    BY <1>5, <2>1, FilesAssumption DEF FilesInv, DeltaPath
  <2>3. IsPrefix(top, CanonicalPath(chain[1].path)) /\ CanonicalPath(chain[1].path) # top
    BY <1>1, <1>8 DEF Below
  <2> QED
    BY <2>2, <2>3
<1>11. \A i \in DOMAIN chain : CanonicalPath(chain[i].path) # CanonicalPath(parent)
  BY DEF AcceptsParent, Range
<1> HIDE DEF l, last, k
<1>12. IsChain(c)
  BY <1>1, <1>3, <1>4 DEF ChainInv, IsChain
<1>13. IsLoaded(c)
  BY <1>1, <1>3 DEF ChainInv, IsLoaded
<1>14. IsDistinct(c)
  <2>1. c[1] = chain[1]
    BY <1>1
  <2>2. ASSUME NEW i \in DOMAIN c PROVE Below(top, CanonicalPath(c[i].path))
    BY <1>1, <1>3, <1>8, <1>9, <1>10 DEF Below
  <2>3. ASSUME NEW i \in DOMAIN c, NEW j \in DOMAIN c, i # j
        PROVE  CanonicalPath(c[i].path) # CanonicalPath(c[j].path)
    <3>1. CASE i \in DOMAIN chain /\ j \in DOMAIN chain
      BY <1>1, <2>3, <3>1 DEF ChainInv, IsDistinct
    <3>2. CASE i = k + 1
      BY <1>1, <1>3, <1>11, <2>3, <3>2
    <3>3. CASE j = k + 1
      BY <1>1, <1>3, <1>11, <2>3, <3>3
    <3> QED
      BY <1>1, <3>1, <3>2, <3>3
  <2> QED
    BY <2>1, <2>2, <2>3 DEF IsDistinct
<1> QED
  BY <1>12, <1>13, <1>14

LEMMA ParentIsPath ==
  ASSUME NEW file \in Seq(Names) \ {<<>>}, NEW ref \in Seq(STRING) \ {<<>>}
  PROVE  ResolveExtendsParentPath(file, ref) \in Seq(Names)
<1> DEFINE path == IF ref[1] = "/" THEN Tail(ref) ELSE Front(file) \o ref
<1>1. Tail(ref) \in Seq(STRING) /\ Front(file) \o ref \in Seq(STRING)
  <2>1. Front(file) \in Seq(STRING)
    BY FrontIs, NamesAreStrings
  <2> QED
    BY <2>1
<1>2. path \in Seq(STRING)
  BY <1>1
<1> HIDE DEF path
<1>3. Leads(<<>>)
  BY DEF Leads
<1>4. Walk(path, <<>>) \in Seq(Names)
  BY <1>2, <1>3, WalkIsPath
<1> QED
  BY <1>4 DEF ResolveExtendsParentPath, Clean, path

LEMMA PathsOfWorld ==
  ASSUME FilesInv
  PROVE  /\ world.leaf \in Seq(Names) \ {<<>>}
         /\ DeltaPath \in Seq(Names) \ {<<>>}
<1>1. world.leaf \in Seq(Names) \ {<<>>} /\ world.dir \in Seq(Names)
  BY FilesAssumption DEF FilesInv
<1>2. DeltaPath \in Seq(Names)
  BY FilesAssumption DEF FilesInv, DeltaPath
<1>3. DeltaPath # <<>>
  <2>1. Len(Append(world.dir, ".ict-adv.yml")) = Len(world.dir) + 1 /\ Len(world.dir) \in Nat
    BY <1>1
  <2> QED
    BY <2>1, EmptySeq DEF DeltaPath, Delta
<1> QED
  BY <1>1, <1>2, <1>3

(* What is said of a chain depends on the world, and on its files. *)
LEMMA ChainSeen ==
  ASSUME UNCHANGED world
  PROVE  /\ IsChain(chain') => IsChain(chain)'
         /\ IsDistinct(chain') => IsDistinct(chain)'
         /\ UNCHANGED files /\ IsLoaded(chain') => IsLoaded(chain)'
BY DEF IsChain, IsDistinct, IsLoaded, CheckSymlink, CanonicalPath

LEMMA FilesSeen ==
  ASSUME FilesInv, UNCHANGED world, files' \in {files, world.files}
  PROVE  FilesInv'
<1>1. \A p \in DOMAIN world.files : world.files[p].extends \in Seq(STRING)
  BY FilesAssumption DEF FilesInv
<1>2. DeltaPath' = DeltaPath
  BY DEF DeltaPath
<1> QED
  BY <1>1, <1>2 DEF FilesInv

LEMMA ChainStays ==
  ASSUME ChainInv, UNCHANGED <<world, chain>>, FilesInv', pc' # "load"
  PROVE  ChainInv'
BY ChainSeen DEF ChainInv

LEMMA LoadStep ==
  ASSUME ChainInv, UNCHANGED <<world, files>>, NEW path \in Seq(Names) \ {<<>>}, NEW for, Load(path, for)
  PROVE  ChainInv'
<1>1. FilesInv /\ FilesInv'
  BY FilesSeen DEF ChainInv
<1>2. chain' = IF Loadable(path) THEN <<LoadTemplate(path)>> ELSE <<>>
  BY DEF Load
<1>3. IsChain(chain') /\ IsLoaded(chain') /\ IsDistinct(chain')
  BY <1>1, <1>2, FirstLayer
<1> QED
  BY <1>1, <1>3, ChainSeen DEF ChainInv

LEMMA LoadParentStep ==
  ASSUME ChainInv, LoadParent
  PROVE  ChainInv'
<1> DEFINE refs == Last(chain).layer.extends
           parent == ResolveExtendsParentPath(Last(chain).path, refs)
<1>1. /\ pc = "load" /\ chain # <<>> /\ refs # <<>>
      /\ AcceptsParent(parent) /\ chain' = Append(chain, LoadTemplate(parent))
      /\ UNCHANGED <<world, files, pc>>
  BY DEF LoadParent
<1>2. Last(chain).path \in Seq(Names) \ {<<>>} /\ refs \in Seq(STRING)
  <2>1. chain \in Seq(Range(chain))
    BY DEF ChainInv, IsChain
  <2>2. Len(chain) \in DOMAIN chain
    BY <1>1, <2>1
  <2> QED
    BY <2>2 DEF ChainInv, IsChain, Last
<1>3. parent \in Seq(Names)
  BY <1>1, <1>2, ParentIsPath
<1> HIDE DEF refs, parent
<1>4. IsChain(chain') /\ IsLoaded(chain') /\ IsDistinct(chain')
  BY <1>1, <1>3, NextLayer DEF Names
<1>5. FilesInv'
  BY <1>1, FilesSeen DEF ChainInv
<1> QED
  BY <1>1, <1>4, <1>5, ChainSeen DEF ChainInv

LEMMA FailStep ==
  ASSUME ChainInv, Fail
  PROVE  ChainInv'
<1>1. FilesInv'
  BY FilesSeen DEF ChainInv, Fail
<1> QED
  BY <1>1, ChainStays DEF Fail

LEMMA BecomeStep ==
  ASSUME ChainInv, NEW r, NEW next, next # "load", Become(r, next)
  PROVE  ChainInv'
<1>1. FilesInv'
  BY FilesSeen DEF ChainInv, Become
<1> QED
  BY <1>1, ChainStays DEF Become

(* The delta names the template it was made from. *)
LEMMA DeltaExtends ==
  ASSUME NEW path, NEW parent, NEW sel, NEW catalogue, NEW os, NEW edgePack
  PROVE  BuildDelta(path, parent, sel, catalogue, os, edgePack).extends = path
BY DEF BuildDelta, NoTemplate

LEMMA DeltaStep ==
  ASSUME ChainInv, DeltaForOverride
  PROVE  ChainInv'
<1>1. CASE ~Loadable(world.leaf)
  BY <1>1, FailStep DEF DeltaForOverride
<1>2. CASE Loadable(world.leaf)
  <2> DEFINE ref == SubSeq(world.leaf, Len(world.dir) + 1, Len(world.leaf))
             d == BuildDelta(ref, files[CanonicalPath(world.leaf)], world.sel,
                             world.catalogue, world.os, world.edgePack)
  <2>1. files' = Put(files, DeltaPath, d) /\ pc' = "resolve" /\ UNCHANGED <<world, chain>>
    BY <1>2 DEF DeltaForOverride
  <2>2. ref \in Seq(STRING)
    <3>1. world.leaf \in Seq(STRING) /\ world.dir \in Seq(STRING)
      BY NamesAreStrings, FilesAssumption DEF ChainInv, FilesInv
    <3>2. Len(world.dir) + 1 \in Int /\ Len(world.leaf) \in Int
          /\ \A i \in (Len(world.dir) + 1)..Len(world.leaf) : world.leaf[i] \in STRING
      BY <3>1
    <3> QED
      BY <3>2, SubSeqProperties
  <2>3. d.extends = ref
    <3> HIDE DEF ref
    <3> QED
      BY DeltaExtends
  <2> HIDE DEF d, ref
  <2>4. /\ DOMAIN files' = DOMAIN files \cup {DeltaPath}
        /\ \A p \in DOMAIN files' : files'[p] = IF p = DeltaPath THEN d ELSE files[p]
    BY <2>1 DEF Put
  <2>5. FilesInv'
    <3>1. DeltaPath' = DeltaPath
      BY <2>1 DEF DeltaPath
    <3> QED
      BY <2>1, <2>2, <2>3, <2>4, <3>1 DEF ChainInv, FilesInv
  <2> QED
    BY <2>1, <2>5, ChainStays
<1> QED
  BY <1>1, <1>2

LEMMA ChainStep ==
  ASSUME ChainInv, [TemplateNext]_templateVars
  PROVE  ChainInv'
<1>0. FilesInv
  BY DEF ChainInv
<1>1. CASE LoadFails
  BY <1>1, FilesSeen, ChainStays DEF LoadFails, ChainInv
<1>2. CASE LoadParent
  BY <1>2, LoadParentStep
<1>3. CASE LoadAndMergeTemplate
  BY <1>3, FilesSeen, ChainStays DEF LoadAndMergeTemplate, ChainInv
<1>4. CASE ComposeParent
  <2>1. CASE Fail
    BY <2>1, FailStep
  <2>2. CASE pc' = "delta" /\ UNCHANGED <<world, files, goal, chain, template, views>>
    BY <2>2, FilesSeen, ChainStays DEF ChainInv
  <2> QED
    BY <1>4, <2>1, <2>2 DEF ComposeParent
<1>5. CASE DeltaForOverride
  BY <1>5, DeltaStep
<1>6. CASE ResolveDelta
  BY <1>0, <1>6, LoadStep, PathsOfWorld DEF ResolveDelta
<1>7. CASE ComposeResult
  <2>1. CASE template = <<>>
    BY <1>7, <2>1, FailStep DEF ComposeResult
  <2>2. CASE template # <<>>
    BY <1>0, <1>7, <2>2, LoadStep, PathsOfWorld DEF ComposeResult
  <2> QED
    BY <2>1, <2>2
<1>8. CASE ComposeBase
  BY <1>0, <1>8, FilesSeen, ChainStays DEF ComposeBase
<1>9. CASE CheckTemplateCredentials
  <2>1. CASE Fail
    BY <2>1, FailStep
  <2>2. CASE Load(DeltaPath, "build") /\ UNCHANGED <<world, files, views>>
    BY <1>0, <2>2, LoadStep, PathsOfWorld
  <2> QED
    BY <1>9, <2>1, <2>2 DEF CheckTemplateCredentials
<1>10. CASE BuildOverridden
  <2>1. PICK r, next : next # "load" /\ (Fail \/ Become(r, next))
    BY <1>10 DEF BuildOverridden
  <2> QED
    BY <2>1, FailStep, BecomeStep
<1>11. CASE ApplyOEPInstaller
  <2>1. PICK r : Fail \/ Become(r, "apt")
    BY <1>11 DEF ApplyOEPInstaller
  <2> QED
    BY <2>1, FailStep, BecomeStep
<1>12. CASE GenerateAptSources
  <2>1. PICK r : Fail \/ Become(r, "download")
    BY <1>12 DEF GenerateAptSources
  <2> QED
    BY <2>1, FailStep, BecomeStep
<1>13. CASE DownloadImagePkgs
  <2>1. PICK r : Fail \/ Become(r, "image")
    BY <1>13 DEF DownloadImagePkgs
  <2> QED
    BY <2>1, FailStep, BecomeStep
<1>14. CASE CreateUsers
  <2>1. PICK r : Fail \/ Become(r, "done")
    BY <1>14 DEF CreateUsers
  <2> QED
    BY <2>1, FailStep, BecomeStep
<1>15. CASE UNCHANGED templateVars
  <2>1. UNCHANGED <<world, files, chain, pc>>
    BY <1>15 DEF templateVars
  <2>2. FilesInv' /\ IsLoaded(chain) => IsLoaded(chain')
    BY <1>0, <2>1, FilesSeen
  <2> QED
    BY <1>0, <2>1, <2>2, FilesSeen, ChainSeen DEF ChainInv
<1> QED
  BY <1>1, <1>2, <1>3, <1>4, <1>5, <1>6, <1>7, <1>8, <1>9, <1>10, <1>11, <1>12, <1>13, <1>14, <1>15
  DEF TemplateNext

LEMMA ChainInit == ASSUME TemplateInit PROVE ChainInv
<1>1. FilesInv
  BY FilesAssumption DEF TemplateInit, FilesInv
<1>2. CASE chain = <<>>
  <2>1. DOMAIN chain = {} /\ chain \in Seq(Range(chain))
    BY <1>2
  <2> QED
    BY <1>1, <2>1 DEF ChainInv, IsChain, IsLoaded, IsDistinct
<1>3. CASE chain = IF Loadable(world.leaf) THEN <<LoadTemplate(world.leaf)>> ELSE <<>>
  BY <1>1, <1>3, FirstLayer, PathsOfWorld DEF ChainInv
<1> QED
  BY <1>2, <1>3 DEF TemplateInit

THEOREM LayersDistinct == TemplateSpec => []LayersAreDistinct
<1>1. TemplateInit => ChainInv
  BY ChainInit
<1>2. ChainInv /\ [TemplateNext]_templateVars => ChainInv'
  BY ChainStep
<1>3. ChainInv => LayersAreDistinct
  BY DEF ChainInv, IsDistinct, LayersAreDistinct
<1> QED
  BY <1>1, <1>2, <1>3, PTL DEF TemplateSpec

-----------------------------------------------------------------------------
(* Templates with some fields changed, and where the tool writes *)

Shaped(t) == DOMAIN t = DOMAIN NoTemplate /\ DOMAIN t.system = DOMAIN NoSystem

Same(x, t, K) ==
  /\ Shaped(x)
  /\ \A f \in DOMAIN NoTemplate \ {"system"} : x[f] = t[f]
  /\ \A f \in DOMAIN NoSystem \ K : x.system[f] = t.system[f]

(* A field of the system put, the others stay.                               *)
LEMMA SystemPut ==
  ASSUME NEW t, Shaped(t), NEW k \in DOMAIN NoSystem, NEW v
  PROVE  LET x == [t EXCEPT !.system[k] = v] IN Same(x, t, {k}) /\ x.system[k] = v
BY DEF Shaped, Same, NoTemplate

LEMMA FilesPut ==
  ASSUME NEW t, Shaped(t), NEW v
  PROVE  LET x == [t EXCEPT !.system.files = v] IN Same(x, t, {"files"}) /\ x.system.files = v
<1>1. "files" \in DOMAIN NoSystem
  BY DEF NoSystem
<1> QED
  BY <1>1, SystemPut

(* What changes in some fields is the same in those the checks look at,      *)
LEMMA SameFields ==
  ASSUME NEW x, NEW t, NEW K, Same(x, t, K), K \subseteq {"files", "packages", "users"}
  PROVE  /\ x.repos = t.repos /\ x.baseline = t.baseline /\ x.target = t.target
         /\ x.system.scripts = t.system.scripts /\ x.system.oep = t.system.oep
         /\ x.system.proxy = t.system.proxy /\ x.system.immutability = t.system.immutability
         /\ x.system.cloudInit = t.system.cloudInit /\ x.system.aptPolicy = t.system.aptPolicy
<1>1. /\ x.repos = t.repos /\ x.baseline = t.baseline /\ x.target = t.target
  BY DEF Same, NoTemplate
<1>2. /\ x.system.scripts = t.system.scripts /\ x.system.oep = t.system.oep
         /\ x.system.proxy = t.system.proxy /\ x.system.immutability = t.system.immutability
         /\ x.system.cloudInit = t.system.cloudInit /\ x.system.aptPolicy = t.system.aptPolicy
  BY DEF Same, NoSystem
<1> QED
  BY <1>1, <1>2

(* and so are the places the tool writes to.                                 *)
LEMMA SameGenerated ==
  ASSUME NEW x, NEW t, NEW K, Same(x, t, K), K \subseteq {"files", "packages"}
  PROVE  GeneratedProvisioningPaths(x) = GeneratedProvisioningPaths(t)
<1>1. x.system.users = t.system.users
  BY DEF Same, NoSystem
<1>2. /\ x.target = t.target /\ x.system.scripts = t.system.scripts
      /\ x.system.proxy = t.system.proxy /\ x.system.immutability = t.system.immutability
      /\ x.system.cloudInit = t.system.cloudInit
  BY SameFields
<1>3. HasAptPolicyTarget(x) = HasAptPolicyTarget(t)
  BY <1>2 DEF HasAptPolicyTarget
<1> QED
  BY <1>1, <1>2, <1>3 DEF GeneratedProvisioningPaths

(* A prefix is as the whole at its indices.                                  *)
LEMMA PrefixAt ==
  ASSUME NEW p, NEW q, IsList(p), IsList(q), IsPrefix(p, q)
  PROVE  Len(p) <= Len(q) /\ \A i \in 1..Len(p) : p[i] = q[i]
<1> DEFINE k == Len(p)
<1>1. k \in Nat /\ Len(q) \in Nat /\ SubSeq(p, 1, k) = p
  BY DEF IsList
<1>2. k <= Len(q) /\ p = SubSeq(q, 1, k)
  BY <1>1 DEF IsPrefix
<1> HIDE DEF k
<1>3. \A i \in 1..k : SubSeq(q, 1, k)[i] = q[i]
  BY <1>1, <1>2 DEF IsList
<1> QED
  BY <1>2, <1>3 DEF k

(* Lists, and what is added to their end.                                    *)
LEMMA ListIn ==
  ASSUME NEW S, NEW s \in Seq(S)
  PROVE  IsList(s)
BY DEF IsList, Range

LEMMA ListThen ==
  ASSUME NEW s, IsList(s), NEW x
  PROVE  /\ IsList(Append(s, x)) /\ Len(s) \in Nat /\ Len(Append(s, x)) = Len(s) + 1
         /\ Append(s, x)[Len(s) + 1] = x /\ \A i \in 1..Len(s) : Append(s, x)[i] = s[i]
         /\ s \o <<x>> = Append(s, x)
<1> DEFINE S == Range(s) \cup {x}
<1>1. s \in Seq(S)
  BY DEF IsList
<1> HIDE DEF S
<1>2. x \in S
  BY DEF S
<1>3. Append(s, x) \in Seq(S) /\ Len(s) \in Nat /\ Len(Append(s, x)) = Len(s) + 1
         /\ Append(s, x)[Len(s) + 1] = x /\ \A i \in 1..Len(s) : Append(s, x)[i] = s[i]
         /\ s \o <<x>> = Append(s, x)
  BY <1>1, <1>2
<1>4. IsList(Append(s, x))
  BY <1>3, ListIn
<1> QED
  BY <1>3, <1>4

(* Where the tool writes for what a template says. *)
LEMMA GeneratedAre ==
  ASSUME NEW t, NEW p \in GeneratedProvisioningPaths(t)
  PROVE  /\ IsList(p) /\ Len(p) >= 3
         /\ \/ p[1] = "var"
            \/ p[1] = "usr" /\ p[2] = "libexec"
            \/ p[1] = "etc" /\ p[2] \in {"systemd", "cloud"}
            \/ p[1] = "etc" /\ p[2] = "sudoers.d" /\ p[3] = "90-ict-key-only-admins"
            \/ p[1] = "etc" /\ p[2] = "apt" /\ p[3] = "apt.conf.d"
            \/ /\ t.system.immutability.enabled /\ Len(p) = 4
               /\ p[1] = "etc" /\ p[2] = "apt" /\ p[3] = "preferences.d" /\ p[4] = "00-ict-apt-policy"
<1>1. \/ p \in {SystemdProxy, AptProxy, Datasource, KeyOnlySudoers, StampDir}
      \/ p \in MetaDataFiles \/ p \in UnitPrefixes
      \/ t.system.immutability.enabled /\ p \in AptPolicyFiles
  BY DEF GeneratedProvisioningPaths
<1>t. /\ \A a, b, c : LET s == <<a, b, c>> IN IsList(s) /\ Len(s) = 3 /\ s[1] = a /\ s[2] = b /\ s[3] = c
      /\ \A a, b, c, d : LET s == <<a, b, c, d>> IN
            IsList(s) /\ Len(s) = 4 /\ s[1] = a /\ s[2] = b /\ s[3] = c /\ s[4] = d
  <2>1. ASSUME NEW a, NEW b, NEW c PROVE IsList(<<a, b, c>>)
    <3>1. <<a, b, c>> \in Seq({a, b, c})
      OBVIOUS
    <3> QED
      BY <3>1, ListIn
  <2>2. ASSUME NEW a, NEW b, NEW c, NEW d PROVE IsList(<<a, b, c, d>>)
    <3>1. <<a, b, c, d>> \in Seq({a, b, c, d})
      OBVIOUS
    <3> QED
      BY <3>1, ListIn
  <2> QED
    BY <2>1, <2>2
<1> DEFINE OfSystemd(a) == IsList(a) /\ Len(a) >= 3 /\ a[1] = "etc" /\ a[2] = "systemd"
<1>2. OfSystemd(EtcSystemd)
  BY <1>t DEF EtcSystemd
<1>3. ASSUME NEW a, OfSystemd(a), NEW name
      PROVE  OfSystemd(a \o <<name>>)
  <2> DEFINE b == Append(a, name)
  <2>1. /\ IsList(b) /\ Len(a) \in Nat /\ Len(b) = Len(a) + 1 /\ \A i \in 1..Len(a) : b[i] = a[i]
        /\ a \o <<name>> = b
    BY <1>3, ListThen
  <2> HIDE DEF b
  <2>2. 1 \in 1..Len(a) /\ 2 \in 1..Len(a) /\ Len(b) >= 3
    BY <1>3, <2>1
  <2>3. OfSystemd(b)
    BY <1>3, <2>1, <2>2
  <2> QED
    BY <2>1, <2>3
<1> HIDE DEF OfSystemd
<1>4. OfSystemd(Wants)
  BY <1>2, <1>3 DEF Wants
<1>5. ASSUME p \in UnitPrefixes
      PROVE  OfSystemd(p)
  <2>1. PICK a \in {EtcSystemd, Wants} : p = a \o <<"ict-provision-">>
    BY <1>5 DEF UnitPrefixes
  <2>2. OfSystemd(a)
    BY <1>2, <1>4
  <2> QED
    BY <1>3, <2>1, <2>2
<1>6. ASSUME p \in MetaDataFiles, p # <<"usr", "libexec", "ict-cloud-init-meta-data">>
      PROVE  OfSystemd(p)
  <2>1. PICK a \in {EtcSystemd, Wants} : p = a \o <<"ict-cloud-init-meta-data.service">>
    BY <1>6 DEF MetaDataFiles
  <2>2. OfSystemd(a)
    BY <1>2, <1>4
  <2> QED
    BY <1>3, <2>1, <2>2
<1>7. CASE p \in {SystemdProxy, AptProxy, Datasource, KeyOnlySudoers, StampDir, <<"usr", "libexec", "ict-cloud-init-meta-data">>}
  BY <1>t, <1>7 DEF SystemdProxy, AptProxy, Datasource, KeyOnlySudoers, StampDir
<1>8. CASE t.system.immutability.enabled /\ p \in AptPolicyFiles
  BY <1>t, <1>8 DEF AptPolicyFiles
<1> QED
  BY <1>1, <1>5, <1>6, <1>7, <1>8 DEF OfSystemd

(* A place is apart from all of these, whatever is below it. *)
Apart(t, f) ==
  /\ IsList(f) /\ Len(f) >= 3
  /\ \/ f[1] = "usr" /\ f[2] = "local"
     \/ f[1] = "etc" /\ f[2] = "sudoers.d" /\ f[3] # "90-ict-key-only-admins"
     \/ f[1] = "etc" /\ f[2] = "apt" /\ f[3] \notin {"apt.conf.d", "preferences.d"}
     \/ /\ f[1] = "etc" /\ f[2] = "apt" /\ f[3] = "preferences.d"
        /\ (Len(f) >= 4 /\ f[4] # "00-ict-apt-policy") \/ ~t.system.immutability.enabled

(* What is apart from the tool's places is free of them.                     *)
LEMMA ApartIsFree ==
  ASSUME NEW t, NEW f \in DOMAIN t.system.files, Apart(t, f)
  PROVE  NotGenerated(t, f)
<1> SUFFICES ASSUME NEW dest \in InstallsTo(t, f), NEW p \in GeneratedProvisioningPaths(t), IsPrefix(p, dest)
             PROVE  FALSE
  BY DEF NotGenerated
<1>1. IsList(f) /\ IsList(p) /\ Len(f) >= 3 /\ Len(p) >= 3 /\ Len(f) \in Nat /\ Len(p) \in Nat
  BY GeneratedAre DEF Apart, IsList
<1>2. dest = f \/ \E x : dest = Append(f, x)
  BY DEF InstallsTo
<1>3. IsList(dest) /\ \A i \in 1..Len(f) : dest[i] = f[i]
  <2>1. CASE dest = f
    BY <1>1, <2>1
  <2>2. ASSUME NEW x, dest = Append(f, x) PROVE IsList(dest) /\ \A i \in 1..Len(f) : dest[i] = f[i]
    BY <1>1, <2>2, ListThen
  <2> QED
    BY <1>2, <2>1, <2>2
<1>4. \A i \in 1..Len(p) : p[i] = dest[i]
  BY <1>1, <1>3, PrefixAt
<1>5. p[1] = f[1] /\ p[2] = f[2] /\ p[3] = f[3]
  BY <1>1, <1>3, <1>4
<1>6. Len(f) >= 4 /\ Len(p) = 4 => p[4] = f[4]
  BY <1>1, <1>3, <1>4
<1> QED
  BY <1>5, <1>6, GeneratedAre DEF Apart

-----------------------------------------------------------------------------
(* The layers merged are a layer *)

(* What a step by step definition computes exists, *)
Computes(f, W, base, n, G) ==
  f \in [0..n -> W] /\ f[0] = base /\ \A i \in 1..n : f[i] = G[i][f[i - 1]]

LEMMA Recursion ==
  ASSUME NEW W, NEW base \in W, NEW n \in Nat, NEW G \in [1..n -> [W -> W]]
  PROVE  \E f : Computes(f, W, base, n, G)
<1> DEFINE Upto(f, k) == /\ f = [i \in 0..k |-> IF i = 0 THEN base ELSE G[i][f[i - 1]]]
                         /\ \A i \in 0..k : f[i] \in W
           S == {k \in Nat : k <= n => \E f : Upto(f, k)}
<1>1. 0 \in S
  <2>1. Upto([i \in 0..0 |-> base], 0)
    OBVIOUS
  <2> QED
    BY <2>1
<1>2. ASSUME NEW k \in S PROVE k + 1 \in S
  <2> SUFFICES ASSUME k + 1 <= n PROVE \E f : Upto(f, k + 1)
    OBVIOUS
  <2>1. PICK f : Upto(f, k)
    OBVIOUS
  <2> DEFINE on == [i \in 0..(k + 1) |-> IF i = k + 1 THEN G[k + 1][f[k]] ELSE f[i]]
  <2>2. k \in Nat /\ k + 1 \in 1..n /\ k \in 0..k
    OBVIOUS
  <2>3. G[k + 1][f[k]] \in W
    BY <2>1, <2>2
  <2>4. ASSUME NEW i \in 0..(k + 1)
        PROVE  on[i] \in W /\ on[i] = IF i = 0 THEN base ELSE G[i][on[i - 1]]
    <3>1. CASE i = k + 1
      <4>1. on[i] = G[k + 1][f[k]] /\ on[i - 1] = f[k]
        BY <2>2, <3>1
      <4> QED
        BY <2>2, <2>3, <3>1, <4>1
    <3>2. CASE i # k + 1
      <4>1. i \in 0..k /\ on[i] = f[i] /\ (i # 0 => i - 1 \in 0..k /\ on[i - 1] = f[i - 1])
        BY <2>2, <3>2
      <4>2. f[i] \in W /\ f[i] = IF i = 0 THEN base ELSE G[i][f[i - 1]]
        BY <2>1, <4>1
      <4> QED
        BY <4>1, <4>2
    <3> QED
      BY <3>1, <3>2
  <2> HIDE DEF on
  <2>5. on = [i \in 0..(k + 1) |-> on[i]]
    BY DEF on
  <2>6. Upto(on, k + 1)
    BY <2>4, <2>5
  <2> QED
    BY <2>6
<1>3. S = Nat
  <2> HIDE DEF S
  <2>1. S \in SUBSET Nat
    BY DEF S
  <2> QED
    BY <1>1, <1>2, <2>1, Climb
<1>4. PICK f : Upto(f, n)
  <2>1. n \in S
    BY <1>3
  <2> QED
    BY <2>1
<1>5. f \in [0..n -> W] /\ f[0] = base /\ \A i \in 1..n : f[i] = G[i][f[i - 1]]
  BY <1>4
<1> QED
  BY <1>5 DEF Computes

(* and stays where each of its steps stays. *)
LEMMA Stays ==
  ASSUME NEW W, NEW n \in Nat, NEW f, f[0] \in W, \A i \in 1..n : f[i - 1] \in W => f[i] \in W
  PROVE  f[n] \in W
<1> DEFINE S == {k \in Nat : k <= n => f[k] \in W}
<1>1. 0 \in S
  OBVIOUS
<1>2. ASSUME NEW k \in S PROVE k + 1 \in S
  <2> SUFFICES ASSUME k + 1 <= n PROVE f[k + 1] \in W
    OBVIOUS
  <2>1. k + 1 \in 1..n /\ (k + 1) - 1 = k /\ f[k] \in W
    OBVIOUS
  <2> QED
    BY <2>1
<1>3. S = Nat
  <2> HIDE DEF S
  <2>1. S \in SUBSET Nat
    BY DEF S
  <2> QED
    BY <1>1, <1>2, <2>1, Climb
<1> QED
  BY <1>3

(* A list with an element replaced.                                          *)
LEMMA PutInList ==
  ASSUME NEW S, NEW s \in Seq(S), NEW x \in S, NEW k
  PROVE  [s EXCEPT ![k] = x] \in Seq(S)
<1> DEFINE n == Len(s)
           q == [s EXCEPT ![k] = x]
<1>1. n \in Nat /\ s \in [1..n -> S]
  OBVIOUS
<1> HIDE DEF n
<1>2. DOMAIN q = 1..n /\ \A i \in 1..n : q[i] \in S
  BY <1>1
<1>3. q \in [1..n -> S]
  BY <1>1, <1>2
<1> HIDE DEF q
<1>4. q \in Seq(S)
  BY <1>1, <1>3, IsASeq
<1> QED
  BY <1>4 DEF q

(* Merged scripts are of both layers',                                       *)
LEMMA MergedScripts ==
  ASSUME NEW S, NEW inherited \in Seq(S), NEW own \in Seq(S)
  PROVE  MergeScripts(inherited, own) \in Seq(S)
<1> DEFINE place(list, s) ==
             LET same == {i \in DOMAIN list : list[i].name = s.name}
             IN  IF same = {} THEN Append(list, s) ELSE [list EXCEPT ![Min(same)] = s]
           n == Len(own)
           W == Seq(S)
           Is(f) == f = [i \in 0..n |-> IF i = 0 THEN inherited
                                        ELSE With(f[i - 1], LAMBDA acc : place(acc, own[i]))]
<1>1. n \in Nat /\ \A i \in 1..n : own[i] \in S
  OBVIOUS
<1>2. ASSUME NEW list \in W, NEW s \in S PROVE place(list, s) \in W
  <2>1. Append(list, s) \in W
    OBVIOUS
  <2>2. ASSUME NEW k PROVE [list EXCEPT ![k] = s] \in W
    BY PutInList
  <2> QED
    BY <2>1, <2>2
<1>3. MergeScripts(inherited, own) = (CHOOSE f : Is(f))[n]
  BY DEF MergeScripts, Fold, With
<1> HIDE DEF place, W
<1>W. \A l \in W, s \in S : place(l, s) \in W
  BY <1>2
<1>4. \A l, i : With(l, LAMBDA acc : place(acc, own[i])) = place(l, own[i])
  BY DEF With
<1>5. \E f : Is(f)
  <2> DEFINE G == [i \in 1..n |-> [l \in W |-> place(l, own[i])]]
  <2>1. G \in [1..n -> [W -> W]]
    BY <1>1, <1>2
  <2>2. inherited \in W
    BY DEF W
  <2> HIDE DEF G, n
  <2>3. PICK f : Computes(f, W, inherited, n, G)
    BY <1>1, <2>1, <2>2, Recursion
  <2>4. ASSUME NEW i \in 1..n PROVE f[i] = place(f[i - 1], own[i])
    <3>1. f[i - 1] \in W
      BY <1>1, <2>3 DEF Computes
    <3> QED
      BY <2>3, <3>1 DEF Computes, G
  <2>5. \A i \in 0..n : f[i] = IF i = 0 THEN inherited ELSE With(f[i - 1], LAMBDA acc : place(acc, own[i]))
    <3>1. f[0] = inherited
      BY <2>3 DEF Computes
    <3>2. \A i \in 0..n : f[i] = IF i = 0 THEN inherited ELSE place(f[i - 1], own[i])
      BY <1>1, <2>4, <3>1
    <3> QED
      BY <3>2 DEF With
  <2>6. Is(f)
    BY <2>3, <2>5 DEF Computes
  <2> QED
    BY <2>6
<1> DEFINE f == CHOOSE g : Is(g)
<1>6. Is(f)
  BY <1>5
<1> HIDE DEF f, n
<1>7. f[0] \in W
  BY <1>1, <1>6 DEF W
<1>8. ASSUME NEW i \in 1..n, f[i - 1] \in W PROVE f[i] \in W
  <2>1. i \in 0..n /\ i # 0
    BY <1>1
  <2>2. f[i] = place(f[i - 1], own[i])
    BY <1>4, <1>6, <2>1
  <2> QED
    BY <1>1, <1>8, <1>W, <2>2
<1>9. f[n] \in W
  BY <1>1, <1>7, <1>8, Stays
<1> QED
  BY <1>3, <1>9 DEF f, W

(* Repositories are placed one by one, so what each of them keeps all keep,  *)
Placed(list, r) ==
  LET same == {i \in DOMAIN list : SameRepository(list[i], r)}
  IN  IF same = {} THEN Append(list, r) ELSE [list EXCEPT ![Min(same)] = r]

LEMMA AllPlaced ==
  ASSUME NEW W, NEW below \in W, below # <<>>, NEW own, Len(own) \in Nat,
         \A l \in W, i \in 1..Len(own) : Placed(l, own[i]) \in W
  PROVE  MergeRepositories(below, own) \in W
<1> DEFINE place(list, r) ==
             LET same == {i \in DOMAIN list : SameRepository(list[i], r)}
             IN  IF same = {} THEN Append(list, r) ELSE [list EXCEPT ![Min(same)] = r]
           n == Len(own)
           Is(f) == f = [i \in 0..n |-> IF i = 0 THEN below
                                        ELSE With(f[i - 1], LAMBDA acc : place(acc, own[i]))]
<1>1. n \in Nat /\ \A l \in W, i \in 1..n : place(l, own[i]) \in W
  BY DEF Placed
<1>3. MergeRepositories(below, own) = (CHOOSE f : Is(f))[n]
  BY DEF MergeRepositories, Fold, With
<1> HIDE DEF place
<1>4. \A l, i : With(l, LAMBDA acc : place(acc, own[i])) = place(l, own[i])
  BY DEF With
<1>5. \E f : Is(f)
  <2> DEFINE G == [i \in 1..n |-> [l \in W |-> place(l, own[i])]]
  <2>1. G \in [1..n -> [W -> W]]
    BY <1>1
  <2> HIDE DEF G, n
  <2>3. PICK f : Computes(f, W, below, n, G)
    BY <1>1, <2>1, Recursion
  <2>4. ASSUME NEW i \in 1..n PROVE f[i] = place(f[i - 1], own[i])
    <3>1. f[i - 1] \in W
      BY <1>1, <2>3 DEF Computes
    <3> QED
      BY <2>3, <3>1 DEF Computes, G
  <2>5. \A i \in 0..n : f[i] = IF i = 0 THEN below ELSE With(f[i - 1], LAMBDA acc : place(acc, own[i]))
    <3>1. f[0] = below
      BY <2>3 DEF Computes
    <3>2. \A i \in 0..n : f[i] = IF i = 0 THEN below ELSE place(f[i - 1], own[i])
      BY <1>1, <2>4, <3>1
    <3> QED
      BY <3>2 DEF With
  <2>6. Is(f)
    BY <2>3, <2>5 DEF Computes
  <2> QED
    BY <2>6
<1> DEFINE f == CHOOSE g : Is(g)
<1>6. Is(f)
  BY <1>5
<1> HIDE DEF f, n
<1>7. f[0] \in W
  BY <1>1, <1>6
<1>8. ASSUME NEW i \in 1..n, f[i - 1] \in W PROVE f[i] \in W
  <2>1. i \in 0..n /\ i # 0
    BY <1>1
  <2>2. f[i] = place(f[i - 1], own[i])
    BY <1>4, <1>6, <2>1
  <2> QED
    BY <1>1, <1>8, <2>2
<1>9. f[n] \in W
  BY <1>1, <1>7, <1>8, Stays
<1> QED
  BY <1>3, <1>9 DEF f

LEMMA MergedRepositories ==
  ASSUME NEW S, NEW below \in Seq(S), NEW own \in Seq(S)
  PROVE  MergeRepositories(below, own) \in Seq(S)
<1> DEFINE W == Seq(S)
<1> SUFFICES ASSUME below # <<>> PROVE MergeRepositories(below, own) \in W
  BY DEF MergeRepositories
<1>1. Len(own) \in Nat /\ \A i \in 1..Len(own) : own[i] \in S
  OBVIOUS
<1>2. ASSUME NEW list \in W, NEW s \in S PROVE Placed(list, s) \in W
  <2>1. Append(list, s) \in W
    OBVIOUS
  <2>2. ASSUME NEW k PROVE [list EXCEPT ![k] = s] \in W
    BY PutInList
  <2> QED
    BY <2>1, <2>2 DEF Placed
<1> HIDE DEF W
<1>3. below \in W
  BY DEF W
<1> QED
  BY <1>1, <1>2, <1>3, AllPlaced

(* What each section of two that are merged comes to.                        *)
SystemIs(x, d, u) ==
  /\ DOMAIN x = DOMAIN NoSystem
  /\ x.name = Or(u.name, d.name) /\ x.host = Or(u.host, d.host)
  /\ x.initramfs = Or(u.initramfs, d.initramfs)
  /\ x.immutability = MergeImmutability(d.immutability, u.immutability)
  /\ x.fde = IF DeclaresFDE(u.fde) THEN u.fde ELSE d.fde
  /\ x.users = MergeUsers(d.users, u.users) /\ x.files = Over(d.files, u.files)
  /\ x.configurations = d.configurations \o u.configurations
  /\ x.bootloader = MergeBootloader(d.bootloader, u.bootloader)
  /\ x.network = MergeNetwork(d.network, u.network)
  /\ x.packages = d.packages \cup u.packages
  /\ x.kernel = MergeKernel(d.kernel, u.kernel) /\ x.dkms = MergeDkms(d.dkms, u.dkms)
  /\ x.proxy = IF u.proxy.provided \/ ~IsEmptyProxy(u.proxy) THEN u.proxy ELSE d.proxy
  /\ x.scripts = MergeScripts(d.scripts, u.scripts)
  /\ x.beforeLogin = OrList(u.beforeLogin, d.beforeLogin)
  /\ x.cloudInit = IF IsEmptyCloudInit(u.cloudInit) THEN d.cloudInit ELSE u.cloudInit
  /\ x.aptPolicy = OrList(u.aptPolicy, d.aptPolicy) /\ x.oep = OrList(u.oep, d.oep)

LEMMA SystemMerged ==
  ASSUME NEW d, NEW u, DOMAIN d = DOMAIN NoSystem
  PROVE  SystemIs(MergeSystem(d, u), d, u)
<1> DEFINE y == [d EXCEPT
            !.name = Or(u.name, @), !.host = Or(u.host, @), !.initramfs = Or(u.initramfs, @),
            !.immutability = MergeImmutability(@, u.immutability),
            !.fde = IF DeclaresFDE(u.fde) THEN u.fde ELSE @,
            !.users = MergeUsers(@, u.users),
            !.files = MergeFiles(@, u.files),
            !.configurations = @ \o u.configurations,
            !.bootloader = MergeBootloader(@, u.bootloader),
            !.network = MergeNetwork(@, u.network),
            !.packages = @ \cup u.packages,
            !.kernel = MergeKernel(@, u.kernel),
            !.dkms = MergeDkms(@, u.dkms)]
           x == MergeProvisioningSections(y, u)
<1>0. DOMAIN NoSystem = {"name", "host", "initramfs", "users", "packages", "files", "configurations",
                         "kernel", "bootloader", "network", "fde", "immutability", "dkms", "proxy",
                         "scripts", "beforeLogin", "cloudInit", "aptPolicy", "oep"}
  BY DEF NoSystem
<1>1. /\ DOMAIN y = DOMAIN NoSystem
      /\ y.name = Or(u.name, d.name) /\ y.host = Or(u.host, d.host)
      /\ y.initramfs = Or(u.initramfs, d.initramfs)
      /\ y.immutability = MergeImmutability(d.immutability, u.immutability)
      /\ y.fde = IF DeclaresFDE(u.fde) THEN u.fde ELSE d.fde
      /\ y.users = MergeUsers(d.users, u.users) /\ y.files = Over(d.files, u.files)
      /\ y.configurations = d.configurations \o u.configurations
      /\ y.bootloader = MergeBootloader(d.bootloader, u.bootloader)
      /\ y.network = MergeNetwork(d.network, u.network)
      /\ y.packages = d.packages \cup u.packages
      /\ y.kernel = MergeKernel(d.kernel, u.kernel) /\ y.dkms = MergeDkms(d.dkms, u.dkms)
      /\ y.proxy = d.proxy /\ y.scripts = d.scripts /\ y.beforeLogin = d.beforeLogin
      /\ y.cloudInit = d.cloudInit /\ y.aptPolicy = d.aptPolicy /\ y.oep = d.oep
  BY <1>0 DEF MergeFiles
<1>2. MergeSystem(d, u) = x
  BY DEF MergeSystem
<1> HIDE DEF y
<1>3. /\ DOMAIN x = DOMAIN NoSystem
      /\ \A f \in DOMAIN NoSystem \ {"proxy", "scripts", "beforeLogin", "cloudInit", "aptPolicy", "oep"} : x[f] = y[f]
      /\ x.proxy = IF u.proxy.provided \/ ~IsEmptyProxy(u.proxy) THEN u.proxy ELSE y.proxy
      /\ x.scripts = MergeScripts(y.scripts, u.scripts)
      /\ x.beforeLogin = OrList(u.beforeLogin, y.beforeLogin)
      /\ x.cloudInit = IF IsEmptyCloudInit(u.cloudInit) THEN y.cloudInit ELSE u.cloudInit
      /\ x.aptPolicy = OrList(u.aptPolicy, y.aptPolicy) /\ x.oep = OrList(u.oep, y.oep)
  BY <1>0, <1>1 DEF MergeProvisioningSections
<1> HIDE DEF x
<1>4. /\ x.name = y.name /\ x.host = y.host /\ x.initramfs = y.initramfs /\ x.immutability = y.immutability
      /\ x.fde = y.fde /\ x.users = y.users /\ x.files = y.files /\ x.configurations = y.configurations
      /\ x.bootloader = y.bootloader /\ x.network = y.network /\ x.packages = y.packages
      /\ x.kernel = y.kernel /\ x.dkms = y.dkms
  BY <1>0, <1>3
<1> QED
  BY <1>1, <1>2, <1>3, <1>4 DEF SystemIs

(* What a template is merged to, before its immutability is looked at,       *)
Unfixed(u, d) ==
        [d EXCEPT
            !.extends = <<>>, !.metadata = u.metadata, !.target = u.target,
            !.name = Or(u.name, @),
            !.baseline = OrList(u.baseline, @),
            !.overlayPolicy = OrList(u.overlayPolicy, @),
            !.disk = IF u.disk = NoDisk THEN @ ELSE u.disk,
            !.system = IF IsEmptySystem(u.system) THEN @ ELSE MergeSystem(@, u.system),
            !.repos = MergeRepositories(@, u.repos)]

SystemOf(u, d) == IF IsEmptySystem(u.system) THEN d.system ELSE MergeSystem(d.system, u.system)
TemplateIs(y, u, d) ==
  /\ Shaped(y)
  /\ y.extends = <<>> /\ y.target = u.target
  /\ y.baseline = OrList(u.baseline, d.baseline)
  /\ y.overlayPolicy = OrList(u.overlayPolicy, d.overlayPolicy)
  /\ y.disk = IF u.disk = NoDisk THEN d.disk ELSE u.disk
  /\ y.repos = MergeRepositories(d.repos, u.repos)
  /\ \A f \in DOMAIN NoSystem \ {"immutability"} : y.system[f] = SystemOf(u, d)[f]
  /\ HasHashPartition(y.disk) => y.system.immutability = SystemOf(u, d).immutability

LEMMA TemplateMerged ==
  ASSUME NEW u, NEW d, Shaped(d)
  PROVE  TemplateIs(MergeConfigurations(u, d), u, d)
<1> DEFINE y == Unfixed(u, d)
           s == SystemOf(u, d)
           z == [y EXCEPT !.system.immutability.enabled = FALSE]
<1>0. DOMAIN NoTemplate = {"extends", "name", "target", "metadata", "baseline",
                           "overlayPolicy", "disk", "system", "repos"}
      /\ "immutability" \in DOMAIN NoSystem
  BY DEF NoTemplate, NoSystem
<1>1. DOMAIN s = DOMAIN NoSystem
  <2>1. DOMAIN d.system = DOMAIN NoSystem
    BY DEF Shaped
  <2>2. DOMAIN MergeSystem(d.system, u.system) = DOMAIN NoSystem
    <3>1. SystemIs(MergeSystem(d.system, u.system), d.system, u.system)
      BY <2>1, SystemMerged
    <3> QED
      BY <3>1 DEF SystemIs
  <2> QED
    BY <2>1, <2>2 DEF SystemOf
<1>2. /\ DOMAIN y = DOMAIN NoTemplate /\ y.system = s
      /\ y.extends = <<>> /\ y.target = u.target
      /\ y.baseline = OrList(u.baseline, d.baseline)
      /\ y.overlayPolicy = OrList(u.overlayPolicy, d.overlayPolicy)
      /\ y.disk = IF u.disk = NoDisk THEN d.disk ELSE u.disk
      /\ y.repos = MergeRepositories(d.repos, u.repos)
  BY <1>0 DEF Shaped, Unfixed, SystemOf
<1>3. MergeConfigurations(u, d) = FixImmutability(y)
  BY DEF MergeConfigurations, Unfixed
<1> HIDE DEF y, s
<1>4. /\ DOMAIN z = DOMAIN NoTemplate /\ DOMAIN z.system = DOMAIN NoSystem
      /\ \A f \in DOMAIN NoSystem \ {"immutability"} : z.system[f] = s[f]
      /\ z.extends = y.extends /\ z.target = y.target /\ z.baseline = y.baseline
      /\ z.overlayPolicy = y.overlayPolicy /\ z.disk = y.disk /\ z.repos = y.repos
  BY <1>0, <1>1, <1>2
<1> HIDE DEF z
<1>5. FixImmutability(y) = IF y.system.immutability.enabled /\ ~HasHashPartition(y.disk) THEN z ELSE y
  BY DEF FixImmutability, z
<1>6. CASE FixImmutability(y) = z /\ ~HasHashPartition(y.disk)
  BY <1>2, <1>3, <1>4, <1>6 DEF Shaped, TemplateIs, s
<1>7. CASE FixImmutability(y) = y
  BY <1>1, <1>2, <1>3, <1>7 DEF Shaped, TemplateIs, s
<1> QED
  BY <1>5, <1>6, <1>7

LEMMA MergedIs ==
  ASSUME NEW u, NEW d, Shaped(d)
  PROVE  LET x == MergeConfigurations(u, d) IN
         /\ Shaped(x)
         /\ x.system.files \in {d.system.files, Over(d.system.files, u.system.files)}
         /\ x.system.scripts \in {d.system.scripts, MergeScripts(d.system.scripts, u.system.scripts)}
         /\ x.repos = MergeRepositories(d.repos, u.repos)
<1> DEFINE x == MergeConfigurations(u, d)
           s == SystemOf(u, d)
<1>1. /\ Shaped(x) /\ x.repos = MergeRepositories(d.repos, u.repos)
      /\ \A f \in DOMAIN NoSystem \ {"immutability"} : x.system[f] = s[f]
  BY TemplateMerged DEF TemplateIs
<1> HIDE DEF x, s
<1>2. x.system.files = s.files /\ x.system.scripts = s.scripts
  BY <1>1 DEF NoSystem
<1>3. /\ s.files \in {d.system.files, Over(d.system.files, u.system.files)}
      /\ s.scripts \in {d.system.scripts, MergeScripts(d.system.scripts, u.system.scripts)}
  <2> DEFINE y == MergeSystem(d.system, u.system)
  <2>1. y.files = Over(d.system.files, u.system.files) /\ y.scripts = MergeScripts(d.system.scripts, u.system.scripts)
    <3>1. DOMAIN d.system = DOMAIN NoSystem
      BY DEF Shaped
    <3>2. SystemIs(y, d.system, u.system)
      BY <3>1, SystemMerged
    <3> HIDE DEF y
    <3> QED
      BY <3>2 DEF SystemIs
  <2>2. s = d.system \/ s = y
    BY DEF s, SystemOf
  <2> HIDE DEF y
  <2> QED
    BY <2>1, <2>2
<1> QED
  BY <1>1, <1>2, <1>3 DEF x

(* Layers merged are a layer,                                                *)
LEMMA MergedLayer ==
  ASSUME NEW u, NEW d, IsLayer(u), IsLayer(d)
  PROVE  IsLayer(MergeConfigurations(u, d))
<1> DEFINE x == MergeConfigurations(u, d)
           Scripts == {s \in Range(d.system.scripts) \cup Range(u.system.scripts) : IsList(s.final)}
           Repos == {r \in Range(d.repos) \cup Range(u.repos) : IsRepository(r) /\ ~HasOwnFiles(r)}
<1>1. Shaped(u) /\ Shaped(d)
  BY DEF IsLayer, IsTemplate, Shaped
<1>2. d.system.scripts \in Seq(Scripts) /\ u.system.scripts \in Seq(Scripts)
      /\ d.repos \in Seq(Repos) /\ u.repos \in Seq(Repos)
  <2>1. ASSUME NEW t \in {u, d}
        PROVE  /\ IsList(t.system.scripts) /\ \A s \in Range(t.system.scripts) : IsList(s.final)
               /\ IsList(t.repos) /\ \A r \in Range(t.repos) : IsRepository(r) /\ ~HasOwnFiles(r)
    BY <2>1 DEF IsLayer, IsTemplate
  <2>2. ASSUME NEW S, NEW s, IsList(s), Range(s) \subseteq S PROVE s \in Seq(S)
    BY <2>2 DEF IsList
  <2>3. /\ Range(d.system.scripts) \subseteq Scripts /\ Range(u.system.scripts) \subseteq Scripts
        /\ Range(d.repos) \subseteq Repos /\ Range(u.repos) \subseteq Repos
    BY <2>1
  <2> QED
    BY <2>1, <2>2, <2>3
<1>3. ASSUME NEW S, NEW s \in Seq(S) PROVE IsList(s) /\ Range(s) \subseteq S
  BY ListIn DEF Range
<1>4. /\ Shaped(x)
      /\ x.system.files \in {d.system.files, Over(d.system.files, u.system.files)}
      /\ x.system.scripts \in {d.system.scripts, MergeScripts(d.system.scripts, u.system.scripts)}
      /\ x.repos = MergeRepositories(d.repos, u.repos)
  BY <1>1, MergedIs DEF Shaped
<1>5. x.system.scripts \in Seq(Scripts) /\ x.repos \in Seq(Repos)
  <2> HIDE DEF x, Scripts, Repos
  <2> QED
    BY <1>2, <1>4, MergedScripts, MergedRepositories
<1>6. \A f \in DOMAIN x.system.files : IsHostFile(x.system.files[f])
  <2>1. \A f \in DOMAIN d.system.files : IsHostFile(d.system.files[f])
    BY DEF IsLayer, IsTemplate
  <2>2. \A f \in DOMAIN u.system.files : IsHostFile(u.system.files[f])
    BY DEF IsLayer, IsTemplate
  <2> HIDE DEF x
  <2> QED
    BY <1>4, <2>1, <2>2 DEF Over
<1> HIDE DEF x
<1>7. /\ IsList(x.system.scripts) /\ \A s \in Range(x.system.scripts) : IsList(s.final)
      /\ IsList(x.repos) /\ \A r \in Range(x.repos) : IsRepository(r) /\ ~HasOwnFiles(r)
  <2>1. /\ IsList(x.system.scripts) /\ Range(x.system.scripts) \subseteq Scripts
        /\ IsList(x.repos) /\ Range(x.repos) \subseteq Repos
    BY <1>3, <1>5
  <2> QED
    BY <2>1
<1>8. IsTemplate(x) /\ IsLayer(x)
  BY <1>4, <1>6, <1>7 DEF IsTemplate, IsLayer, Shaped
<1> QED
  BY <1>8 DEF x

(* so a chain of them is, merged one layer after another.                   *)
Merging(f, base, layers) ==
  f = [i \in 0..Len(layers) |-> IF i = 0 THEN base ELSE MergeConfigurations(layers[i], f[i - 1])]

LEMMA ChainMerged ==
  ASSUME NEW base, NEW layers, Len(layers) \in Nat
  PROVE  \E f : Merging(f, base, layers) /\ FoldChain(base, layers) = f[Len(layers)]
<1> DEFINE n == Len(layers)
           Is(f, k) == f = [i \in 0..k |-> IF i = 0 THEN base
                                ELSE With(f[i - 1], LAMBDA acc : MergeConfigurations(layers[i], acc))]
           S == {k \in Nat : \E f : Is(f, k)}
<1>2. FoldChain(base, layers) = (CHOOSE f : Is(f, n))[n]
  BY DEF FoldChain, Fold, With
<1>3. 0 \in S
  <2>1. [i \in 0..0 |-> base] = [i \in 0..0 |-> IF i = 0 THEN base
           ELSE With([j \in 0..0 |-> base][i - 1], LAMBDA acc : MergeConfigurations(layers[i], acc))]
    OBVIOUS
  <2> QED
    BY <2>1
<1>4. ASSUME NEW k \in S PROVE k + 1 \in S
  <2>1. PICK f : Is(f, k)
    OBVIOUS
  <2> DEFINE on == [i \in 0..(k + 1) |-> IF i = k + 1 THEN MergeConfigurations(layers[i], f[k]) ELSE f[i]]
  <2>2. k \in Nat /\ \A i \in 0..k : f[i] = IF i = 0 THEN base ELSE MergeConfigurations(layers[i], f[i - 1])
    BY <2>1 DEF With
  <2>3. ASSUME NEW i \in 0..(k + 1)
        PROVE  on[i] = IF i = 0 THEN base ELSE MergeConfigurations(layers[i], on[i - 1])
    <3>1. CASE i = k + 1
      <4>1. on[i] = MergeConfigurations(layers[i], f[k]) /\ on[i - 1] = f[k]
        BY <2>2, <3>1
      <4> QED
        BY <2>2, <3>1, <4>1
    <3>2. CASE i # k + 1
      <4>1. i \in 0..k /\ on[i] = f[i] /\ (i # 0 => i - 1 \in 0..k /\ on[i - 1] = f[i - 1])
        BY <2>2, <3>2
      <4> QED
        BY <2>2, <4>1
    <3> QED
      BY <3>1, <3>2
  <2> HIDE DEF on
  <2>4. on = [i \in 0..(k + 1) |-> on[i]]
    BY DEF on
  <2>5. Is(on, k + 1)
    BY <2>3, <2>4 DEF With
  <2>6. \E g : Is(g, k + 1)
    BY <2>5
  <2> HIDE DEF Is
  <2> QED
    BY <2>2, <2>6
<1>5. n \in S
  <2> HIDE DEF S
  <2>1. S \in SUBSET Nat
    BY DEF S
  <2> QED
    BY <1>3, <1>4, <2>1, Climb
<1> DEFINE f == CHOOSE g : Is(g, n)
<1>6. Is(f, n)
  BY <1>5
<1> HIDE DEF f
<1>7. Merging(f, base, layers)
  BY <1>6 DEF Merging, With
<1> QED
  BY <1>2, <1>7 DEF f

LEMMA FoldedLayer ==
  ASSUME NEW base, IsLayer(base), NEW L, \A l \in L : IsLayer(l), NEW layers \in Seq(L)
  PROVE  IsLayer(FoldChain(base, layers))
<1>1. PICK f : Merging(f, base, layers) /\ FoldChain(base, layers) = f[Len(layers)]
  BY ChainMerged
<1> DEFINE n == Len(layers)
           S == {i \in Nat : i <= n => IsLayer(f[i])}
<1>2. \A i \in 0..n : f[i] = IF i = 0 THEN base ELSE MergeConfigurations(layers[i], f[i - 1])
  BY <1>1 DEF Merging
<1>3. n \in Nat /\ \A i \in 1..n : IsLayer(layers[i])
  OBVIOUS
<1> HIDE DEF n
<1>4. 0 \in S
  BY <1>2, <1>3
<1>5. ASSUME NEW i \in S PROVE i + 1 \in S
  <2> SUFFICES ASSUME i + 1 <= n PROVE IsLayer(f[i + 1])
    OBVIOUS
  <2>1. i \in Nat /\ i + 1 \in 1..n /\ i + 1 \in 0..n /\ (i + 1) - 1 = i /\ IsLayer(f[i])
    BY <1>3
  <2>2. f[i + 1] = MergeConfigurations(layers[i + 1], f[i])
    BY <1>2, <2>1
  <2> QED
    BY <1>3, <2>1, <2>2, MergedLayer
<1>6. S = Nat
  <2> HIDE DEF S
  <2>1. S \in SUBSET Nat
    BY DEF S
  <2> QED
    BY <1>4, <1>5, <2>1, Climb
<1>7. IsLayer(f[n])
  BY <1>3, <1>6
<1> QED
  BY <1>1, <1>7 DEF n

(* A layer read, and the chain of them merged. *)
LayersInv ==
  /\ \A p \in DOMAIN files : IsLayer(files[p])
  /\ \A i \in DOMAIN chain : IsLayer(chain[i].layer)

(* The chain of a template read is one of layers.                            *)
LEMMA UserLayers ==
  ASSUME ChainInv, LayersInv, pc = "load", chain # <<>>
  PROVE  /\ \E L : (\A l \in L : IsLayer(l)) /\ UserChain \in Seq(L)
         /\ IsLayer(UserMerged)
<1> DEFINE L == {chain[i].layer : i \in DOMAIN chain}
           n == Len(chain)
<1>1. chain \in Seq(Range(chain)) /\ n \in Nat /\ n # 0 /\ DOMAIN chain = 1..n
  <2>1. chain \in Seq(Range(chain))
    BY DEF ChainInv, IsChain
  <2> QED
    BY <2>1
<1>2. \A l \in L : IsLayer(l)
  BY DEF LayersInv
<1>3. UserChain = [i \in 1..n |-> chain[(n - i) + 1].layer]
  <2> DEFINE r == [i \in 1..n |-> chain[(n - i) + 1]]
  <2>1. Reverse(chain) = r
    BY DEF Reverse
  <2>2. UserChain = [i \in DOMAIN Reverse(chain) |-> Reverse(chain)[i].layer]
    BY DEF UserChain, With
  <2>3. DOMAIN r = 1..n
    OBVIOUS
  <2> QED
    BY <2>1, <2>2, <2>3
<1>4. \A i \in 1..n : chain[(n - i) + 1].layer \in L
  <2>1. \A i \in 1..n : (n - i) + 1 \in DOMAIN chain
    BY <1>1
  <2> QED
    BY <2>1
<1> HIDE DEF L, n
<1>5. UserChain \in Seq(L)
  BY <1>1, <1>3, <1>4
<1>6. Len(UserChain) = n
  BY <1>1, <1>3
<1>7. UserChain[1] \in L /\ Tail(UserChain) \in Seq(L)
  BY <1>1, <1>5, <1>6
<1>8. UserMerged = FoldChain(UserChain[1], Tail(UserChain))
  BY DEF UserMerged, With
<1>9. IsLayer(UserMerged)
  BY <1>2, <1>7, <1>8, FoldedLayer
<1> QED
  BY <1>2, <1>5, <1>9

-----------------------------------------------------------------------------
(* What is lowered *)

(* A file named at its place, and nothing else's place over or below it. *)
Holds(placed, s) ==
  /\ s.final \in DOMAIN placed /\ placed[s.final] = s.local
  /\ \A f \in DOMAIN placed : Overlaps(f, s.final) => f = s.final

(* Overlapping paths.                                                        *)
LEMMA OverlapsItself ==
  ASSUME NEW p, IsList(p)
  PROVE  Overlaps(p, p)
<1>1. p \in Seq(Range(p)) /\ Len(p) <= Len(p) /\ SubSeq(p, 1, Len(p)) = p
  BY DEF IsList
<1> QED
  BY <1>1 DEF Overlaps, IsPrefix

LEMMA OverlapsBoth ==
  ASSUME NEW p, NEW q, Overlaps(p, q)
  PROVE  Overlaps(q, p)
BY DEF Overlaps

(* What is lowered is held, what was held stays so, and there is no other. *)
LEMMA Lowered ==
  ASSUME NEW t, Shaped(t), NEW host, NEW F, NEW r, r = AddLoweredFiles(t, host, F), r # Refused
  PROVE  LET x == r[1] IN
         /\ Same(x, t, {"files"})
         /\ \A g \in F : IsList(g.final) => Holds(x.system.files, g)
         /\ \A s : IsList(s.final) /\ Holds(t.system.files, s) => Holds(x.system.files, s)
         /\ \A f \in DOMAIN x.system.files :
               \/ f \in DOMAIN t.system.files /\ x.system.files[f] = t.system.files[f]
               \/ \E g \in F : f = g.final /\ g.local \in DOMAIN host /\ x.system.files[f] = g.local
<1> DEFINE old == t.system.files
           fresh == [p \in {g.final : g \in F} |-> (CHOOSE g \in F : g.final = p).local]
           new == Over(old, fresh)
           x == [t EXCEPT !.system.files = new]
<1>1. /\ r = <<x>>
      /\ \A g \in F :
             /\ g.local \in DOMAIN host
             /\ \A p \in DOMAIN old : Overlaps(p, g.final) => p = g.final /\ old[p] = g.local
             /\ \A h \in F : Overlaps(h.final, g.final) => h = g
  BY DEF AddLoweredFiles, Check, Accept
<1>2. Same(x, t, {"files"}) /\ x.system.files = new
  <2> HIDE DEF new
  <2> QED
    BY FilesPut
<1>3. /\ DOMAIN fresh = {g.final : g \in F}
      /\ \A p \in DOMAIN fresh : \E g \in F : p = g.final /\ fresh[p] = g.local
  OBVIOUS
<1>4. DOMAIN new = DOMAIN old \cup DOMAIN fresh
      /\ \A p \in DOMAIN new : new[p] = IF p \in DOMAIN fresh THEN fresh[p] ELSE old[p]
  BY DEF Over
<1> HIDE DEF old, fresh, new
<1>5. ASSUME NEW g \in F, IsList(g.final) PROVE Holds(new, g)
  <2>1. g.final \in DOMAIN fresh /\ Overlaps(g.final, g.final)
    BY <1>3, <1>5, OverlapsItself
  <2>2. fresh[g.final] = g.local
    BY <1>1, <1>3, <2>1
  <2>3. ASSUME NEW f \in DOMAIN new, Overlaps(f, g.final) PROVE f = g.final
    <3>1. CASE f \in DOMAIN old
      BY <1>1, <2>3, <3>1
    <3>2. CASE f \in DOMAIN fresh
      BY <1>1, <1>3, <2>3, <3>2
    <3> QED
      BY <1>4, <3>1, <3>2
  <2> QED
    BY <1>4, <2>1, <2>2, <2>3 DEF Holds
<1>6. ASSUME NEW s, IsList(s.final), Holds(old, s) PROVE Holds(new, s)
  <2>1. s.final \in DOMAIN old /\ old[s.final] = s.local /\ s.final \in DOMAIN new
    BY <1>4, <1>6 DEF Holds
  <2>2. new[s.final] = s.local
    <3>1. CASE s.final \in DOMAIN fresh
      <4>1. PICK g \in F : s.final = g.final /\ fresh[s.final] = g.local
        BY <1>3, <3>1
      <4>2. old[s.final] = g.local
        BY <1>1, <1>6, <2>1, <4>1, OverlapsItself
      <4> QED
        BY <1>4, <2>1, <3>1, <4>1, <4>2
    <3>2. CASE s.final \notin DOMAIN fresh
      BY <1>4, <2>1, <3>2
    <3> QED
      BY <3>1, <3>2
  <2>3. ASSUME NEW f \in DOMAIN new, Overlaps(f, s.final) PROVE f = s.final
    <3>1. CASE f \in DOMAIN old
      BY <1>6, <2>3, <3>1 DEF Holds
    <3>2. CASE f \in DOMAIN fresh
      <4>1. PICK g \in F : f = g.final
        BY <1>3, <3>2
      <4> QED
        BY <1>1, <2>1, <2>3, <4>1, OverlapsBoth
    <3> QED
      BY <1>4, <3>1, <3>2
  <2> QED
    BY <2>1, <2>2, <2>3 DEF Holds
<1>7. \A f \in DOMAIN new :
         \/ f \in DOMAIN old /\ new[f] = old[f]
         \/ \E g \in F : f = g.final /\ g.local \in DOMAIN host /\ new[f] = g.local
  BY <1>1, <1>3, <1>4
<1>8. r[1] = x
  BY <1>1
<1> HIDE DEF x
<1> QED
  BY <1>2, <1>5, <1>6, <1>7, <1>8 DEF old

(* The keys of files change the users alone. *)
LEMMA KeysAdded ==
  ASSUME NEW t, Shaped(t), NEW host, NEW r, r = LowerSSHKeyFiles(t, host), r # Refused
  PROVE  Same(r[1], t, {"users"})
<1>1. PICK v : r = <<[t EXCEPT !.system.users = v]>>
  BY DEF LowerSSHKeyFiles, AddKeys, Accept
<1>2. r[1] = [t EXCEPT !.system.users = v]
  BY <1>1
<1>3. "users" \in DOMAIN NoSystem
  BY DEF NoSystem
<1> QED
  BY <1>2, <1>3, SystemPut

(* What is the same but for some fields, twice over.                         *)
LEMMA SameTwice ==
  ASSUME NEW x, NEW y, NEW t, NEW K, NEW L, NEW M, Same(x, y, K), Same(y, t, L), K \subseteq M, L \subseteq M
  PROVE  Same(x, t, M)
BY DEF Same

Lowering == {"files", "packages", "users"}

LEMMA SameSeen ==
  ASSUME NEW x, NEW t, NEW K, Same(x, t, K), K \subseteq Lowering
  PROVE  /\ Shaped(x) /\ x.repos = t.repos /\ x.system.scripts = t.system.scripts
         /\ x.system.immutability = t.system.immutability /\ x.system.aptPolicy = t.system.aptPolicy
         /\ IsOverlayMode(x) = IsOverlayMode(t)
         /\ CheckAptPolicyOrigins(x) = CheckAptPolicyOrigins(t)
<1>1. /\ x.repos = t.repos /\ x.baseline = t.baseline /\ x.target = t.target
      /\ x.system.scripts = t.system.scripts
      /\ x.system.immutability = t.system.immutability /\ x.system.aptPolicy = t.system.aptPolicy
  BY SameFields DEF Lowering
<1>2. IsOverlayMode(x) = IsOverlayMode(t)
  BY <1>1 DEF IsOverlayMode
<1>3. \A r : RepoUpgradeAllowed(x, r) = RepoUpgradeAllowed(t, r)
  BY <1>1 DEF RepoUpgradeAllowed
<1>4. CheckAptPolicyOrigins(x) = CheckAptPolicyOrigins(t)
  BY <1>1, <1>3 DEF CheckAptPolicyOrigins
<1> QED
  BY <1>1, <1>2, <1>4 DEF Same

(* A layer with files, packages and users changed is one.                    *)
LEMMA SameLayer ==
  ASSUME NEW x, NEW t, NEW K, Same(x, t, K), K \subseteq Lowering, IsLayer(t),
         \A f \in DOMAIN x.system.files : IsHostFile(x.system.files[f])
  PROVE  IsLayer(x)
BY SameSeen DEF IsLayer, IsTemplate, Shaped

(* Every script is where it says. *)
Kept(t) == \A s \in Range(t.system.scripts) : IsList(s.final) /\ Holds(t.system.files, s)

HostFiles(t) == \A f \in DOMAIN t.system.files : IsHostFile(t.system.files[f])

(* The lowering of cloud-init keeps the scripts' files,                      *)
LEMMA CloudInitLowered ==
  ASSUME NEW t, Shaped(t), NEW host, \A f \in DOMAIN host : IsHostFile(f), HostFiles(t),
         NEW r, r = LowerCloudInit(t, host), r # Refused
  PROVE  LET x == r[1] IN
         /\ Same(x, t, Lowering) /\ HostFiles(x)
         /\ Kept(t) => Kept(x)
<1> DEFINE x == r[1]
<1>1. CASE r = Accept(t)
  <2>1. x = t
    BY <1>1 DEF Accept
  <2> HIDE DEF x
  <2>2. Same(x, t, Lowering)
    BY <2>1 DEF Same
  <2> QED
    BY <2>1, <2>2 DEF x
<1>2. ASSUME NEW v, NEW F, r = AddLoweredFiles([t EXCEPT !.system.packages = v], host, F)
      PROVE  /\ Same(x, t, Lowering) /\ HostFiles(x)
             /\ Kept(t) => Kept(x)
  <2> DEFINE y == [t EXCEPT !.system.packages = v]
  <2>1. "packages" \in DOMAIN NoSystem /\ "files" \in DOMAIN NoSystem
    BY DEF NoSystem
  <2>2. Same(y, t, {"packages"})
    BY <2>1, SystemPut
  <2>3. r = AddLoweredFiles(y, host, F)
    BY <1>2
  <2> HIDE DEF y
  <2>4. y.system.files = t.system.files /\ y.system.scripts = t.system.scripts /\ Shaped(y)
    BY <2>2, SameFields DEF Same, NoSystem
  <2>5. /\ Same(x, y, {"files"})
        /\ \A s : IsList(s.final) /\ Holds(y.system.files, s) => Holds(x.system.files, s)
        /\ \A f \in DOMAIN x.system.files :
               \/ f \in DOMAIN y.system.files /\ x.system.files[f] = y.system.files[f]
               \/ \E g \in F : f = g.final /\ g.local \in DOMAIN host /\ x.system.files[f] = g.local
    BY <2>3, <2>4, Lowered
  <2> HIDE DEF x
  <2>6. Same(x, t, Lowering)
    BY <2>2, <2>5, SameTwice DEF Lowering
  <2>7. HostFiles(x)
    BY <2>4, <2>5 DEF HostFiles
  <2>8. x.system.scripts = t.system.scripts
    BY <2>6, SameSeen
  <2>9. Kept(t) => Kept(x)
    BY <2>4, <2>5, <2>8 DEF Kept
  <2> QED
    BY <2>6, <2>7, <2>9
<1>3. r = Accept(t) \/ \E v, F : r = AddLoweredFiles([t EXCEPT !.system.packages = v], host, F)
  BY DEF LowerCloudInit
<1> QED
  BY <1>1, <1>2, <1>3

(* that of the scripts puts them there,                                      *)
LEMMA ScriptsLowered ==
  ASSUME NEW t, IsLayer(t), NEW host, \A f \in DOMAIN host : IsHostFile(f),
         NEW r, r = LowerScripts(t, host), r # Refused
  PROVE  LET x == r[1] IN Same(x, t, Lowering) /\ HostFiles(x) /\ Kept(x)
<1> DEFINE F == {[local |-> s.local, final |-> s.final] : s \in Range(t.system.scripts)}
           x == r[1]
<1>1. Shaped(t) /\ HostFiles(t) /\ \A s \in Range(t.system.scripts) : IsList(s.final)
  BY DEF IsLayer, IsTemplate, Shaped, HostFiles
<1>2. r = AddLoweredFiles(t, host, F)
  BY DEF LowerScripts
<1>3. \A s \in Range(t.system.scripts) : \E g \in F : g.local = s.local /\ g.final = s.final
  <2>1. ASSUME NEW s \in Range(t.system.scripts)
        PROVE  LET g == [local |-> s.local, final |-> s.final] IN g \in F /\ g.local = s.local /\ g.final = s.final
    OBVIOUS
  <2> QED
    BY <2>1
<1> HIDE DEF F
<1>4. /\ Same(x, t, {"files"})
      /\ \A g \in F : IsList(g.final) => Holds(x.system.files, g)
      /\ \A f \in DOMAIN x.system.files :
               \/ f \in DOMAIN t.system.files /\ x.system.files[f] = t.system.files[f]
               \/ \E g \in F : f = g.final /\ g.local \in DOMAIN host /\ x.system.files[f] = g.local
  BY <1>1, <1>2, Lowered
<1> HIDE DEF x
<1>5. Same(x, t, Lowering)
  BY <1>4 DEF Same, Lowering
<1>6. HostFiles(x)
  BY <1>1, <1>4 DEF HostFiles
<1>7. x.system.scripts = t.system.scripts
  BY <1>5, SameSeen
<1>8. ASSUME NEW s \in Range(t.system.scripts) PROVE Holds(x.system.files, s)
  <2>1. PICK g \in F : g.local = s.local /\ g.final = s.final
    BY <1>3
  <2>2. Holds(x.system.files, g)
    BY <1>1, <1>4, <2>1
  <2> QED
    BY <2>1, <2>2 DEF Holds
<1>9. Kept(x)
  BY <1>1, <1>7, <1>8 DEF Kept
<1> QED
  BY <1>5, <1>6, <1>9 DEF x

(* What a merged template is that was not refused. *)
Merged(t) ==
  /\ IsLayer(t)
  /\ IF IsOverlayMode(t)
     THEN ~t.system.immutability.enabled /\ t.system.aptPolicy = <<>>
     ELSE /\ Kept(t) /\ RebootAfterIsLast(t.system.scripts)
          /\ ValidateAdditionalFilesNotGenerated(t) /\ CheckAptPolicyOrigins(t)

(* An overlay neither is immutable nor has a policy for apt.                 *)
LEMMA OverlayIsPlain ==
  ASSUME NEW t, ValidateBaseline(t), IsOverlayMode(t)
  PROVE  ~t.system.immutability.enabled /\ t.system.aptPolicy = <<>>
<1>1. ~UnsupportedInOverlay(t.system)
  BY DEF ValidateBaseline
<1>2. t.system.immutability = NoImmutability /\ t.system.aptPolicy = <<>>
  BY <1>1 DEF UnsupportedInOverlay
<1>3. ~NoImmutability.enabled
  BY DEF NoImmutability
<1> QED
  BY <1>2, <1>3

(* and so all is lowered.                                                    *)
LEMMA ProvisioningLowered ==
  ASSUME NEW t, IsLayer(t), NEW host, \A f \in DOMAIN host : IsHostFile(f),
         NEW r, r = LowerProvisioningInputs(t, host), r # Refused
  PROVE  LET x == r[1] IN Same(x, t, Lowering) /\ HostFiles(x) /\ Kept(x)
<1> DEFINE a == LowerSSHKeyFiles(t, host)
           b == LowerScripts(a[1], host)
           x == r[1]
<1>1. a # Refused /\ b # Refused /\ r = LowerCloudInit(b[1], host)
  BY DEF LowerProvisioningInputs, Then, With
<1>2. Shaped(t) /\ HostFiles(t)
  BY DEF IsLayer, IsTemplate, Shaped, HostFiles
<1>3. Same(a[1], t, {"users"})
  BY <1>1, <1>2, KeysAdded
<1> HIDE DEF a
<1>4. Same(a[1], t, Lowering) /\ a[1].system.files = t.system.files
  BY <1>3 DEF Same, Lowering, NoSystem
<1>5. IsLayer(a[1])
  BY <1>2, <1>4, SameLayer DEF HostFiles
<1>6. Same(b[1], a[1], Lowering) /\ HostFiles(b[1]) /\ Kept(b[1])
  BY <1>1, <1>5, ScriptsLowered
<1> HIDE DEF b
<1>7. Same(x, b[1], Lowering) /\ HostFiles(x) /\ Kept(x)
  <2>1. Shaped(b[1])
    BY <1>6 DEF Same
  <2> QED
    BY <1>1, <1>6, <2>1, CloudInitLowered
<1> HIDE DEF x
<1>8. Same(x, t, Lowering)
  BY <1>4, <1>6, <1>7, SameTwice
<1> QED
  BY <1>7, <1>8 DEF x

(* A template checked and lowered is a merged one,                           *)
LEMMA Finalized ==
  ASSUME NEW t, IsLayer(t), ValidateBaseline(t), NEW host, \A f \in DOMAIN host : IsHostFile(f),
         NEW r, r = FinalizeProvisioning(t, host), r # Refused
  PROVE  Merged(r[1])
<1> DEFINE a == LowerProvisioningInputs(t, host)
           x == a[1]
<1>1. /\ ValidateMergedProvisioning(t) /\ a # Refused /\ r = Check(x, ValidateAdditionalFilesNotGenerated(x))
  BY DEF FinalizeProvisioning, Then, With
<1>2. r[1] = x /\ ValidateAdditionalFilesNotGenerated(x)
  BY <1>1 DEF Check, Accept, Refused
<1>3. Same(x, t, Lowering) /\ HostFiles(x) /\ Kept(x)
  BY <1>1, ProvisioningLowered
<1> HIDE DEF x, a
<1>4. IsLayer(x)
  BY <1>3, SameLayer DEF HostFiles
<1>5. /\ x.system.scripts = t.system.scripts
      /\ x.system.immutability = t.system.immutability /\ x.system.aptPolicy = t.system.aptPolicy
      /\ IsOverlayMode(x) = IsOverlayMode(t)
      /\ CheckAptPolicyOrigins(x) = CheckAptPolicyOrigins(t)
  BY <1>3, SameSeen
<1>6. RebootAfterIsLast(t.system.scripts) /\ CheckAptPolicyOrigins(t)
  BY <1>1 DEF ValidateMergedProvisioning
<1>7. IsOverlayMode(t) => ~t.system.immutability.enabled /\ t.system.aptPolicy = <<>>
  BY OverlayIsPlain
<1> QED
  BY <1>2, <1>3, <1>4, <1>5, <1>6, <1>7 DEF Merged

(* an overlay too,                                                           *)
LEMMA OverlayLoaded ==
  ASSUME NEW t, IsLayer(t), IsOverlayMode(t), NEW r, r = LoadOverlay(t), r # Refused
  PROVE  Merged(r[1])
<1>1. ValidateBaseline(t) /\ r = LowerSSHKeyFiles(t, world.host)
  BY DEF LoadOverlay
<1>2. Shaped(t) /\ HostFiles(t)
  BY DEF IsLayer, IsTemplate, Shaped, HostFiles
<1>3. Same(r[1], t, {"users"})
  BY <1>1, <1>2, KeysAdded
<1>4. Same(r[1], t, Lowering) /\ r[1].system.files = t.system.files
  BY <1>3 DEF Same, Lowering, NoSystem
<1>5. IsLayer(r[1])
  BY <1>2, <1>4, SameLayer DEF HostFiles
<1>6. /\ r[1].system.immutability = t.system.immutability /\ r[1].system.aptPolicy = t.system.aptPolicy
      /\ IsOverlayMode(r[1]) = IsOverlayMode(t)
  BY <1>4, SameSeen
<1>7. ~t.system.immutability.enabled /\ t.system.aptPolicy = <<>>
  BY <1>1, OverlayIsPlain
<1> QED
  BY <1>5, <1>6, <1>7 DEF Merged

LEMMA Extended ==
  ASSUME NEW t, IsLayer(t), NEW v
  PROVE  IsLayer([t EXCEPT !.extends = v])
BY DEF IsLayer, IsTemplate, NoTemplate

(* and whatever is loaded.                                                   *)
LEMMA TemplateLoaded ==
  ASSUME ChainInv, LayersInv, LoadAndMergeTemplate
  PROVE  template' # <<>> => Merged(template'[1])
<1> DEFINE user == [UserMerged EXCEPT !.extends = <<>>]
           base == FoldChain(world.default[1], UserChain)
           over == IF world.default = <<>> THEN user ELSE base
<1>1. /\ pc = "load" /\ chain # <<>>
      /\ template' = IF IsOverlayMode(user) THEN LoadOverlay(user) ELSE LoadFinal(over)
  BY DEF LoadAndMergeTemplate, With
<1>2. IsLayer(user)
  <2>1. IsLayer(UserMerged)
    BY <1>1, UserLayers
  <2> QED
    BY <2>1, Extended
<1>3. world \in Worlds
  BY DEF ChainInv, FilesInv
<1>4. world.default # <<>> => IsLayer(base)
  <2>1. PICK L : (\A l \in L : IsLayer(l)) /\ UserChain \in Seq(L)
    BY <1>1, UserLayers
  <2>2. world.default # <<>> => IsLayer(world.default[1])
    BY <1>3, LayersAssumption
  <2> QED
    BY <2>1, <2>2, FoldedLayer
<1>5. \A f \in DOMAIN world.host : IsHostFile(f)
  BY <1>3, LayersAssumption
<1>6. IsLayer(over)
  <2> HIDE DEF user, base
  <2> QED
    BY <1>2, <1>4
<1> HIDE DEF user, over
<1> SUFFICES ASSUME template' # <<>> PROVE Merged(template'[1])
  OBVIOUS
<1>7. CASE IsOverlayMode(user)
  BY <1>1, <1>2, <1>7, OverlayLoaded DEF Refused
<1>8. CASE ~IsOverlayMode(user)
  <2>1. ValidateBaseline(over) /\ template' = FinalizeProvisioning(over, world.host)
    BY <1>1, <1>8 DEF LoadFinal, Refused
  <2> QED
    BY <1>5, <1>6, <2>1, Finalized DEF Refused
<1> QED
  BY <1>7, <1>8

-----------------------------------------------------------------------------
(* The layers a selection makes *)

(* Elements sifted out of a list are its elements,                           *)
LEMMA Sifted ==
  ASSUME NEW S, NEW s, Len(s) \in Nat, NEW I, \A i \in 1..Len(s) : i \in I => s[i] \in S
  PROVE  Sift(s, I) \in Seq(S)
<1> DEFINE n == Len(s)
           W == Seq(S)
           Is(f) == f = [i \in 0..n |-> IF i = 0 THEN <<>>
                                        ELSE IF i \in I THEN Append(f[i - 1], s[i]) ELSE f[i - 1]]
<1>1. n \in Nat /\ \A i \in 1..n : i \in I => s[i] \in S
  OBVIOUS
<1>2. \A l \in W, i \in 1..n : i \in I => Append(l, s[i]) \in W
  BY <1>1
<1>3. Sift(s, I) = (CHOOSE f : Is(f))[n]
  BY DEF Sift
<1>4. <<>> \in W
  OBVIOUS
<1> HIDE DEF W
<1>5. \E f : Is(f)
  <2> DEFINE G == [i \in 1..n |-> [l \in W |-> IF i \in I THEN Append(l, s[i]) ELSE l]]
  <2>1. G \in [1..n -> [W -> W]]
    BY <1>1, <1>2
  <2> HIDE DEF G, n
  <2>2. PICK f : Computes(f, W, <<>>, n, G)
    BY <1>1, <1>4, <2>1, Recursion
  <2>3. ASSUME NEW i \in 1..n PROVE f[i] = IF i \in I THEN Append(f[i - 1], s[i]) ELSE f[i - 1]
    <3>1. f[i - 1] \in W
      BY <1>1, <2>2 DEF Computes
    <3> QED
      BY <2>2, <3>1 DEF Computes, G
  <2>4. f[0] = <<>>
    BY <2>2 DEF Computes
  <2>5. \A i \in 0..n : f[i] = IF i = 0 THEN <<>>
                               ELSE IF i \in I THEN Append(f[i - 1], s[i]) ELSE f[i - 1]
    BY <1>1, <2>3, <2>4
  <2>6. Is(f)
    BY <2>2, <2>5 DEF Computes
  <2> QED
    BY <2>6
<1> DEFINE f == CHOOSE g : Is(g)
<1>6. Is(f)
  BY <1>5
<1> HIDE DEF f, n
<1>7. f[0] \in W
  BY <1>1, <1>4, <1>6
<1>8. ASSUME NEW i \in 1..n, f[i - 1] \in W PROVE f[i] \in W
  <2>1. i \in 0..n /\ i # 0
    BY <1>1
  <2>2. f[i] = IF i \in I THEN Append(f[i - 1], s[i]) ELSE f[i - 1]
    BY <1>6, <2>1
  <2> QED
    BY <1>2, <1>8, <2>2
<1>9. f[n] \in W
  BY <1>1, <1>7, <1>8, Stays
<1> QED
  BY <1>3, <1>9 DEF f, W

(* one inserted leaves it a list,                                            *)
LEMMA Inserted ==
  ASSUME NEW S, NEW s \in Seq(S), NEW x \in S, NEW I, I \subseteq DOMAIN s
  PROVE  SubSeq(s, 1, Cardinality(I)) \o <<x>> \o SubSeq(s, Cardinality(I) + 1, Len(s)) \in Seq(S)
<1> DEFINE k == Cardinality(I)
           n == Len(s)
<1>1. n \in Nat /\ DOMAIN s = 1..n /\ \A i \in 1..n : s[i] \in S
  OBVIOUS
<1>2. IsFiniteSet(1..n) /\ Cardinality(1..n) = n
  BY <1>1, FS_Interval
<1>3. k \in Nat /\ k <= n
  BY <1>1, <1>2, FS_Subset, FS_CardinalityType
<1> HIDE DEF k, n
<1>4. SubSeq(s, 1, k) \in Seq(S) /\ SubSeq(s, k + 1, n) \in Seq(S)
  <2>1. 1 \in Int /\ k \in Int /\ k + 1 \in Int /\ n \in Int
        /\ (\A i \in 1..k : s[i] \in S) /\ (\A i \in (k + 1)..n : s[i] \in S)
    BY <1>1, <1>3
  <2> QED
    BY <2>1, SubSeqProperties
<1>5. <<x>> \in Seq(S)
  OBVIOUS
<1> DEFINE a == SubSeq(s, 1, k)
           b == SubSeq(s, k + 1, n)
<1>6. a \in Seq(S) /\ b \in Seq(S)
  BY <1>4
<1> HIDE DEF a, b
<1>7. a \o <<x>> \o b \in Seq(S)
  BY <1>5, <1>6
<1> QED
  BY <1>7 DEF a, b, k, n

(* and so what is offered is of the catalogue.                               *)
LEMMA Offered ==
  ASSUME NEW S, NEW catalogue \in Seq(S), NEW os
  PROVE  PackageRepos(catalogue, os) \in Seq(S)
<1> DEFINE rank(r) == IF r.priority = 0 THEN DefaultRepoPriority ELSE r.priority
           s == Sift(catalogue, {i \in DOMAIN catalogue : AppliesTo(catalogue[i], os)})
           n == Len(s)
           W == Seq(S)
           place(acc, x) == SubSeq(acc, 1, Cardinality({i \in DOMAIN acc : ~(rank(x) > rank(acc[i]))}))
                            \o <<x>>
                            \o SubSeq(acc, Cardinality({i \in DOMAIN acc : ~(rank(x) > rank(acc[i]))}) + 1, Len(acc))
           Is(f) == f = [i \in 0..n |-> IF i = 0 THEN <<>> ELSE With(f[i - 1], LAMBDA acc : place(acc, s[i]))]
<1>0. s \in Seq(S)
  <2>1. Len(catalogue) \in Nat /\ \A i \in 1..Len(catalogue) : catalogue[i] \in S
    OBVIOUS
  <2> QED
    BY <2>1, Sifted
<1>3. PackageRepos(catalogue, os) = (CHOOSE f : Is(f))[n]
  <2> DEFINE over(q) == (CHOOSE f : f = [i \in 0..Len(q) |->
                 IF i = 0 THEN <<>> ELSE With(f[i - 1], LAMBDA acc : place(acc, q[i]))])[Len(q)]
  <2>1. PackageRepos(catalogue, os) = With(s, LAMBDA q : over(q))
    BY DEF PackageRepos, StableSort, Insert, Fold
  <2>2. With(s, LAMBDA q : over(q)) = over(s)
    <3> HIDE DEF over, s
    <3> QED
      BY DEF With
  <2> QED
    BY <2>1, <2>2
<1> HIDE DEF s
<1>1. n \in Nat /\ \A i \in 1..n : s[i] \in S
  BY <1>0
<1>2. ASSUME NEW l \in W, NEW x \in S PROVE place(l, x) \in W
  BY Inserted
<1>4. <<>> \in W
  OBVIOUS
<1> HIDE DEF place, W
<1>W. \A l \in W, x \in S : place(l, x) \in W
  BY <1>2
<1>5. \E f : Is(f)
  <2> DEFINE G == [i \in 1..n |-> [l \in W |-> place(l, s[i])]]
  <2>1. G \in [1..n -> [W -> W]]
    BY <1>1, <1>W
  <2> HIDE DEF G, n
  <2>3. PICK f : Computes(f, W, <<>>, n, G)
    BY <1>1, <1>4, <2>1, Recursion
  <2>4. ASSUME NEW i \in 1..n PROVE f[i] = place(f[i - 1], s[i])
    <3>1. f[i - 1] \in W
      BY <1>1, <2>3 DEF Computes
    <3> QED
      BY <2>3, <3>1 DEF Computes, G
  <2>5. \A i \in 0..n : f[i] = IF i = 0 THEN <<>> ELSE With(f[i - 1], LAMBDA acc : place(acc, s[i]))
    <3>1. f[0] = <<>>
      BY <2>3 DEF Computes
    <3>2. \A i \in 0..n : f[i] = IF i = 0 THEN <<>> ELSE place(f[i - 1], s[i])
      BY <1>1, <2>4, <3>1
    <3> QED
      BY <3>2 DEF With
  <2>6. Is(f)
    BY <2>3, <2>5 DEF Computes
  <2> QED
    BY <2>6
<1> DEFINE f == CHOOSE g : Is(g)
<1>6. Is(f)
  BY <1>5
<1> HIDE DEF f, n
<1>7. f[0] \in W
  BY <1>1, <1>4, <1>6
<1>8. ASSUME NEW i \in 1..n, f[i - 1] \in W PROVE f[i] \in W
  <2>1. i \in 0..n /\ i # 0
    BY <1>1
  <2>2. f[i] = place(f[i - 1], s[i])
    BY <1>6, <2>1 DEF With
  <2> QED
    BY <1>1, <1>8, <1>W, <2>2
<1>9. f[n] \in W
  BY <1>1, <1>7, <1>8, Stays
<1> QED
  BY <1>3, <1>9 DEF f, W

(* What the catalogue has to offer is as the world has it. *)
IsOffer(r) ==
  r.index # <<>> => /\ "00-ict-apt-policy" \notin {r.id, r.index[1].codename}
                    /\ r.index[1].url # <<>> => r.index[1].url[1] # ""
                    /\ r.priority \in Int

(* The repositories chosen are a layer's, and the delta is a layer.          *)
LEMMA ChosenRepos ==
  ASSUME NEW catalogue, IsList(catalogue), \A r \in Range(catalogue) : IsOffer(r), NEW os, NEW ids
  PROVE  LET repos == ToTemplateRepos(catalogue, os, ids) IN
         IsList(repos) /\ \A r \in Range(repos) : IsRepository(r) /\ ~HasOwnFiles(r)
<1> DEFINE wanted(r) == /\ r.id \in ids /\ ~r.default /\ r.index # <<>>
                        /\ r.type = "rpm" \/ r.index[1].codename # ""
           S == Range(catalogue)
           T == {r \in S : r.index # <<>>}
           offered == PackageRepos(catalogue, os)
           chosen == Sift(offered, {i \in DOMAIN offered : wanted(offered[i])})
           repos == [i \in DOMAIN chosen |-> TemplateRepo(chosen[i])]
           R == {TemplateRepo(r) : r \in T}
<1>1. offered \in Seq(S)
  BY Offered DEF IsList
<1>2. chosen \in Seq(T)
  <2> HIDE DEF offered
  <2>1. Len(offered) \in Nat /\ DOMAIN offered = 1..Len(offered) /\ \A i \in 1..Len(offered) : offered[i] \in S
    BY <1>1
  <2>2. \A i \in 1..Len(offered) : i \in {j \in DOMAIN offered : wanted(offered[j])} => offered[i] \in T
    BY <2>1
  <2> QED
    BY <2>1, <2>2, Sifted
<1>3. ToTemplateRepos(catalogue, os, ids) = repos
  BY DEF ToTemplateRepos
<1> HIDE DEF chosen
<1>4. repos \in Seq(R)
  <2>1. Len(chosen) \in Nat /\ DOMAIN chosen = 1..Len(chosen) /\ \A i \in 1..Len(chosen) : chosen[i] \in T
    BY <1>2
  <2>2. \A i \in 1..Len(chosen) : TemplateRepo(chosen[i]) \in R
    BY <2>1
  <2> HIDE DEF R
  <2> QED
    BY <2>1, <2>2
<1>5. ASSUME NEW r \in T PROVE IsRepository(TemplateRepo(r)) /\ ~HasOwnFiles(TemplateRepo(r))
  <2>1. IsOffer(r) /\ r.index # <<>>
    OBVIOUS
  <2> DEFINE x == TemplateRepo(r)
  <2>2. /\ DOMAIN x = DOMAIN NoRepository /\ x.own = <<>>
        /\ x.codename \in {r.id, r.index[1].codename} /\ x.url = r.index[1].url
        /\ x.priority \in {0, r.priority}
    BY DEF TemplateRepo, NoRepository
  <2> HIDE DEF x
  <2>3. x.codename # "00-ict-apt-policy"
    BY <2>1, <2>2 DEF IsOffer
  <2>4. x.url # <<>> => x.url[1] # ""
    BY <2>1, <2>2 DEF IsOffer
  <2>5. x.priority \in Int
    <3>1. r.priority \in Int
      BY <2>1 DEF IsOffer
    <3>2. x.priority \in {0, r.priority}
      BY <2>2
    <3> HIDE DEF T
    <3> QED
      BY <3>1, <3>2
  <2>6. IsRepository(x) /\ ~HasOwnFiles(x)
    BY <2>2, <2>3, <2>4, <2>5 DEF IsRepository, HasOwnFiles
  <2> QED
    BY <2>6 DEF x
<1>6. \A r \in R : IsRepository(r) /\ ~HasOwnFiles(r)
  BY <1>5
<1> HIDE DEF repos, R
<1>7. IsList(repos) /\ Range(repos) \subseteq R
  BY <1>4, ListIn DEF Range
<1> QED
  BY <1>3, <1>6, <1>7

LEMMA DeltaIsLayer ==
  ASSUME NEW path, NEW parent, NEW sel, NEW catalogue, IsList(catalogue),
         \A r \in Range(catalogue) : IsOffer(r), NEW os, NEW edgePack
  PROVE  IsLayer(BuildDelta(path, parent, sel, catalogue, os, edgePack))
<1> DEFINE x == BuildDelta(path, parent, sel, catalogue, os, edgePack)
<1>1. /\ DOMAIN x = DOMAIN NoTemplate /\ DOMAIN x.system = DOMAIN NoSystem
      /\ x.system.scripts = <<>> /\ x.system.files = <<>>
      /\ x.repos = ToTemplateRepos(catalogue, os, sel.repos)
  <2> DEFINE given == [NoSystem EXCEPT
                 !.packages = sel.packages, !.users = DeltaUsers(sel),
                 !.dkms = IF SelectsEdgePack(sel.packages, edgePack)
                          THEN [NoDkms EXCEPT !.provided = TRUE, !.enabled = TRUE] ELSE NoDkms]
  <2>1. x.system = given
    BY DEF BuildDelta, NoTemplate
  <2>2. DOMAIN given = DOMAIN NoSystem /\ given.scripts = <<>> /\ given.files = <<>>
    BY DEF NoSystem
  <2>3. DOMAIN x = DOMAIN NoTemplate /\ x.repos = ToTemplateRepos(catalogue, os, sel.repos)
    BY DEF BuildDelta, NoTemplate
  <2> QED
    BY <2>1, <2>2, <2>3
<1> HIDE DEF x
<1>2. IsList(x.repos) /\ \A r \in Range(x.repos) : IsRepository(r) /\ ~HasOwnFiles(r)
  BY <1>1, ChosenRepos
<1>3. DOMAIN (x.system.scripts) = {} /\ x.system.scripts \in Seq({}) /\ DOMAIN (x.system.files) = {}
  BY <1>1
<1>4. IsList(x.system.scripts) /\ Range(x.system.scripts) = {}
  BY <1>3, ListIn DEF Range
<1>5. IsTemplate(x)
  BY <1>1, <1>2, <1>3, <1>4 DEF IsTemplate
<1> QED
  BY <1>2, <1>5 DEF IsLayer, x

(* The layers stay what they are. *)
LEMMA WorldLayers ==
  ASSUME ChainInv
  PROVE  /\ \A p \in DOMAIN world.files : IsLayer(world.files[p])
         /\ IsList(world.catalogue) /\ \A r \in Range(world.catalogue) : IsOffer(r)
BY LayersAssumption DEF ChainInv, FilesInv, IsOffer

(* Each step of the way leaves the layers layers.                            *)
LEMMA LayersSeen ==
  ASSUME ChainInv, LayersInv, UNCHANGED world, files' \in {files, world.files}, UNCHANGED chain
  PROVE  LayersInv'
BY WorldLayers DEF LayersInv

LEMMA LayersLoaded ==
  ASSUME LayersInv, UNCHANGED files, NEW path, NEW for, Load(path, for)
  PROVE  LayersInv'
<1>1. chain' = IF Loadable(path) THEN <<LoadTemplate(path)>> ELSE <<>>
  BY DEF Load
<1>2. CASE ~Loadable(path)
  <2>1. DOMAIN chain' = {}
    BY <1>1, <1>2
  <2> QED
    BY <2>1 DEF LayersInv
<1>3. CASE Loadable(path)
  <2> DEFINE l == LoadTemplate(path)
  <2>1. IsLayer(l.layer)
    BY <1>3 DEF LayersInv, Loadable, LoadTemplate
  <2>2. chain' = <<l>>
    BY <1>1, <1>3
  <2> HIDE DEF l
  <2>3. DOMAIN chain' = {1} /\ chain'[1] = l
    BY <2>2
  <2> QED
    BY <2>1, <2>3 DEF LayersInv
<1> QED
  BY <1>2, <1>3

LEMMA LayersStep ==
  ASSUME ChainInv, LayersInv, [TemplateNext]_templateVars
  PROVE  LayersInv'
<1>1. CASE LoadFails
  BY <1>1, LayersSeen DEF LoadFails
<1>2. CASE LoadParent
  <2> DEFINE parent == ResolveExtendsParentPath(Last(chain).path, Last(chain).layer.extends)
             l == LoadTemplate(parent)
  <2>1. AcceptsParent(parent) /\ chain' = Append(chain, l) /\ UNCHANGED files
    BY <1>2 DEF LoadParent
  <2>2. IsLayer(l.layer)
    BY <2>1 DEF AcceptsParent, Loadable, LoadTemplate, LayersInv
  <2>3. chain \in Seq(Range(chain))
    BY DEF ChainInv, IsChain
  <2> HIDE DEF l, parent
  <2>4. /\ DOMAIN chain = 1..Len(chain) /\ DOMAIN chain' = 1..(Len(chain) + 1) /\ Len(chain) \in Nat
        /\ \A i \in DOMAIN chain : chain'[i] = chain[i]
        /\ chain'[Len(chain) + 1] = l
    BY <2>1, <2>3, OneMore
  <2>5. ASSUME NEW i \in DOMAIN chain' PROVE IsLayer(chain'[i].layer)
    BY <2>2, <2>4 DEF LayersInv
  <2> QED
    BY <2>1, <2>5 DEF LayersInv
<1>3. CASE LoadAndMergeTemplate
  BY <1>3, LayersSeen DEF LoadAndMergeTemplate
<1>4. CASE ComposeParent
  BY <1>4, LayersSeen DEF ComposeParent, Fail
<1>5. CASE DeltaForOverride
  <2>1. CASE ~Loadable(world.leaf)
    BY <1>5, <2>1, LayersSeen DEF DeltaForOverride, Fail
  <2>2. CASE Loadable(world.leaf)
    <3> DEFINE d == BuildDelta(SubSeq(world.leaf, Len(world.dir) + 1, Len(world.leaf)),
                               files[CanonicalPath(world.leaf)], world.sel,
                               world.catalogue, world.os, world.edgePack)
    <3>1. files' = Put(files, DeltaPath, d) /\ UNCHANGED chain
      BY <1>5, <2>2 DEF DeltaForOverride
    <3>2. IsLayer(d)
      BY WorldLayers, DeltaIsLayer
    <3> HIDE DEF d
    <3> QED
      BY <3>1, <3>2 DEF LayersInv, Put
  <2> QED
    BY <2>1, <2>2
<1>6. CASE ResolveDelta
  BY <1>6, LayersLoaded DEF ResolveDelta
<1>7. CASE ComposeResult
  <2>1. CASE template = <<>>
    BY <1>7, <2>1, LayersSeen DEF ComposeResult, Fail
  <2>2. CASE template # <<>>
    BY <1>7, <2>2, LayersLoaded DEF ComposeResult
  <2> QED
    BY <2>1, <2>2
<1>8. CASE ComposeBase
  BY <1>8, LayersSeen DEF ComposeBase
<1>9. CASE CheckTemplateCredentials
  <2>1. CASE Fail
    BY <2>1, LayersSeen DEF Fail
  <2>2. CASE Load(DeltaPath, "build") /\ UNCHANGED <<world, files, views>>
    BY <2>2, LayersLoaded
  <2> QED
    BY <1>9, <2>1, <2>2 DEF CheckTemplateCredentials
<1>10. ASSUME NEW r, NEW next, Fail \/ Become(r, next) PROVE LayersInv'
  BY <1>10, LayersSeen DEF Fail, Become
<1>11. CASE BuildOverridden
  BY <1>10, <1>11 DEF BuildOverridden
<1>12. CASE ApplyOEPInstaller
  BY <1>10, <1>12 DEF ApplyOEPInstaller
<1>13. CASE GenerateAptSources
  BY <1>10, <1>13 DEF GenerateAptSources
<1>14. CASE DownloadImagePkgs
  BY <1>10, <1>14 DEF DownloadImagePkgs
<1>15. CASE CreateUsers
  BY <1>10, <1>15 DEF CreateUsers
<1>16. CASE UNCHANGED templateVars
  BY <1>16, LayersSeen DEF templateVars
<1> QED
  BY <1>1, <1>2, <1>3, <1>4, <1>5, <1>6, <1>7, <1>8, <1>9, <1>11, <1>12, <1>13, <1>14, <1>15, <1>16
  DEF TemplateNext

LEMMA LayersInit == ASSUME TemplateInit PROVE LayersInv
<1>1. ChainInv
  BY ChainInit
<1>2. files = world.files
  BY DEF TemplateInit
<1>3. \A p \in DOMAIN files : IsLayer(files[p])
  BY <1>1, <1>2, WorldLayers
<1>4. CASE chain = <<>>
  <2>1. DOMAIN chain = {}
    BY <1>4
  <2> QED
    BY <1>3, <2>1 DEF LayersInv
<1>5. CASE chain = IF Loadable(world.leaf) THEN <<LoadTemplate(world.leaf)>> ELSE <<>>
  <2>1. CASE Loadable(world.leaf)
    <3> DEFINE l == LoadTemplate(world.leaf)
    <3>1. IsLayer(l.layer)
      BY <1>3, <2>1 DEF Loadable, LoadTemplate
    <3>2. chain = <<l>>
      BY <1>5, <2>1
    <3> HIDE DEF l
    <3>3. DOMAIN chain = {1} /\ chain[1] = l
      BY <3>2
    <3> QED
      BY <1>3, <3>1, <3>3 DEF LayersInv
  <2>2. CASE ~Loadable(world.leaf)
    BY <1>4, <1>5, <2>2
  <2> QED
    BY <2>1, <2>2
<1> QED
  BY <1>4, <1>5 DEF TemplateInit

-----------------------------------------------------------------------------
(* What the command line and the OEP Installer change *)

(* Alike in all that a merged template is judged by. *)
Alike(x, t) ==
  /\ Shaped(x) /\ x.repos = t.repos /\ x.baseline = t.baseline
  /\ x.system.scripts = t.system.scripts /\ x.system.files = t.system.files
  /\ x.system.immutability = t.system.immutability /\ x.system.aptPolicy = t.system.aptPolicy

(* A merged template overridden from the command line is one.                *)
LEMMA AlikeMerged ==
  ASSUME NEW x, NEW t, Merged(t), Alike(x, t), ValidateAdditionalFilesNotGenerated(x)
  PROVE  Merged(x)
<1>1. IsLayer(t)
  BY DEF Merged
<1>2. IsLayer(x)
  BY <1>1 DEF Alike, IsLayer, IsTemplate, Shaped
<1>3. IsOverlayMode(x) = IsOverlayMode(t)
  BY DEF Alike, IsOverlayMode
<1>4. Kept(t) => Kept(x)
  BY DEF Alike, Kept
<1>5. \A r : RepoUpgradeAllowed(x, r) = RepoUpgradeAllowed(t, r)
  BY DEF Alike, RepoUpgradeAllowed
<1>6. CheckAptPolicyOrigins(x) = CheckAptPolicyOrigins(t)
  BY <1>5 DEF Alike, CheckAptPolicyOrigins
<1>7. x.system.scripts = t.system.scripts /\ x.system.immutability = t.system.immutability
      /\ x.system.aptPolicy = t.system.aptPolicy
  BY DEF Alike
<1> QED
  BY <1>2, <1>3, <1>4, <1>6, <1>7 DEF Merged

LEMMA Overridden ==
  ASSUME NEW t, Merged(t), NEW o, NEW host, NEW r, r = ApplyCompositionOverrides(t, o, host), r # Refused
  PROVE  Merged(r[1])
<1> DEFINE proxied == [t EXCEPT !.disk.strategy = Or(o.strategy, @),
                                !.disk.path = IF o.strategy = "" THEN @ ELSE "",
                                !.system.host = Or(o.host, @),
                                !.system.proxy.http = Or(o.proxy, @)]
<1>1. CASE r = Accept(t)
  <2>1. r[1] = t
    BY <1>1 DEF Accept
  <2> QED
    BY <2>1
<1>2. ASSUME r # Accept(t)
      PROVE  \E v : LET x == [proxied EXCEPT !.system.users = v]
                    IN  r = Check(x, ValidateAdditionalFilesNotGenerated(x))
  <2> DEFINE keys(n) == {<<k.file>> : k \in {x \in Range(o.keys) : x.user = n}}
             users == [n \in DOMAIN proxied.system.users |->
                          AddKeysFromFiles(proxied.system.users[n], host, keys(n))]
             v == [n \in DOMAIN users |-> users[n][1]]
             x == [proxied EXCEPT !.system.users = v]
             a == IF Refused \in Range(users) THEN Refused ELSE Accept(x)
  <2>1. r = Then(a, LAMBDA y : Check(y, ValidateAdditionalFilesNotGenerated(y)))
    BY <1>2 DEF ApplyCompositionOverrides, AddKeys
  <2> HIDE DEF proxied, v
  <2>2. r = Check(a[1], ValidateAdditionalFilesNotGenerated(a[1])) /\ a = Accept(x)
    BY <2>1 DEF Then, With
  <2> HIDE DEF x, a
  <2>3. a[1] = x
    BY <2>2 DEF Accept
  <2>4. r = Check(x, ValidateAdditionalFilesNotGenerated(x))
    BY <2>2, <2>3
  <2> QED
    BY <2>4 DEF x
<1>3. Shaped(t)
  BY DEF Merged, IsLayer, IsTemplate, Shaped
<1>4. ASSUME NEW v PROVE Alike([proxied EXCEPT !.system.users = v], t)
  <2>1. Alike(proxied, t)
    BY <1>3 DEF Alike, Shaped, NoTemplate, NoSystem
  <2> HIDE DEF proxied
  <2> DEFINE x == [proxied EXCEPT !.system.users = v]
  <2>2. "users" \in DOMAIN NoSystem
    BY DEF NoSystem
  <2>3. Same(x, proxied, {"users"})
    BY <2>1, <2>2, SystemPut DEF Alike
  <2> HIDE DEF x
  <2>4. Alike(x, proxied)
    BY <2>3 DEF Alike, Same, NoTemplate, NoSystem
  <2>5. Alike(x, t)
    BY <2>1, <2>4 DEF Alike
  <2> QED
    BY <2>5 DEF x
<1>5. CASE r # Accept(t)
  <2>1. PICK v : r = Check([proxied EXCEPT !.system.users = v],
                           ValidateAdditionalFilesNotGenerated([proxied EXCEPT !.system.users = v]))
    BY <1>2, <1>5
  <2> DEFINE x == [proxied EXCEPT !.system.users = v]
  <2>2. Alike(x, t)
    BY <1>4
  <2>3. r = Check(x, ValidateAdditionalFilesNotGenerated(x))
    BY <2>1
  <2> HIDE DEF x
  <2>4. ValidateAdditionalFilesNotGenerated(x) /\ r[1] = x
    BY <2>3 DEF Check, Accept, Refused
  <2> QED
    BY <2>2, <2>4, AlikeMerged
<1> QED
  BY <1>1, <1>5

-----------------------------------------------------------------------------
(* A repository of the installer's, with its files where its kind may be. *)
IsOwn(r) ==
  /\ HasOwnFiles(r)
  /\ IsIn(AptDir \o <<"sources.list.d">>, r.own[1].listFile)
  /\ r.own[1].prefsFile # <<>> => IsIn(AptDir \o <<"preferences.d">>, r.own[1].prefsFile)

(* What the installer's documents say of a repository makes one of its own,  *)
LEMMA OwnRepository ==
  ASSUME NEW r, IsOepRepository(r)
  PROVE  IsRepository(ToPackageRepository(r)) /\ IsOwn(ToPackageRepository(r))
<1> DEFINE x == ToPackageRepository(r)
           own == [listFile |-> r.listFile, keyFile |-> r.keyFile, prefsFile |-> r.prefsFile, pins |-> r.pins]
<1>1. /\ DOMAIN x = DOMAIN NoRepository /\ x.codename = r.suite /\ x.url = r.url
      /\ x.own = <<own>>
  BY DEF ToPackageRepository, NoRepository
<1>2. own.listFile = r.listFile /\ own.prefsFile = r.prefsFile
  OBVIOUS
<1> HIDE DEF x, own
<1>3. x.own # <<>> /\ x.own[1] = own
  BY <1>1
<1>4. IsRepository(x)
  BY <1>1, <1>3 DEF IsOepRepository, IsRepository, HasOwnFiles
<1>5. IsOwn(x)
  BY <1>2, <1>3 DEF IsOepRepository, IsOwn, HasOwnFiles
<1> QED
  BY <1>4, <1>5 DEF x

LEMMA MappedList ==
  ASSUME NEW S, NEW s \in Seq(S), NEW T, NEW q, DOMAIN q = DOMAIN s, q = [i \in DOMAIN s |-> q[i]],
         \A i \in DOMAIN s : q[i] \in T
  PROVE  q \in Seq(T)
<1>1. Len(s) \in Nat /\ DOMAIN s = 1..Len(s)
  OBVIOUS
<1> QED
  BY <1>1

(* and what all of them say makes a list of those.                           *)
LEMMA OwnRepositories ==
  ASSUME NEW docs, IsList(docs), \A d \in Range(docs) : d.repo # <<>> => IsOepRepository(d.repo[1]),
         NEW r, r = UniqueRepositories(Requirements(docs).repos), r # Refused
  PROVE  \E R : (\A x \in R : IsRepository(x) /\ IsOwn(x)) /\ r[1] \in Seq(R)
<1> DEFINE from == Sift(docs, {i \in DOMAIN docs : docs[i].repo # <<>>})
           repos == [i \in DOMAIN from |-> from[i].repo[1]]
           unique == Sift(repos, {i \in DOMAIN repos : \A j \in 1..(i - 1) : repos[j] # repos[i]})
           given == [i \in DOMAIN unique |-> ToPackageRepository(unique[i])]
           D == {d \in Range(docs) : d.repo # <<>>}
           S == {d.repo[1] : d \in D}
           R == {ToPackageRepository(x) : x \in S}
<1>1. from \in Seq(D)
  <2>1. Len(docs) \in Nat /\ DOMAIN docs = 1..Len(docs) /\ \A i \in 1..Len(docs) : docs[i] \in Range(docs)
    BY DEF IsList, Range
  <2>2. \A i \in 1..Len(docs) : i \in {j \in DOMAIN docs : docs[j].repo # <<>>} => docs[i] \in D
    BY <2>1
  <2> HIDE DEF D
  <2> QED
    BY <2>1, <2>2, Sifted
<1>2. Requirements(docs).repos = repos
  BY DEF Requirements
<1>3. r = Check(given, \A a, b \in Range(repos) : FilesAgree(a, b))
  <2>1. UniqueRepositories(repos) = Check(given, \A a, b \in Range(repos) : FilesAgree(a, b))
    BY DEF UniqueRepositories
  <2> HIDE DEF repos, given
  <2> QED
    BY <1>2, <2>1
<1> HIDE DEF from
<1>4. repos \in Seq(S)
  <2>1. \A i \in DOMAIN from : from[i].repo[1] \in S
    BY <1>1
  <2> HIDE DEF D, S
  <2> QED
    BY <1>1, <2>1, MappedList
<1> HIDE DEF repos
<1>5. unique \in Seq(S)
  <2>1. Len(repos) \in Nat /\ \A i \in 1..Len(repos) : repos[i] \in S
    BY <1>4
  <2> HIDE DEF S
  <2> QED
    BY <2>1, Sifted
<1> HIDE DEF unique
<1>6. given \in Seq(R)
  <2>1. \A i \in DOMAIN unique : ToPackageRepository(unique[i]) \in R
    BY <1>5
  <2> HIDE DEF S, R
  <2> QED
    BY <1>5, <2>1, MappedList
<1>7. \A x \in S : IsOepRepository(x)
  OBVIOUS
<1>8. \A x \in R : IsRepository(x) /\ IsOwn(x)
  <2> HIDE DEF S
  <2> QED
    BY <1>7, OwnRepository
<1>9. r[1] = given
  <2> HIDE DEF given
  <2> QED
    BY <1>3 DEF Check, Accept
<1> HIDE DEF R, given
<1> QED
  BY <1>6, <1>8, <1>9

(* What a template is that the OEP Installer has added to. *)
Agree(t) ==
  \A a, b \in Range(t.repos) :
     ~HasOwnFiles(a) /\ ~HasOwnFiles(b) /\ Origin(a) = Origin(b) /\ Origin(a) # ""
        => RepoUpgradeAllowed(t, a) = RepoUpgradeAllowed(t, b)

Alone(t) == t.system.oep # <<>> /\ Len(t.system.scripts) = 1

Installed(t) ==
  /\ IsTemplate(t) /\ \A r \in Range(t.repos) : HasOwnFiles(r) => IsOwn(r)
  /\ Kept(t) /\ RebootAfterIsLast(t.system.scripts)
  /\ Alone(t) \/ ValidateAdditionalFilesNotGenerated(t)
  /\ Agree(t)

(* Without the installer nothing is to be added.                             *)
LEMMA MergedIsInstalled ==
  ASSUME NEW t, Merged(t), ~IsOverlayMode(t)
  PROVE  Installed(t)
<1>1. Agree(t)
  BY DEF Merged, CheckAptPolicyOrigins, Agree
<1> QED
  BY <1>1 DEF Merged, IsLayer, Installed

LEMMA MergedLists ==
  ASSUME NEW S, NEW repos \in Seq(S), NEW R, NEW oep \in Seq(R)
  PROVE  MergeOepRepositories(repos, oep) \in Seq(S \cup R)
<1> DEFINE kept == Sift(repos, {i \in DOMAIN repos : \A o \in Range(oep) :
                           repos[i].url # o.url \/ repos[i].codename # o.codename})
<1>1. kept \in Seq(S)
  <2>1. Len(repos) \in Nat /\ \A i \in 1..Len(repos) : repos[i] \in S
    OBVIOUS
  <2> QED
    BY <2>1, Sifted
<1>2. MergeOepRepositories(repos, oep) = kept \o oep
  BY DEF MergeOepRepositories
<1> HIDE DEF kept
<1>3. kept \in Seq(S \cup R) /\ oep \in Seq(S \cup R)
  BY <1>1
<1>4. kept \o oep \in Seq(S \cup R)
  BY <1>3
<1> QED
  BY <1>2, <1>4

(* Its requirements applied, the scripts and the pins stay as they were,     *)
LEMMA AppliedIs ==
  ASSUME NEW t, Merged(t), ~IsOverlayMode(t),
         NEW docs, IsList(docs), \A d \in Range(docs) : d.repo # <<>> => IsOepRepository(d.repo[1]),
         NEW r, r = Apply(t, Requirements(docs)), r # Refused
  PROVE  /\ Installed(r[1]) /\ ValidateAdditionalFilesNotGenerated(r[1])
         /\ r[1].system.oep = t.system.oep /\ Shaped(r[1])
<1> DEFINE q == Requirements(docs)
           own == UniqueRepositories(q.repos)
           packages == MergeOepPackages(t.system.packages, q.packages)
           x == [t EXCEPT !.system.packages = packages[1],
                          !.repos = MergeOepRepositories(@, own[1])]
<1>1. own # Refused /\ r = <<x>>
  BY DEF Apply, Accept
<1>2. PICK R : (\A y \in R : IsRepository(y) /\ IsOwn(y)) /\ own[1] \in Seq(R)
  BY <1>1, OwnRepositories
<1>3. Shaped(t) /\ IsLayer(t) /\ t.repos \in Seq(Range(t.repos))
  BY DEF Merged, IsLayer, IsTemplate, Shaped, IsList
<1>4. Same([t EXCEPT !.system.packages = packages[1]], t, {"packages"})
  <2>1. "packages" \in DOMAIN NoSystem
    BY DEF NoSystem
  <2> HIDE DEF packages
  <2> QED
    BY <1>3, <2>1, SystemPut
<1>5. /\ DOMAIN x = DOMAIN NoTemplate /\ x.repos = MergeOepRepositories(t.repos, own[1])
      /\ x.target = t.target
      /\ x.system = [t EXCEPT !.system.packages = packages[1]].system
  BY <1>3 DEF Shaped, NoTemplate
<1>6. /\ DOMAIN x.system = DOMAIN NoSystem
      /\ \A f \in DOMAIN NoSystem \ {"packages"} : x.system[f] = t.system[f]
  BY <1>4, <1>5 DEF Same, Shaped
<1>7. r[1] = x
  BY <1>1
<1> HIDE DEF x, own, q
<1>8. /\ x.system.scripts = t.system.scripts /\ x.system.oep = t.system.oep
      /\ x.system.proxy = t.system.proxy /\ x.system.immutability = t.system.immutability
      /\ x.system.cloudInit = t.system.cloudInit /\ x.system.aptPolicy = t.system.aptPolicy
      /\ x.system.files = t.system.files /\ x.system.users = t.system.users
  BY <1>6 DEF NoSystem
<1>9. x.repos \in Seq(Range(t.repos) \cup R)
  BY <1>2, <1>3, <1>5, MergedLists
<1>10. IsList(x.repos) /\ Range(x.repos) \subseteq Range(t.repos) \cup R
  BY <1>9, ListIn DEF Range
<1>11. /\ \A y \in Range(t.repos) : IsRepository(y) /\ ~HasOwnFiles(y)
       /\ \A y \in R : HasOwnFiles(y)
  BY <1>2, <1>3 DEF IsLayer, IsTemplate, IsOwn
<1>12. IsTemplate(x)
  BY <1>2, <1>3, <1>5, <1>6, <1>8, <1>10, <1>11 DEF IsLayer, IsTemplate
<1>13. \A y \in Range(x.repos) : HasOwnFiles(y) => IsOwn(y)
  BY <1>2, <1>10, <1>11
<1>14. Kept(x) /\ RebootAfterIsLast(x.system.scripts)
  BY <1>8 DEF Merged, Kept
<1>15. ValidateAdditionalFilesNotGenerated(x)
  <2>1. HasAptPolicyTarget(x) = HasAptPolicyTarget(t)
    BY <1>5 DEF HasAptPolicyTarget
  <2>2. GeneratedProvisioningPaths(x) = GeneratedProvisioningPaths(t)
    BY <1>8, <2>1 DEF GeneratedProvisioningPaths
  <2>3. ValidateAdditionalFilesNotGenerated(t)
    BY DEF Merged
  <2> QED
    BY <1>8, <2>2, <2>3 DEF ValidateAdditionalFilesNotGenerated, NotGenerated, InstallsTo
<1>16. Agree(x)
  <2>1. \A y : RepoUpgradeAllowed(x, y) = RepoUpgradeAllowed(t, y)
    BY <1>8 DEF RepoUpgradeAllowed
  <2>2. CheckAptPolicyOrigins(t)
    BY DEF Merged
  <2>3. \A y \in Range(x.repos) : ~HasOwnFiles(y) => y \in Range(t.repos)
    BY <1>10, <1>11
  <2> QED
    BY <2>1, <2>2, <2>3 DEF Agree, CheckAptPolicyOrigins
<1> QED
  BY <1>5, <1>6, <1>7, <1>8, <1>12, <1>13, <1>14, <1>15, <1>16 DEF Installed, Shaped

(* Short lists.                                                              *)
LEMMA Tuples ==
  /\ \A a, b : LET s == <<a, b>> IN IsList(s) /\ Len(s) = 2 /\ s[1] = a /\ s[2] = b
  /\ \A a, b, c : LET s == <<a, b, c>> IN IsList(s) /\ Len(s) = 3 /\ s[1] = a /\ s[2] = b /\ s[3] = c
  /\ \A a, b, c, d : LET s == <<a, b, c, d>> IN
        IsList(s) /\ Len(s) = 4 /\ s[1] = a /\ s[2] = b /\ s[3] = c /\ s[4] = d
  /\ \A a, b, c, d, e : LET s == <<a, b, c, d, e>> IN
        IsList(s) /\ Len(s) = 5 /\ s[1] = a /\ s[2] = b /\ s[3] = c /\ s[4] = d /\ s[5] = e
<1>1. ASSUME NEW a, NEW b PROVE IsList(<<a, b>>)
  <2>1. <<a, b>> \in Seq({a, b})
    OBVIOUS
  <2> QED
    BY <2>1, ListIn
<1>2. ASSUME NEW a, NEW b, NEW c PROVE IsList(<<a, b, c>>)
  <2>1. <<a, b, c>> \in Seq({a, b, c})
    OBVIOUS
  <2> QED
    BY <2>1, ListIn
<1>3. ASSUME NEW a, NEW b, NEW c, NEW d PROVE IsList(<<a, b, c, d>>)
  <2>1. <<a, b, c, d>> \in Seq({a, b, c, d})
    OBVIOUS
  <2> QED
    BY <2>1, ListIn
<1>4. ASSUME NEW a, NEW b, NEW c, NEW d, NEW e PROVE IsList(<<a, b, c, d, e>>)
  <2>1. <<a, b, c, d, e>> \in Seq({a, b, c, d, e})
    OBVIOUS
  <2> QED
    BY <2>1, ListIn
<1> QED
  BY <1>1, <1>2, <1>3, <1>4

(* What is in the image already stays free if the same is generated. *)
LEMMA StaysFree ==
  ASSUME NEW t, NEW x, GeneratedProvisioningPaths(x) = GeneratedProvisioningPaths(t),
         NEW f, f \in DOMAIN t.system.files, x.system.files[f] = t.system.files[f], NotGenerated(t, f)
  PROVE  NotGenerated(x, f)
BY DEF NotGenerated, InstallsTo

(* The tool's places, and what first boot adds away from them.               *)
LEMMA GeneratedAlike ==
  ASSUME NEW t, NEW x, x.target = t.target, x.system.users = t.system.users, x.system.proxy = t.system.proxy,
         x.system.immutability = t.system.immutability, x.system.cloudInit = t.system.cloudInit,
         x.system.scripts = <<>> <=> t.system.scripts = <<>>
  PROVE  GeneratedProvisioningPaths(x) = GeneratedProvisioningPaths(t)
<1>1. HasAptPolicyTarget(x) = HasAptPolicyTarget(t)
  BY DEF HasAptPolicyTarget
<1> QED
  BY <1>1 DEF GeneratedProvisioningPaths

LEMMA FirstBootPaths ==
  ASSUME NEW t, NEW url
  PROVE  Apart(t, Append(CLIDir, url)) /\ Apart(t, FirstBootScript) /\ Apart(t, SudoersInclude)
<1>1. IsList(CLIDir) /\ Len(CLIDir) = 4 /\ CLIDir[1] = "usr" /\ CLIDir[2] = "local"
  BY Tuples DEF CLIDir
<1> DEFINE f == Append(CLIDir, url)
<1>2. IsList(f) /\ Len(f) = 5 /\ f[1] = "usr" /\ f[2] = "local"
  <2>1. ASSUME NEW s, IsList(s)
        PROVE  /\ IsList(Append(s, url)) /\ Len(Append(s, url)) = Len(s) + 1
               /\ \A i \in 1..Len(s) : Append(s, url)[i] = s[i]
    BY <2>1, ListThen
  <2>2. /\ IsList(f) /\ Len(f) = Len(CLIDir) + 1
        /\ \A i \in 1..Len(CLIDir) : f[i] = CLIDir[i]
    BY <1>1, <2>1, Zenon
  <2> HIDE DEF f
  <2>3. f[1] = CLIDir[1] /\ f[2] = CLIDir[2]
    BY <1>1, <2>2
  <2> QED
    BY <1>1, <2>2, <2>3
<1>3. /\ IsList(FirstBootScript) /\ Len(FirstBootScript) = 4
      /\ FirstBootScript[1] = "usr" /\ FirstBootScript[2] = "local"
  BY Tuples DEF FirstBootScript
<1>4. /\ IsList(SudoersInclude) /\ Len(SudoersInclude) = 3
      /\ SudoersInclude[1] = "etc" /\ SudoersInclude[2] = "sudoers.d" /\ SudoersInclude[3] = "90-ict-oep-installer"
  BY Tuples DEF SudoersInclude
<1> HIDE DEF f
<1>5. Apart(t, f)
  BY <1>2 DEF Apart
<1>6. Apart(t, FirstBootScript) /\ Apart(t, SudoersInclude)
  BY <1>3, <1>4 DEF Apart
<1> QED
  BY <1>5, <1>6 DEF f

(* and so they do when first boot is added.                                  *)
LEMMA FirstBootAdded ==
  ASSUME NEW t, Installed(t), ValidateAdditionalFilesNotGenerated(t), t.system.oep # <<>>,
         NEW host, \A f \in DOMAIN host : IsHostFile(f),
         NEW r, r = AddFirstBoot(t, host), r # Refused
  PROVE  Installed(r[1]) /\ r[1].baseline = t.baseline
<1> DEFINE o == t.system.oep[1]
           written == [f \in DOMAIN host \cup {<<"openedge-cli">>, <<"first boot">>, <<"sudoers">>} |->
                          IF f \in DOMAIN host THEN host[f] ELSE {}]
           script == [name |-> "oep-installer", local |-> <<"first boot">>, final |-> FirstBootScript,
                      stage |-> "", order |-> NextScriptOrder(t.system.scripts), rebootAfter |-> FALSE]
           F == {[local |-> <<"openedge-cli">>, final |-> Append(CLIDir, o.url)],
                 [local |-> <<"sudoers">>, final |-> SudoersInclude]}
           a == AddLoweredFiles(t, written, F)
           sudo(y) == [y EXCEPT !.system.packages = @ \cup {Plain("sudo")}]
           b == sudo(a[1])
           scripts == Append(b.system.scripts, script)
           G == {[local |-> script.local, final |-> script.final]}
           c == AddLoweredFiles(b, written, G)
           x == [c[1] EXCEPT !.system.scripts = scripts]
<1>1. a # Refused /\ c # Refused /\ RebootAfterIsLast(scripts) /\ r = <<x>>
  <2>1. r = AddGeneratedProvisioningScript(b, written, script) /\ a # Refused
    <3> DEFINE boot(y) == AddGeneratedProvisioningScript(y, written, script)
    <3>1. r = Then(Then(a, LAMBDA y : Accept(sudo(y))), LAMBDA y : boot(y))
      BY DEF AddFirstBoot
    <3> HIDE DEF a, sudo, boot
    <3>2. a # Refused
      BY <3>1 DEF Then
    <3>3. Then(a, LAMBDA y : Accept(sudo(y))) = Accept(sudo(a[1]))
      BY <3>2 DEF Then, With
    <3>4. r = Then(Accept(sudo(a[1])), LAMBDA y : boot(y))
      BY <3>1, <3>3
    <3>5. Accept(sudo(a[1])) # Refused /\ Accept(sudo(a[1]))[1] = sudo(a[1])
      BY DEF Accept, Refused
    <3>6. r = boot(sudo(a[1]))
      BY <3>4, <3>5 DEF Then, With
    <3> QED
      BY <3>2, <3>6 DEF boot, sudo
  <2> HIDE DEF a, b, script, written
  <2> QED
    BY <2>1 DEF AddGeneratedProvisioningScript, Then, With, Accept
<1>2. \A f \in DOMAIN written : IsHostFile(f)
  <2>1. IsHostFile(<<"openedge-cli">>) /\ IsHostFile(<<"first boot">>) /\ IsHostFile(<<"sudoers">>)
    BY DEF IsHostFile
  <2> QED
    BY <2>1
<1>3. /\ script.final = FirstBootScript /\ script.local = <<"first boot">>
      /\ \A g \in G : g.final = script.final /\ g.local = script.local
      /\ \E g \in G : TRUE
  <2>1. script.final = FirstBootScript /\ script.local = <<"first boot">>
    OBVIOUS
  <2> DEFINE h == [local |-> script.local, final |-> script.final]
  <2> HIDE DEF script
  <2>2. h.final = script.final /\ h.local = script.local
    OBVIOUS
  <2>3. G = {h}
    OBVIOUS
  <2> HIDE DEF h
  <2> QED
    BY <2>1, <2>2, <2>3
<1>4. \A g \in F : g.final \in {Append(CLIDir, o.url), SudoersInclude}
  OBVIOUS
<1>5. r[1] = x
  <2> HIDE DEF a, b, c, x, scripts
  <2> QED
    BY <1>1
<1> HIDE DEF written, script, F, G
<1>a. a = AddLoweredFiles(t, written, F) /\ c = AddLoweredFiles(b, written, G)
  OBVIOUS
<1>b. b = [a[1] EXCEPT !.system.packages = a[1].system.packages \cup {Plain("sudo")}]
  OBVIOUS
<1>x. x = [c[1] EXCEPT !.system.scripts = scripts]
  OBVIOUS
<1>s. scripts = Append(b.system.scripts, script)
  OBVIOUS
<1> HIDE DEF a, b, c, x, scripts
<1>6. Shaped(t) /\ HostFiles(t)
  BY DEF Installed, IsTemplate, Shaped, HostFiles
<1>7. /\ Same(a[1], t, {"files"})
      /\ \A s : IsList(s.final) /\ Holds(t.system.files, s) => Holds(a[1].system.files, s)
      /\ \A f \in DOMAIN a[1].system.files :
               \/ f \in DOMAIN t.system.files /\ a[1].system.files[f] = t.system.files[f]
               \/ \E g \in F : f = g.final /\ g.local \in DOMAIN written /\ a[1].system.files[f] = g.local
  BY <1>1, <1>6, <1>a, Lowered
<1>8. Same(b, a[1], {"packages"}) /\ b.system.files = a[1].system.files /\ Shaped(b)
  <2>1. Shaped(a[1])
    BY <1>7 DEF Same
  <2> DEFINE v == a[1].system.packages \cup {Plain("sudo")}
             y == a[1]
  <2>2. Shaped(y) /\ b = [y EXCEPT !.system.packages = v]
    BY <1>b, <2>1
  <2> HIDE DEF v, y
  <2>3. Same(b, y, {"packages"})
    BY <2>2 DEF Same, Shaped, NoTemplate, NoSystem
  <2>4. Same(b, a[1], {"packages"})
    BY <2>3 DEF y
  <2> QED
    BY <2>4 DEF Same, NoSystem
<1>9. /\ Same(c[1], b, {"files"})
      /\ \A g \in G : IsList(g.final) => Holds(c[1].system.files, g)
      /\ \A s : IsList(s.final) /\ Holds(b.system.files, s) => Holds(c[1].system.files, s)
      /\ \A f \in DOMAIN c[1].system.files :
               \/ f \in DOMAIN b.system.files /\ c[1].system.files[f] = b.system.files[f]
               \/ \E g \in G : f = g.final /\ g.local \in DOMAIN written /\ c[1].system.files[f] = g.local
  BY <1>1, <1>8, <1>a, Lowered
<1>10. Same(c[1], t, {"files", "packages"})
  <2>1. Same(b, t, {"files", "packages"})
    BY <1>7, <1>8, SameTwice
  <2> QED
    BY <1>9, <2>1, SameTwice
<1>11. Same(x, c[1], {"scripts"}) /\ x.system.scripts = scripts
  <2>1. Shaped(c[1])
    BY <1>9 DEF Same
  <2> DEFINE y == c[1]
  <2>2. Shaped(y) /\ x = [y EXCEPT !.system.scripts = scripts]
    BY <1>x, <2>1
  <2> HIDE DEF x, y, scripts
  <2>3. Same(x, y, {"scripts"}) /\ x.system.scripts = scripts
    BY <2>2 DEF Same, Shaped, NoTemplate, NoSystem
  <2> QED
    BY <2>3 DEF y
<1>12. Same(x, t, {"files", "packages", "scripts"})
  BY <1>10, <1>11, SameTwice
<1>13. b.system.scripts = t.system.scripts /\ x.system.files = c[1].system.files
  <2>1. Same(b, t, {"files", "packages"})
    BY <1>7, <1>8, SameTwice
  <2> QED
    BY <2>1, <1>11 DEF Same, NoSystem
<1>14. scripts = Append(t.system.scripts, script) /\ IsList(t.system.scripts)
  BY <1>13, <1>s DEF Installed, IsTemplate
<1>15. IsList(script.final)
  BY <1>3, FirstBootPaths DEF Apart
<1>16. IsList(scripts) /\ Len(scripts) = Len(t.system.scripts) + 1 /\ Len(t.system.scripts) \in Nat
       /\ \A s \in Range(scripts) : s = script \/ s \in Range(t.system.scripts)
  <2>1. /\ IsList(scripts) /\ Len(t.system.scripts) \in Nat /\ Len(scripts) = Len(t.system.scripts) + 1
        /\ scripts[Len(t.system.scripts) + 1] = script
        /\ \A i \in 1..Len(t.system.scripts) : scripts[i] = t.system.scripts[i]
    BY <1>14, ListThen
  <2>2. DOMAIN t.system.scripts = 1..Len(t.system.scripts) /\ DOMAIN scripts = 1..Len(scripts)
    BY <1>14, <2>1 DEF IsList
  <2>3. \A s \in Range(scripts) : s = script \/ s \in Range(t.system.scripts)
    BY <2>1, <2>2 DEF Range
  <2> QED
    BY <2>1, <2>3
<1>17. /\ x.repos = t.repos /\ x.baseline = t.baseline /\ x.target = t.target
       /\ x.system.users = t.system.users /\ x.system.proxy = t.system.proxy
       /\ x.system.immutability = t.system.immutability /\ x.system.cloudInit = t.system.cloudInit
       /\ x.system.aptPolicy = t.system.aptPolicy /\ x.system.oep = t.system.oep /\ Shaped(x)
  BY <1>12 DEF Same, NoTemplate, NoSystem
<1>18. \A f \in DOMAIN x.system.files :
          \/ f \in DOMAIN t.system.files /\ x.system.files[f] = t.system.files[f]
          \/ Apart(x, f) /\ IsHostFile(x.system.files[f])
  <2>1. ASSUME NEW f \in DOMAIN x.system.files, NEW g \in F \cup G, f = g.final,
               g.local \in DOMAIN written, x.system.files[f] = g.local
        PROVE  Apart(x, f) /\ IsHostFile(x.system.files[f])
    BY <1>2, <1>3, <1>4, <2>1, FirstBootPaths
  <2> QED
    BY <1>7, <1>8, <1>9, <1>13, <2>1
<1>19. HostFiles(x)
  BY <1>6, <1>18 DEF HostFiles
<1>20. Kept(x)
  <2>1. ASSUME NEW s \in Range(t.system.scripts) PROVE IsList(s.final) /\ Holds(x.system.files, s)
    BY <1>7, <1>8, <1>9, <1>13 DEF Installed, Kept
  <2>2. Holds(x.system.files, script)
    <3>1. PICK g \in G : g.final = script.final /\ g.local = script.local
      BY <1>3
    <3>2. Holds(c[1].system.files, g)
      BY <1>9, <1>15, <3>1
    <3> QED
      BY <1>13, <3>1, <3>2 DEF Holds
  <2> QED
    BY <1>11, <1>15, <1>16, <2>1, <2>2 DEF Kept
<1>21. Alone(x) \/ ValidateAdditionalFilesNotGenerated(x)
  <2>1. CASE t.system.scripts = <<>>
    <3>1. Len(t.system.scripts) = 0
      BY <2>1
    <3> QED
      BY <1>11, <1>16, <1>17, <3>1 DEF Alone
  <2>2. CASE t.system.scripts # <<>>
    <3>1. scripts # <<>>
      BY <1>16
    <3>2. GeneratedProvisioningPaths(x) = GeneratedProvisioningPaths(t)
      BY <1>11, <1>17, <2>2, <3>1, GeneratedAlike
    <3> QED
      BY <1>18, <3>2, StaysFree, ApartIsFree DEF ValidateAdditionalFilesNotGenerated
  <2> QED
    BY <2>1, <2>2
<1>22. Agree(x)
  <2>1. \A y : RepoUpgradeAllowed(x, y) = RepoUpgradeAllowed(t, y)
    BY <1>17 DEF RepoUpgradeAllowed
  <2> QED
    BY <1>17, <2>1 DEF Agree, Installed
<1>23. IsTemplate(x)
  <2>1. \A s \in Range(x.system.scripts) : IsList(s.final)
    BY <1>20 DEF Kept
  <2> QED
    BY <1>11, <1>16, <1>17, <1>19, <2>1 DEF Installed, IsTemplate, Shaped, HostFiles
<1>24. Installed(x)
  BY <1>1, <1>11, <1>17, <1>20, <1>21, <1>22, <1>23 DEF Installed
<1> QED
  BY <1>5, <1>17, <1>24

-----------------------------------------------------------------------------
(* What is generated for apt *)

(* Of indices there is a greatest. *)
LEMMA Greatest ==
  ASSUME NEW n \in Nat, NEW S \in SUBSET (1..n), S # {}
  PROVE  Max(S) \in S
<1> DEFINE B == {k \in Nat : \A y \in S : y <= k}
<1>1. n \in B
  OBVIOUS
<1>2. PICK m \in B : \A k \in B : ~(<<k, m>> \in OpToRel(<, Nat))
  <2>1. B \subseteq Nat /\ B # {}
    BY <1>1
  <2> HIDE DEF B
  <2> QED
    BY <2>1, NatLessThanWellFounded, WFMin
<1>3. m \in Nat /\ \A y \in S : y <= m
  OBVIOUS
<1>4. m \in S
  <2> SUFFICES ASSUME m \notin S PROVE FALSE
    OBVIOUS
  <2>1. PICK y \in S : TRUE
    OBVIOUS
  <2>2. m - 1 \in Nat /\ \A z \in S : z <= m - 1
    BY <1>3, <2>1
  <2>3. m - 1 \in B
    BY <2>2
  <2>4. <<m - 1, m>> \in OpToRel(<, Nat)
    BY <1>3, <2>2 DEF OpToRel
  <2> QED
    BY <1>2, <2>3, <2>4
<1>5. \E x \in S : \A y \in S : x >= y
  BY <1>3, <1>4
<1> QED
  BY <1>5 DEF Max

(* What is generated leaves the scripts alone, and of two at one place one is *)
(* there.                                                                    *)
LEMMA GeneratedFiles ==
  ASSUME NEW t, Shaped(t), NEW n \in Nat, NEW F, DOMAIN F \subseteq 1..n,
         NEW r, r = AddGeneratedAdditionalFiles(t, F), r # Refused
  PROVE  LET x == r[1] IN
         /\ Same(x, t, {"files"})
         /\ Kept(t) => Kept(x)
         /\ \A f \in DOMAIN x.system.files :
               \/ f \in DOMAIN t.system.files /\ x.system.files[f] = t.system.files[f]
               \/ \E i \in DOMAIN F : f = F[i].final /\ x.system.files[f] = F[i].local
         /\ \A i \in DOMAIN F :
               /\ F[i].final \in DOMAIN x.system.files
               /\ \E j \in DOMAIN F : F[j].final = F[i].final /\ x.system.files[F[i].final] = F[j].local
<1> DEFINE old == t.system.files
           fresh == Written(F)
           new == Over(old, fresh)
           x == [t EXCEPT !.system.files = new]
<1>1. /\ r = <<x>>
      /\ \A s \in Range(t.system.scripts), f \in Range(F) : ~Overlaps(s.final, f.final)
  BY DEF AddGeneratedAdditionalFiles, Check, Accept
<1>2. Same(x, t, {"files"}) /\ x.system.files = new
  <2> HIDE DEF new
  <2> QED
    BY FilesPut
<1>3. r[1] = x
  BY <1>1
<1>4. /\ DOMAIN fresh = {F[i].final : i \in DOMAIN F}
      /\ \A p \in DOMAIN fresh : \E j \in DOMAIN F : F[j].final = p /\ fresh[p] = F[j].local
  <2>1. DOMAIN fresh = {F[i].final : i \in DOMAIN F}
    BY DEF Written, Range
  <2>2. ASSUME NEW p \in DOMAIN fresh
        PROVE  \E j \in DOMAIN F : F[j].final = p /\ fresh[p] = F[j].local
    <3> DEFINE S == {i \in DOMAIN F : F[i].final = p}
    <3>1. fresh[p] = F[Max(S)].local
      BY DEF Written
    <3>2. S \in SUBSET (1..n) /\ S # {}
      BY <2>1
    <3>3. Max(S) \in S
      <4> HIDE DEF S
      <4> QED
        BY <3>2, Greatest
    <3> QED
      BY <3>1, <3>3
  <2> QED
    BY <2>1, <2>2
<1>5. DOMAIN new = DOMAIN old \cup DOMAIN fresh
      /\ \A p \in DOMAIN new : new[p] = IF p \in DOMAIN fresh THEN fresh[p] ELSE old[p]
  BY DEF Over
<1> HIDE DEF old, fresh, new, x
<1>6. x.system.scripts = t.system.scripts
  BY <1>2 DEF Same, NoSystem
<1>7. ASSUME NEW s \in Range(t.system.scripts), IsList(s.final), Holds(old, s)
      PROVE  Holds(new, s)
  <2>1. \A f \in DOMAIN fresh : ~Overlaps(s.final, f)
    <3>1. \A i \in DOMAIN F : ~Overlaps(s.final, F[i].final)
      BY <1>1 DEF Range
    <3> QED
      BY <1>4, <3>1
  <2>2. s.final \notin DOMAIN fresh
    BY <1>7, <2>1, OverlapsItself
  <2>3. \A f \in DOMAIN new : Overlaps(f, s.final) => f \in DOMAIN old
    BY <1>5, <2>1, OverlapsBoth
  <2> QED
    BY <1>5, <1>7, <2>2, <2>3 DEF Holds
<1>8. Kept(t) => Kept(x)
  BY <1>2, <1>6, <1>7 DEF Kept, old
<1>9. \A f \in DOMAIN new :
         \/ f \in DOMAIN old /\ new[f] = old[f]
         \/ \E i \in DOMAIN F : f = F[i].final /\ new[f] = F[i].local
  BY <1>4, <1>5
<1>10. \A i \in DOMAIN F :
          /\ F[i].final \in DOMAIN new
          /\ \E j \in DOMAIN F : F[j].final = F[i].final /\ new[F[i].final] = F[j].local
  BY <1>4, <1>5
<1> QED
  BY <1>2, <1>3, <1>8, <1>9, <1>10 DEF old

-----------------------------------------------------------------------------
OwnKeys(t) == {r.own[1].keyFile : r \in {x \in Range(t.repos) : HasOwnFiles(x)}}

(* Nothing but host files are added, and those apart from what the tool       *)
(* writes, or keys where a repository of the installer's has them.           *)
Grows(x, t) ==
  /\ Same(x, t, {"files"})
  /\ Kept(t) => Kept(x)
  /\ \A f \in DOMAIN x.system.files :
        \/ f \in DOMAIN t.system.files /\ x.system.files[f] = t.system.files[f]
        \/ IsHostFile(x.system.files[f]) /\ (Apart(t, f) \/ f \in OwnKeys(t))

(* Such a change leaves what is apart, and may be made again.                *)
LEMMA SameApart ==
  ASSUME NEW x, NEW t, Same(x, t, {"files"})
  PROVE  /\ x.repos = t.repos /\ OwnKeys(x) = OwnKeys(t) /\ \A f : Apart(x, f) = Apart(t, f)
         /\ Shaped(x)
<1>1. x.repos = t.repos /\ x.system.immutability = t.system.immutability
  BY SameFields
<1> QED
  BY <1>1 DEF OwnKeys, Apart, Same

LEMMA GrowsOn ==
  ASSUME NEW x, NEW y, NEW t, Grows(x, y), Grows(y, t)
  PROVE  Grows(x, t)
<1>1. OwnKeys(y) = OwnKeys(t) /\ \A f : Apart(y, f) = Apart(t, f)
  BY SameApart DEF Grows
<1>2. Same(x, t, {"files"})
  BY SameTwice DEF Grows
<1> QED
  BY <1>1, <1>2 DEF Grows

(* Files generated apart, or where an own key is, are such a change.         *)
LEMMA GrowsBy ==
  ASSUME NEW t, Shaped(t), NEW n \in Nat, NEW F, DOMAIN F \subseteq 1..n,
         \A i \in DOMAIN F : IsHostFile(F[i].local) /\ (Apart(t, F[i].final) \/ F[i].final \in OwnKeys(t)),
         NEW r, r = AddGeneratedAdditionalFiles(t, F), r # Refused
  PROVE  Grows(r[1], t)
<1> DEFINE x == r[1]
<1>1. /\ Same(x, t, {"files"})
      /\ Kept(t) => Kept(x)
      /\ \A f \in DOMAIN x.system.files :
               \/ f \in DOMAIN t.system.files /\ x.system.files[f] = t.system.files[f]
               \/ \E i \in DOMAIN F : f = F[i].final /\ x.system.files[f] = F[i].local
  BY GeneratedFiles
<1> HIDE DEF x
<1> QED
  BY <1>1 DEF Grows, x

(* Lists joined, and the paths below apt's directory.                        *)
LEMMA ListsJoined ==
  ASSUME NEW s, IsList(s), NEW e, IsList(e)
  PROVE  /\ IsList(s \o e) /\ Len(s) \in Nat /\ Len(e) \in Nat /\ Len(s \o e) = Len(s) + Len(e)
         /\ \A i \in 1..Len(s) : (s \o e)[i] = s[i]
         /\ \A i \in 1..Len(e) : (s \o e)[Len(s) + i] = e[i]
<1> DEFINE S == Range(s) \cup Range(e)
<1>1. s \in Seq(S) /\ e \in Seq(S)
  BY DEF IsList
<1> HIDE DEF S
<1>2. /\ s \o e \in Seq(S) /\ Len(s \o e) = Len(s) + Len(e)
      /\ \A i \in 1..(Len(s) + Len(e)) :
               (s \o e)[i] = IF i <= Len(s) THEN s[i] ELSE e[i - Len(s)]
  BY <1>1, ConcatProperties
<1>3. IsList(s \o e)
  BY <1>2, ListIn
<1>4. \A i \in 1..Len(s) : (s \o e)[i] = s[i]
  BY <1>1, <1>2
<1>5. ASSUME NEW i \in 1..Len(e) PROVE (s \o e)[Len(s) + i] = e[i]
  <2>1. /\ Len(s) \in Nat /\ Len(e) \in Nat
    BY <1>1
  <2>2. Len(s) + i \in 1..(Len(s) + Len(e)) /\ ~(Len(s) + i <= Len(s)) /\ (Len(s) + i) - Len(s) = i
    BY <2>1
  <2> QED
    BY <1>2, <2>2
<1> QED
  BY <1>1, <1>2, <1>3, <1>4, <1>5

LEMMA AptPaths ==
  /\ IsList(AptDir) /\ Len(AptDir) = 2 /\ AptDir[1] = "etc" /\ AptDir[2] = "apt"
  /\ \A a : LET s == AptDir \o <<a>> IN
        IsList(s) /\ Len(s) = 3 /\ s[1] = "etc" /\ s[2] = "apt" /\ s[3] = a
  /\ \A a, b : LET s == AptDir \o <<a, b>> IN
        IsList(s) /\ Len(s) = 4 /\ s[1] = "etc" /\ s[2] = "apt" /\ s[3] = a /\ s[4] = b
  /\ \A a, b, c : LET s == AptDir \o <<a>> \o <<b, c>> IN
        IsList(s) /\ Len(s) = 5 /\ s[1] = "etc" /\ s[2] = "apt" /\ s[3] = a /\ s[4] = b /\ s[5] = c
<1>1. IsList(AptDir) /\ Len(AptDir) = 2 /\ AptDir[1] = "etc" /\ AptDir[2] = "apt"
  BY Tuples DEF AptDir
<1>a. IsList(AptDir)
  BY <1>1
<1>2. ASSUME NEW a
      PROVE  LET s == AptDir \o <<a>> IN IsList(s) /\ Len(s) = 3 /\ s[1] = "etc" /\ s[2] = "apt" /\ s[3] = a
  <2> DEFINE e == <<a>>
             q == AptDir \o e
  <2>1. e \in Seq({a}) /\ Len(e) = 1 /\ e[1] = a
    OBVIOUS
  <2> HIDE DEF e
  <2>2. IsList(e)
    BY <2>1, ListIn
  <2>3. /\ IsList(q) /\ Len(q) = Len(AptDir) + Len(e) /\ \A i \in 1..Len(AptDir) : q[i] = AptDir[i]
        /\ \A i \in 1..Len(e) : q[Len(AptDir) + i] = e[i]
    BY <1>a, <2>2, ListsJoined
  <2> HIDE DEF q
  <2>4. IsList(q) /\ Len(q) = 3 /\ q[1] = "etc" /\ q[2] = "apt" /\ q[3] = a
    BY <1>1, <2>1, <2>3
  <2> QED
    BY <2>4 DEF q, e
<1>3. ASSUME NEW s, IsList(s), NEW a, NEW b
      PROVE  LET q == s \o <<a, b>> IN
             /\ IsList(q) /\ Len(s) \in Nat /\ Len(q) = Len(s) + 2 /\ \A i \in 1..Len(s) : q[i] = s[i]
             /\ q[Len(s) + 1] = a /\ q[Len(s) + 2] = b
  <2> DEFINE e == <<a, b>>
             q == s \o e
  <2>1. Len(e) = 2 /\ e[1] = a /\ e[2] = b
    BY Tuples
  <2>2. IsList(e)
    BY Tuples
  <2> HIDE DEF e
  <2>3. /\ IsList(q) /\ Len(s) \in Nat /\ Len(q) = Len(s) + Len(e) /\ \A i \in 1..Len(s) : q[i] = s[i]
        /\ \A i \in 1..Len(e) : q[Len(s) + i] = e[i]
    BY <1>3, <2>2, ListsJoined
  <2> HIDE DEF q
  <2>4. /\ IsList(q) /\ Len(s) \in Nat /\ Len(q) = Len(s) + 2 /\ \A i \in 1..Len(s) : q[i] = s[i]
        /\ q[Len(s) + 1] = a /\ q[Len(s) + 2] = b
    BY <2>1, <2>3
  <2> QED
    BY <2>4 DEF q, e
<1>4. ASSUME NEW a, NEW b
      PROVE  LET s == AptDir \o <<a, b>> IN
             IsList(s) /\ Len(s) = 4 /\ s[1] = "etc" /\ s[2] = "apt" /\ s[3] = a /\ s[4] = b
  <2> DEFINE q == AptDir \o <<a, b>>
  <2> DEFINE s == AptDir
  <2>1. /\ IsList(q) /\ Len(s) \in Nat /\ Len(q) = Len(s) + 2 /\ \A i \in 1..Len(s) : q[i] = s[i]
        /\ q[Len(s) + 1] = a /\ q[Len(s) + 2] = b
    BY <1>a, <1>3
  <2> HIDE DEF q
  <2>2. IsList(q) /\ Len(q) = 4 /\ q[1] = "etc" /\ q[2] = "apt" /\ q[3] = a /\ q[4] = b
    BY <1>1, <2>1
  <2> QED
    BY <2>2 DEF q
<1>5. ASSUME NEW a, NEW b, NEW c
      PROVE  LET s == AptDir \o <<a>> \o <<b, c>> IN
             IsList(s) /\ Len(s) = 5 /\ s[1] = "etc" /\ s[2] = "apt" /\ s[3] = a /\ s[4] = b /\ s[5] = c
  <2> DEFINE d == AptDir \o <<a>>
             q == d \o <<b, c>>
  <2>1. IsList(d) /\ Len(d) = 3 /\ d[1] = "etc" /\ d[2] = "apt" /\ d[3] = a
    BY <1>2
  <2> HIDE DEF d
  <2>a. IsList(d)
    BY <2>1
  <2>2. /\ IsList(q) /\ Len(d) \in Nat /\ Len(q) = Len(d) + 2 /\ \A i \in 1..Len(d) : q[i] = d[i]
        /\ q[Len(d) + 1] = b /\ q[Len(d) + 2] = c
    BY <1>3, <2>a
  <2> HIDE DEF q
  <2>3. IsList(q) /\ Len(q) = 5 /\ q[1] = "etc" /\ q[2] = "apt" /\ q[3] = a /\ q[4] = b /\ q[5] = c
    BY <2>1, <2>2
  <2> QED
    BY <2>3 DEF q, d
<1> QED
  BY <1>1, <1>2, <1>4, <1>5

(* A file within one of apt's directories is below it. *)
LEMMA WithinApt ==
  ASSUME NEW a, NEW f, IsIn(AptDir \o <<a>>, f)
  PROVE  IsList(f) /\ Len(f) >= 4 /\ f[1] = "etc" /\ f[2] = "apt" /\ f[3] = a
<1> DEFINE s == AptDir \o <<a>>
<1>1. IsList(s) /\ Len(s) = 3 /\ s[1] = "etc" /\ s[2] = "apt" /\ s[3] = a
  BY AptPaths
<1>2. IsList(f) /\ IsPrefix(s, f) /\ Len(f) > Len(s)
  BY DEF IsIn
<1> HIDE DEF s
<1>3. \A i \in 1..Len(s) : s[i] = f[i]
  BY <1>1, <1>2, PrefixAt
<1>4. Len(f) \in Nat
  BY <1>2 DEF IsList
<1> QED
  BY <1>1, <1>2, <1>3, <1>4

(* Each step of the generation of apt's files is such a change.              *)
LEMMA SourcesAdded ==
  ASSUME NEW t, Shaped(t), NEW r, r = AddAptSourcesFile(t), r # Refused
  PROVE  Grows(r[1], t)
<1> DEFINE g == [local |-> <<"sources">>, final |-> SourcesList]
           F == <<g>>
<1>1. r = AddGeneratedAdditionalFiles(t, F)
  BY DEF AddAptSourcesFile
<1>2. IsHostFile(g.local) /\ g.final = SourcesList
  BY DEF IsHostFile
<1>3. Apart(t, SourcesList)
  <2>1. SourcesList = AptDir \o <<"sources.list.d", "package-repositories.list">>
    BY DEF SourcesList
  <2> DEFINE f == SourcesList
  <2>2. IsList(f) /\ Len(f) = 4 /\ f[1] = "etc" /\ f[2] = "apt" /\ f[3] = "sources.list.d"
    BY <2>1, AptPaths
  <2> QED
    BY <2>2 DEF Apart
<1> HIDE DEF g
<1>4. DOMAIN F = 1..1 /\ F[1] = g
  OBVIOUS
<1> HIDE DEF F
<1>5. \A i \in DOMAIN F : IsHostFile(F[i].local) /\ (Apart(t, F[i].final) \/ F[i].final \in OwnKeys(t))
  BY <1>2, <1>3, <1>4
<1> QED
  BY <1>1, <1>4, <1>5, GrowsBy

LEMMA ReposListed ==
  ASSUME NEW t, IsList(t.repos)
  PROVE  Len(t.repos) \in Nat /\ DOMAIN t.repos = 1..Len(t.repos)
BY DEF IsList

LEMMA OwnListsAdded ==
  ASSUME NEW t, Shaped(t), IsList(t.repos), \A x \in Range(t.repos) : HasOwnFiles(x) => IsOwn(x),
         NEW r, r = AddOwnSourcesListFiles(t), r # Refused
  PROVE  Grows(r[1], t)
<1> DEFINE F == [i \in {i \in DOMAIN t.repos : HasOwnFiles(t.repos[i])} |->
                    [local |-> <<"source", t.repos[i].codename>>, final |-> t.repos[i].own[1].listFile]]
<1>1. r = AddGeneratedAdditionalFiles(t, F)
  BY DEF AddOwnSourcesListFiles
<1>2. Len(t.repos) \in Nat /\ DOMAIN F \subseteq 1..Len(t.repos)
  BY ReposListed
<1>3. ASSUME NEW i \in DOMAIN F
      PROVE  IsHostFile(F[i].local) /\ Apart(t, F[i].final)
  <2>1. HasOwnFiles(t.repos[i]) /\ t.repos[i] \in Range(t.repos)
    BY DEF Range
  <2>2. IsIn(AptDir \o <<"sources.list.d">>, t.repos[i].own[1].listFile)
    BY <2>1 DEF IsOwn
  <2>3. F[i].final = t.repos[i].own[1].listFile /\ F[i].local = <<"source", t.repos[i].codename>>
    OBVIOUS
  <2> HIDE DEF F
  <2>4. IsHostFile(F[i].local)
    BY <2>3 DEF IsHostFile
  <2> DEFINE f == F[i].final
  <2>5. IsIn(AptDir \o <<"sources.list.d">>, f)
    BY <2>2, <2>3
  <2> HIDE DEF f
  <2>6. IsList(f) /\ Len(f) >= 4 /\ f[1] = "etc" /\ f[2] = "apt" /\ f[3] = "sources.list.d"
    BY <2>5, WithinApt
  <2>7. Apart(t, f)
    BY <2>6 DEF Apart
  <2> QED
    BY <2>4, <2>7 DEF f
<1> HIDE DEF F
<1> QED
  BY <1>1, <1>2, <1>3, GrowsBy

LEMMA SigningKeysAdded ==
  ASSUME NEW t, Shaped(t), IsList(t.repos), NEW keys,
         NEW r, r = DownloadAndAddGPGKeys(t, keys), r # Refused
  PROVE  Grows(r[1], t)
<1> DEFINE signed == {i \in DOMAIN t.repos : t.repos[i].key \notin NoKeyNeeded}
           file(y) == [local |-> <<"key", y.key>>,
                       final |-> IF HasOwnFiles(y) THEN y.own[1].keyFile ELSE ExtractGPGKeyFilename(y.key)]
           F == [i \in signed |-> file(t.repos[i])]
<1>1. r = AddGeneratedAdditionalFiles(t, F)
  BY DEF DownloadAndAddGPGKeys
<1>2. Len(t.repos) \in Nat /\ DOMAIN F \subseteq 1..Len(t.repos)
  BY ReposListed
<1>3. ASSUME NEW i \in DOMAIN F
      PROVE  IsHostFile(F[i].local) /\ (Apart(t, F[i].final) \/ F[i].final \in OwnKeys(t))
  <2> DEFINE y == t.repos[i]
  <2>1. /\ F[i].local = <<"key", y.key>> /\ y \in Range(t.repos)
        /\ F[i].final = IF HasOwnFiles(y) THEN y.own[1].keyFile ELSE ExtractGPGKeyFilename(y.key)
    BY DEF Range
  <2> HIDE DEF F, y
  <2>2. IsHostFile(F[i].local)
    BY <2>1 DEF IsHostFile
  <2>3. CASE HasOwnFiles(y)
    <3>1. F[i].final \in OwnKeys(t)
      BY <2>1, <2>3 DEF OwnKeys
    <3> QED
      BY <2>2, <3>1
  <2>4. CASE ~HasOwnFiles(y)
    <3> DEFINE f == AptDir \o <<"trusted.gpg.d", y.key>>
    <3>1. F[i].final = f
      BY <2>1, <2>4 DEF ExtractGPGKeyFilename
    <3>2. IsList(f) /\ Len(f) = 4 /\ f[1] = "etc" /\ f[2] = "apt" /\ f[3] = "trusted.gpg.d"
      BY AptPaths
    <3> HIDE DEF f
    <3>3. Apart(t, f)
      BY <3>2 DEF Apart
    <3> QED
      BY <2>2, <3>1, <3>3
  <2> QED
    BY <2>3, <2>4
<1> HIDE DEF F
<1> QED
  BY <1>1, <1>2, <1>3, GrowsBy

(* A repository's own preferences file is apart unless immutability has one. *)
LEMMA PreferencesApart ==
  ASSUME NEW t, NEW r, IsRepository(r), HasOwnFiles(r) => IsOwn(r) /\ RepoMayUpgrade(t, r), HasPreferences(r)
  PROVE  Apart(t, PreferencesFile(t, r).final)
<1> DEFINE f == PreferencesFile(t, r).final
<1>1. CASE HasOwnFiles(r)
  <2>1. f = r.own[1].prefsFile /\ f # <<>>
    BY <1>1 DEF PreferencesFile, HasPreferences
  <2>2. ~t.system.immutability.enabled
    BY <1>1 DEF RepoMayUpgrade
  <2>3. IsIn(AptDir \o <<"preferences.d">>, f)
    BY <1>1, <2>1 DEF IsOwn
  <2> HIDE DEF f
  <2>4. Apart(t, f)
    BY <2>2, <2>3, WithinApt DEF Apart
  <2> QED
    BY <2>4 DEF f
<1>2. CASE ~HasOwnFiles(r)
  <2> DEFINE suite == IF r.codename = "" THEN "repository" ELSE r.codename
             a == SanitizeFilename(suite)
             b == SanitizeFilename(Origin(r))
             path == AptDir \o <<"preferences.d">> \o <<a, b>>
  <2>1. f = path
    BY <1>2 DEF PreferencesFile, PreferencesPath, GeneratePreferencesFilename
  <2>2. a # "00-ict-apt-policy"
    BY DEF IsRepository, SanitizeFilename
  <2> HIDE DEF a, b, f
  <2>3. IsList(path) /\ Len(path) = 5 /\ path[1] = "etc" /\ path[2] = "apt" /\ path[3] = "preferences.d" /\ path[4] = a
    BY AptPaths
  <2> HIDE DEF path
  <2>4. Apart(t, path)
    BY <2>2, <2>3 DEF Apart
  <2> QED
    BY <2>1, <2>4 DEF f
<1> QED
  BY <1>1, <1>2

(* With priorities given to all repositories, the template is what it was. *)
LEMMA Prioritized ==
  ASSUME NEW t, Installed(t), NEW x, x = [t EXCEPT !.repos = NormalizeRepositoryPriorities(@)]
  PROVE  Installed(x) /\ Shaped(x) /\ x.target = t.target /\ x.baseline = t.baseline
<1> DEFINE repos == NormalizeRepositoryPriorities(t.repos)
<1>1. IsTemplate(t) /\ IsList(t.repos)
  BY DEF Installed, IsTemplate
<1>2. /\ DOMAIN repos = DOMAIN t.repos
      /\ \A i \in DOMAIN repos : repos[i] = IF t.repos[i].priority = 0
                                            THEN [t.repos[i] EXCEPT !.priority = 500] ELSE t.repos[i]
      /\ repos = [i \in DOMAIN t.repos |-> repos[i]]
  BY DEF NormalizeRepositoryPriorities
<1>3. /\ DOMAIN x = DOMAIN NoTemplate /\ x.repos = repos /\ x.system = t.system
      /\ x.target = t.target /\ x.baseline = t.baseline
  BY <1>1 DEF IsTemplate, NoTemplate
<1> HIDE DEF repos
<1>4. ASSUME NEW r \in Range(repos)
      PROVE  \E o \in Range(t.repos) : /\ DOMAIN r = DOMAIN o /\ r.codename = o.codename /\ r.url = o.url
                                       /\ r.own = o.own /\ (o.priority \in Int => r.priority \in Int)
  <2>1. PICK i \in DOMAIN repos : r = repos[i]
    BY DEF Range
  <2> DEFINE o == t.repos[i]
  <2>2. o \in Range(t.repos)
    BY <1>2 DEF Range
  <2>3. DOMAIN o = DOMAIN NoRepository
    BY <1>1, <2>2 DEF IsTemplate, IsRepository
  <2>4. r = IF o.priority = 0 THEN [o EXCEPT !.priority = 500] ELSE o
    BY <1>2, <2>1
  <2> HIDE DEF o
  <2>5. /\ DOMAIN r = DOMAIN o /\ r.codename = o.codename /\ r.url = o.url
        /\ r.own = o.own /\ (o.priority \in Int => r.priority \in Int)
    BY <2>3, <2>4 DEF NoRepository
  <2> QED
    BY <2>2, <2>5
<1>5. ASSUME NEW r \in Range(repos)
      PROVE  IsRepository(r) /\ (HasOwnFiles(r) => IsOwn(r))
  <2>1. PICK o \in Range(t.repos) : /\ DOMAIN r = DOMAIN o /\ r.codename = o.codename /\ r.url = o.url
                                    /\ r.own = o.own /\ (o.priority \in Int => r.priority \in Int)
    BY <1>4
  <2>2. IsRepository(o) /\ (HasOwnFiles(o) => IsOwn(o))
    BY <1>1 DEF IsTemplate, Installed
  <2>3. HasOwnFiles(r) = HasOwnFiles(o)
    BY <2>1 DEF HasOwnFiles
  <2>4. IsRepository(r)
    BY <2>1, <2>2, <2>3 DEF IsRepository
  <2>5. HasOwnFiles(r) => IsOwn(r)
    BY <2>1, <2>2, <2>3 DEF IsOwn
  <2> QED
    BY <2>4, <2>5
<1>6. IsList(repos)
  <2>1. Len(t.repos) \in Nat /\ DOMAIN t.repos = 1..Len(t.repos)
    BY <1>1, ReposListed
  <2>2. \A i \in 1..Len(t.repos) : repos[i] \in Range(repos)
    BY <1>2, <2>1 DEF Range
  <2>3. repos = [i \in 1..Len(t.repos) |-> repos[i]]
    BY <1>2, <2>1
  <2>4. repos \in Seq(Range(repos))
    BY <2>1, <2>2, <2>3
  <2> QED
    BY <2>4, ListIn
<1>7. IsTemplate(x)
  BY <1>1, <1>3, <1>5, <1>6 DEF IsTemplate
<1>8. Kept(x) /\ RebootAfterIsLast(x.system.scripts) /\ (Alone(t) => Alone(x))
  BY <1>3 DEF Installed, Kept, Alone
<1>9. ValidateAdditionalFilesNotGenerated(t) => ValidateAdditionalFilesNotGenerated(x)
  <2>1. GeneratedProvisioningPaths(x) = GeneratedProvisioningPaths(t)
    BY <1>3, GeneratedAlike
  <2> QED
    BY <1>3, <2>1 DEF ValidateAdditionalFilesNotGenerated, NotGenerated, InstallsTo
<1>10. Agree(x)
  <2> SUFFICES ASSUME NEW a \in Range(x.repos), NEW b \in Range(x.repos),
                      ~HasOwnFiles(a), ~HasOwnFiles(b), Origin(a) = Origin(b), Origin(a) # ""
               PROVE  RepoUpgradeAllowed(x, a) = RepoUpgradeAllowed(x, b)
    BY DEF Agree
  <2>1. PICK c \in Range(t.repos) : a.codename = c.codename /\ a.url = c.url /\ a.own = c.own
    BY <1>3, <1>4
  <2>2. PICK d \in Range(t.repos) : b.codename = d.codename /\ b.url = d.url /\ b.own = d.own
    BY <1>3, <1>4
  <2>3. ~HasOwnFiles(c) /\ ~HasOwnFiles(d) /\ Origin(c) = Origin(a) /\ Origin(d) = Origin(b)
    BY <2>1, <2>2 DEF HasOwnFiles, Origin
  <2>4. RepoUpgradeAllowed(t, c) = RepoUpgradeAllowed(t, d)
    BY <2>3 DEF Installed, Agree
  <2> QED
    BY <1>3, <2>1, <2>2, <2>4 DEF RepoUpgradeAllowed
<1> QED
  BY <1>3, <1>5, <1>7, <1>8, <1>9, <1>10 DEF Installed, Shaped, IsTemplate

-----------------------------------------------------------------------------
Displaced(t, r) ==
  \E o \in Range(t.repos) :
     \/ Origin(o) # Origin(r) /\ PreferencesPath(o) = PreferencesPath(r)
     \/ HasOwnFiles(o) /\ o.own[1].prefsFile = PreferencesPath(r)

Pinned(t, r) ==
  /\ PreferencesPath(r) \in DOMAIN t.system.files
  /\ LET f == t.system.files[PreferencesPath(r)]
     IN  f[1] = "pin" /\ f[2] = Origin(r) /\ f[3] <= NoUpgradePinPriority

Brings(t, o, f, r) ==
  /\ HasOwnFiles(o) /\ o.own[1].prefsFile = f /\ RepoMayUpgrade(t, o)
  /\ Upgrading(Range(o.own[1].pins), Origin(r)) # {}

IsPinned(t) ==
  \A r \in Range(t.repos) :
     ~HasOwnFiles(r) /\ r.url # <<>> /\ ~RepoMayUpgrade(t, r) =>
        /\ Displaced(t, r) \/ Pinned(t, r)
        /\ \A f \in DOMAIN t.system.files : Upgrading(Stanzas(t.system.files[f]), Origin(r)) # {} =>
              \E o \in Range(t.repos) : Brings(t, o, f, r)

(* What a file says of hosts, by its kind.                                   *)
LEMMA StanzasOf ==
  /\ \A f : IsHostFile(f) => Stanzas(f) = {}
  /\ \A h, p : Stanzas(<<"pin", h, p>>) = {[packages |-> "*", origin |-> h, priority |-> p]}
  /\ \A pins : Stanzas(<<"own pins", pins>>) = Range(pins)
<1>1. ASSUME NEW f, IsHostFile(f) PROVE Stanzas(f) = {}
  BY <1>1 DEF Stanzas, IsHostFile
<1>2. ASSUME NEW h, NEW p PROVE Stanzas(<<"pin", h, p>>) = {[packages |-> "*", origin |-> h, priority |-> p]}
  <2> DEFINE f == <<"pin", h, p>>
  <2>1. f[1] = "pin" /\ f[2] = h /\ f[3] = p
    OBVIOUS
  <2> HIDE DEF f
  <2>2. Stanzas(f) = {[packages |-> "*", origin |-> h, priority |-> p]}
    BY <2>1 DEF Stanzas
  <2> QED
    BY <2>2 DEF f
<1>3. ASSUME NEW pins PROVE Stanzas(<<"own pins", pins>>) = Range(pins)
  <2> DEFINE f == <<"own pins", pins>>
  <2>1. f[1] = "own pins" /\ f[2] = pins
    OBVIOUS
  <2> HIDE DEF f
  <2>2. Stanzas(f) = Range(pins)
    BY <2>1 DEF Stanzas
  <2> QED
    BY <2>2 DEF f
<1> QED
  BY <1>1, <1>2, <1>3

LEMMA UpgradingOne ==
  ASSUME NEW h, NEW p, NEW host,
         Upgrading({[packages |-> "*", origin |-> h, priority |-> p]}, host) # {}
  PROVE  h \in {"", host} /\ p > NoUpgradePinPriority
<1> DEFINE s == [packages |-> "*", origin |-> h, priority |-> p]
<1>1. s.origin = h /\ s.priority = p
  OBVIOUS
<1>2. Upgrading({s}, host) # {}
  OBVIOUS
<1> HIDE DEF s
<1>3. s.origin \in {"", host} /\ s.priority > NoUpgradePinPriority
  BY <1>2 DEF Upgrading
<1> QED
  BY <1>1, <1>3

(* What denies a repository upgrades is below its host's other pins. *)
LEMMA PinIsLow ==
  ASSUME NEW t, NEW r, ~RepoMayUpgrade(t, r), r.priority \in Int
  PROVE  PinPriority(t, r) <= NoUpgradePinPriority
BY DEF PinPriority, NoUpgradePinPriority

(* The preferences written pin what is denied.                               *)
LEMMA PinsAdded ==
  ASSUME NEW t, Shaped(t), IsTemplate(t), \A x \in Range(t.repos) : HasOwnFiles(x) => IsOwn(x), Agree(t),
         NEW r, r = GenerateAptPreferencesFromRepositories(t), r # Refused
  PROVE  LET x == r[1] IN
         /\ Same(x, t, {"files"})
         /\ Kept(t) => Kept(x)
         /\ \A f \in DOMAIN x.system.files :
               (f \in DOMAIN t.system.files /\ x.system.files[f] = t.system.files[f]) \/ Apart(t, f)
         /\ IsPinned(x)
<1> DEFINE n == Len(t.repos)
           given == {i \in DOMAIN t.repos : HasPreferences(t.repos[i])}
           F == [i \in given |-> PreferencesFile(t, t.repos[i])]
           x == r[1]
<1>1. /\ r = AddGeneratedAdditionalFiles(t, F)
      /\ \A y \in Range(t.repos) : HasOwnFiles(y) => RepoMayUpgrade(t, y)
  BY DEF GenerateAptPreferencesFromRepositories
<1>2. n \in Nat /\ DOMAIN t.repos = 1..n /\ DOMAIN F \subseteq 1..n
  BY ReposListed DEF IsTemplate
<1>3. /\ DOMAIN F = {i \in DOMAIN t.repos : HasPreferences(t.repos[i])}
      /\ \A i \in DOMAIN F : F[i] = PreferencesFile(t, t.repos[i]) /\ t.repos[i] \in Range(t.repos)
  BY DEF Range
<1> HIDE DEF F, n
<1>4. /\ Same(x, t, {"files"})
      /\ Kept(t) => Kept(x)
      /\ \A f \in DOMAIN x.system.files :
               \/ f \in DOMAIN t.system.files /\ x.system.files[f] = t.system.files[f]
               \/ \E i \in DOMAIN F : f = F[i].final /\ x.system.files[f] = F[i].local
      /\ \A i \in DOMAIN F :
               /\ F[i].final \in DOMAIN x.system.files
               /\ \E j \in DOMAIN F : F[j].final = F[i].final /\ x.system.files[F[i].final] = F[j].local
  BY <1>1, <1>2, GeneratedFiles
<1> HIDE DEF x
<1>5. \A i \in DOMAIN F : Apart(t, F[i].final)
  <2>1. ASSUME NEW i \in DOMAIN F PROVE Apart(t, F[i].final)
    <3> DEFINE y == t.repos[i]
    <3>1. y \in Range(t.repos) /\ HasPreferences(y) /\ F[i] = PreferencesFile(t, y)
      BY <1>3
    <3> HIDE DEF y
    <3>2. IsRepository(y) /\ (HasOwnFiles(y) => IsOwn(y) /\ RepoMayUpgrade(t, y))
      BY <1>1, <3>1 DEF IsTemplate
    <3> QED
      BY <3>1, <3>2, PreferencesApart
  <2> QED
    BY <2>1
<1>6. /\ x.repos = t.repos /\ x.system.immutability = t.system.immutability
      /\ x.system.aptPolicy = t.system.aptPolicy
  BY <1>4, SameFields
<1>7. \A y : RepoMayUpgrade(x, y) = RepoMayUpgrade(t, y) /\ RepoUpgradeAllowed(x, y) = RepoUpgradeAllowed(t, y)
  BY <1>6 DEF RepoMayUpgrade, RepoUpgradeAllowed
<1>8. ASSUME NEW i \in DOMAIN F, NEW y, y = t.repos[i]
      PROVE  IF HasOwnFiles(y) THEN F[i].local = <<"own pins", y.own[1].pins>> /\ F[i].final = y.own[1].prefsFile
             ELSE /\ F[i].local = <<"pin", Origin(y), PinPriority(t, y)>>
                  /\ F[i].final = PreferencesPath(y)
  <2>1. F[i] = PreferencesFile(t, y)
    BY <1>3, <1>8
  <2>2. CASE HasOwnFiles(y)
    <3> DEFINE g == F[i]
               v == <<"own pins", y.own[1].pins>>
    <3>1. g = [local |-> v, final |-> y.own[1].prefsFile]
      BY <2>1, <2>2 DEF PreferencesFile
    <3> HIDE DEF g, v
    <3>2. g.local = v /\ g.final = y.own[1].prefsFile
      BY <3>1
    <3> QED
      BY <2>2, <3>2 DEF g, v
  <2>3. CASE ~HasOwnFiles(y)
    <3>1. /\ F[i].local = <<"pin", Origin(y), PinPriority(t, y)>>
          /\ F[i].final = PreferencesPath(y)
      BY <2>1, <2>3 DEF PreferencesFile
    <3> QED
      BY <2>3, <3>1
  <2> QED
    BY <2>2, <2>3
<1>9. ASSUME NEW y \in Range(x.repos), ~HasOwnFiles(y), y.url # <<>>, ~RepoMayUpgrade(x, y)
      PROVE  /\ Displaced(x, y) \/ Pinned(x, y)
             /\ \A f \in DOMAIN x.system.files : Upgrading(Stanzas(x.system.files[f]), Origin(y)) # {} =>
                   \E o \in Range(x.repos) : Brings(x, o, f, y)
  <2>1. PICK i \in DOMAIN t.repos : y = t.repos[i]
    BY <1>6 DEF Range
  <2>2. Origin(y) # ""
    <3>1. IsRepository(y)
      BY <1>6 DEF IsTemplate
    <3> QED
      BY <1>9, <3>1 DEF IsRepository, Origin
  <2>3. ASSUME NEW u \in Range(t.repos), ~HasOwnFiles(u), Origin(u) = Origin(y)
        PROVE  PinPriority(t, u) <= NoUpgradePinPriority
    <3>1. u.priority \in Int
      BY <2>3 DEF IsTemplate, IsRepository
    <3>2. RepoUpgradeAllowed(t, u) = RepoUpgradeAllowed(t, y)
      BY <1>6, <1>9, <2>2, <2>3 DEF Agree
    <3>3. ~RepoMayUpgrade(t, u)
      BY <1>7, <1>9, <3>2 DEF RepoMayUpgrade
    <3> QED
      BY <3>1, <3>3, PinIsLow
  <2>4. ASSUME ~Displaced(x, y) PROVE Pinned(x, y)
    <3>1. i \in DOMAIN F /\ F[i].final = PreferencesPath(y)
      <4>1. i \in DOMAIN F
        BY <1>3, <1>9, <2>1, <2>2 DEF HasPreferences
      <4> QED
        BY <1>8, <1>9, <2>1, <4>1
    <3>2. PICK j \in DOMAIN F : F[j].final = F[i].final /\ x.system.files[F[i].final] = F[j].local
      BY <1>4, <3>1
    <3> PICK o : o = t.repos[j]
      OBVIOUS
    <3>3. o \in Range(t.repos) /\ o \in Range(x.repos)
      BY <1>3, <1>6
    <3>4. ~HasOwnFiles(o)
      BY <1>8, <2>4, <3>1, <3>2, <3>3 DEF Displaced
    <3>5. F[j].local = <<"pin", Origin(o), PinPriority(t, o)>> /\ F[j].final = PreferencesPath(o)
      BY <1>8, <3>4
    <3>6. Origin(o) = Origin(y)
      BY <2>4, <3>1, <3>2, <3>3, <3>5 DEF Displaced
    <3>7. PinPriority(t, o) <= NoUpgradePinPriority
      BY <2>3, <3>3, <3>4, <3>6
    <3> DEFINE l == F[j].local
    <3>8. l[1] = "pin" /\ l[2] = Origin(y) /\ l[3] <= NoUpgradePinPriority
      BY <3>5, <3>6, <3>7
    <3>9. PreferencesPath(y) \in DOMAIN x.system.files /\ x.system.files[PreferencesPath(y)] = l
      BY <1>4, <3>1, <3>2
    <3> QED
      BY <3>8, <3>9 DEF Pinned
  <2>5. ASSUME NEW f \in DOMAIN x.system.files, Upgrading(Stanzas(x.system.files[f]), Origin(y)) # {}
        PROVE  \E o \in Range(x.repos) : Brings(x, o, f, y)
    <3>1. Stanzas(x.system.files[f]) # {}
      BY <2>5 DEF Upgrading
    <3>2. ~(f \in DOMAIN t.system.files /\ x.system.files[f] = t.system.files[f])
      BY <3>1, StanzasOf DEF IsTemplate
    <3>3. PICK k \in DOMAIN F : f = F[k].final /\ x.system.files[f] = F[k].local
      BY <1>4, <3>2
    <3> PICK u : u = t.repos[k]
      OBVIOUS
    <3>4. u \in Range(t.repos) /\ u \in Range(x.repos)
      BY <1>3, <1>6
    <3>5. CASE ~HasOwnFiles(u)
      <4>1. x.system.files[f] = <<"pin", Origin(u), PinPriority(t, u)>>
        BY <1>8, <3>3, <3>5
      <4>2. Stanzas(x.system.files[f]) = {[packages |-> "*", origin |-> Origin(u), priority |-> PinPriority(t, u)]}
        BY <4>1, StanzasOf
      <4>3. Origin(u) \in {"", Origin(y)} /\ PinPriority(t, u) > NoUpgradePinPriority
        BY <2>5, <4>2, UpgradingOne
      <4>4. HasPreferences(u)
        BY <1>3
      <4>5. Origin(u) # ""
        BY <3>5, <4>4 DEF HasPreferences
      <4>6. PinPriority(t, u) <= NoUpgradePinPriority
        BY <2>3, <3>4, <3>5, <4>3, <4>5
      <4>7. PinPriority(t, u) \in Int
        <5>1. u.priority \in Int
          BY <3>4, <3>5 DEF IsTemplate, IsRepository
        <5> QED
          BY <5>1 DEF PinPriority, NoUpgradePinPriority
      <4> DEFINE p == PinPriority(t, u)
      <4>8. p \in Int /\ p > 50 /\ p <= 50
        BY <4>3, <4>6, <4>7 DEF NoUpgradePinPriority
      <4> HIDE DEF p
      <4> QED
        BY <4>8
    <3>6. CASE HasOwnFiles(u)
      <4>1. x.system.files[f] = <<"own pins", u.own[1].pins>> /\ f = u.own[1].prefsFile
        BY <1>8, <3>3, <3>6
      <4>2. Stanzas(x.system.files[f]) = Range(u.own[1].pins)
        BY <4>1, StanzasOf
      <4>3. RepoMayUpgrade(x, u)
        BY <1>1, <1>7, <3>4, <3>6
      <4> QED
        BY <2>5, <3>4, <3>6, <4>1, <4>2, <4>3 DEF Brings
    <3> QED
      BY <3>5, <3>6
  <2> QED
    BY <2>4, <2>5
<1>10. IsPinned(x)
  BY <1>9 DEF IsPinned
<1>11. \A f \in DOMAIN x.system.files :
          (f \in DOMAIN t.system.files /\ x.system.files[f] = t.system.files[f]) \/ Apart(t, f)
  BY <1>4, <1>5
<1> QED
  BY <1>4, <1>10, <1>11 DEF x

(* What a template is that has what apt needs. *)
Generated(t) ==
  /\ Kept(t) /\ RebootAfterIsLast(t.system.scripts)
  /\ Alone(t) \/ \A f \in DOMAIN t.system.files \ OwnKeys(t) : NotGenerated(t, f)
  /\ IsDEBBasedTarget(t.target) /\ (\E x \in Range(t.repos) : IsListed(x)) => IsPinned(t)

(* With nothing to list nothing is pinned.                                   *)
LEMMA InstalledIsGenerated ==
  ASSUME NEW t, Installed(t), ~IsDEBBasedTarget(t.target) \/ ~\E x \in Range(t.repos) : IsListed(x)
  PROVE  Generated(t)
BY DEF Installed, Generated, ValidateAdditionalFilesNotGenerated

(* All that is written before the pins is such a change,                     *)
LEMMA ListsGenerated ==
  ASSUME NEW t, Installed(t), Shaped(t), NEW keys,
         NEW a, a = Accept(t) \/ a = AddAptSourcesFile(t), a # Refused,
         NEW b, b = AddOwnSourcesListFiles(a[1]), b # Refused,
         NEW c, c = DownloadAndAddGPGKeys(b[1], keys), c # Refused
  PROVE  Grows(c[1], t)
<1>1. IsList(t.repos) /\ \A y \in Range(t.repos) : HasOwnFiles(y) => IsOwn(y)
  BY DEF Installed, IsTemplate
<1>2. Grows(a[1], t)
  <2>1. CASE a = Accept(t)
    <3>1. a[1] = t
      BY <2>1 DEF Accept
    <3> DEFINE y == a[1]
    <3> HIDE DEF y
    <3>2. y = t
      BY <3>1 DEF y
    <3>3. Grows(y, t)
      BY <3>2 DEF Grows, Same
    <3> QED
      BY <3>3 DEF y
  <2>2. CASE a = AddAptSourcesFile(t)
    BY <2>2, SourcesAdded
  <2> QED
    BY <2>1, <2>2
<1>3. Shaped(a[1]) /\ a[1].repos = t.repos
  BY <1>2, SameApart DEF Grows
<1>4. Grows(b[1], a[1])
  BY <1>1, <1>3, OwnListsAdded
<1>5. Shaped(b[1]) /\ b[1].repos = t.repos
  BY <1>3, <1>4, SameApart DEF Grows
<1>6. Grows(c[1], b[1])
  BY <1>1, <1>5, SigningKeysAdded
<1>7. Grows(b[1], t)
  BY <1>2, <1>4, GrowsOn
<1> QED
  BY <1>6, <1>7, GrowsOn

(* and with the pins it is what the image gets.                              *)
LEMMA PinsGenerated ==
  ASSUME NEW t, Installed(t), Shaped(t), NEW y, Grows(y, t),
         NEW r, r = GenerateAptPreferencesFromRepositories(y), r # Refused
  PROVE  Generated(r[1])
<1> DEFINE x == r[1]
<1>1. Same(y, t, {"files"}) /\ Shaped(y)
  BY DEF Grows, Same
<1>2. /\ y.repos = t.repos /\ y.target = t.target /\ y.system.scripts = t.system.scripts
      /\ y.system.oep = t.system.oep
      /\ y.system.aptPolicy = t.system.aptPolicy
  BY <1>1, SameFields
<1>3. HostFiles(y)
  BY DEF Grows, HostFiles, Installed, IsTemplate
<1>4. IsTemplate(y)
  BY <1>1, <1>2, <1>3 DEF Installed, IsTemplate, Shaped, HostFiles
<1>5. Agree(y)
  <2>1. \A z : RepoUpgradeAllowed(y, z) = RepoUpgradeAllowed(t, z)
    BY <1>2 DEF RepoUpgradeAllowed
  <2> QED
    BY <1>2, <2>1 DEF Installed, Agree
<1>6. \A z \in Range(y.repos) : HasOwnFiles(z) => IsOwn(z)
  BY <1>2 DEF Installed
<1>7. /\ Same(x, y, {"files"})
      /\ Kept(y) => Kept(x)
      /\ \A f \in DOMAIN x.system.files :
            (f \in DOMAIN y.system.files /\ x.system.files[f] = y.system.files[f]) \/ Apart(y, f)
      /\ IsPinned(x)
  BY <1>1, <1>4, <1>5, <1>6, PinsAdded
<1> HIDE DEF x
<1>8. Same(x, t, {"files"})
  BY <1>1, <1>7, SameTwice
<1>9. /\ x.repos = t.repos /\ x.system.scripts = t.system.scripts /\ x.system.oep = t.system.oep
  BY <1>8, SameFields
<1>10. Kept(x)
  BY <1>7 DEF Grows, Installed
<1>11. \A f : (Apart(y, f) <=> Apart(t, f)) /\ (Apart(x, f) <=> Apart(t, f))
  BY <1>1, <1>8, SameApart
<1>12. OwnKeys(x) = OwnKeys(t)
  BY <1>8, SameApart
<1>13. \A f \in DOMAIN x.system.files \ OwnKeys(x) :
          (f \in DOMAIN t.system.files /\ x.system.files[f] = t.system.files[f]) \/ Apart(x, f)
  BY <1>7, <1>11, <1>12 DEF Grows
<1>14. GeneratedProvisioningPaths(x) = GeneratedProvisioningPaths(t)
  BY <1>8, SameGenerated
<1>15. ASSUME ~Alone(x), NEW f \in DOMAIN x.system.files \ OwnKeys(x) PROVE NotGenerated(x, f)
  <2>1. ValidateAdditionalFilesNotGenerated(t)
    BY <1>9, <1>15 DEF Installed, Alone
  <2>2. CASE Apart(x, f)
    BY <2>2, ApartIsFree
  <2>3. CASE f \in DOMAIN t.system.files /\ x.system.files[f] = t.system.files[f]
    BY <1>14, <2>1, <2>3, StaysFree DEF ValidateAdditionalFilesNotGenerated
  <2> QED
    BY <1>13, <2>2, <2>3
<1>16. RebootAfterIsLast(x.system.scripts)
  BY <1>9 DEF Installed
<1>17. Generated(x)
  BY <1>7, <1>10, <1>15, <1>16 DEF Generated
<1> QED
  BY <1>17 DEF x

LEMMA AptGenerated ==
  ASSUME NEW t, Installed(t), NEW keys, NEW r, r = GenerateAptSourcesFromRepositories(t, keys), r # Refused
  PROVE  Generated(r[1])
<1> DEFINE x == [t EXCEPT !.repos = NormalizeRepositoryPriorities(@)]
           some == \E y \in Range(x.repos) : IsListed(y)
           a == IF some THEN AddAptSourcesFile(x) ELSE Accept(x)
           b == AddOwnSourcesListFiles(a[1])
           c == DownloadAndAddGPGKeys(b[1], keys)
           d == GenerateAptPreferencesFromRepositories(c[1])
           generated == Then(Then(Then(a, AddOwnSourcesListFiles), LAMBDA y : DownloadAndAddGPGKeys(y, keys)),
                             GenerateAptPreferencesFromRepositories)
<1>1. Installed(x) /\ Shaped(x)
  BY Prioritized
<1>2. r = IF t.repos = <<>> \/ ~IsDEBBasedTarget(t.target) THEN Accept(t)
          ELSE IF \E y \in Range(x.repos) : IsListed(y) \/ HasOwnFiles(y) THEN generated ELSE Accept(x)
  <2> DEFINE first(y) == IF \E z \in Range(y.repos) : IsListed(z) THEN AddAptSourcesFile(y) ELSE Accept(y)
             body(y) == IF \E z \in Range(y.repos) : IsListed(z) \/ HasOwnFiles(z)
                        THEN Then(Then(Then(first(y), AddOwnSourcesListFiles),
                                       LAMBDA z : DownloadAndAddGPGKeys(z, keys)),
                                  GenerateAptPreferencesFromRepositories)
                        ELSE Accept(y)
  <2>1. r = IF t.repos = <<>> \/ ~IsDEBBasedTarget(t.target) THEN Accept(t)
            ELSE With(x, LAMBDA y : body(y))
    BY DEF GenerateAptSourcesFromRepositories
  <2>2. With(x, LAMBDA y : body(y)) = body(x)
    <3> HIDE DEF body, x
    <3> QED
      BY DEF With
  <2> HIDE DEF x
  <2> QED
    BY <2>1, <2>2
<1>3. CASE t.repos = <<>> \/ ~IsDEBBasedTarget(t.target)
  <2>1. r[1] = t
    BY <1>2, <1>3 DEF Accept
  <2>2. t.repos = <<>> => ~\E y \in Range(t.repos) : IsListed(y)
    BY DEF Range
  <2> QED
    BY <1>3, <2>1, <2>2, InstalledIsGenerated
<1> HIDE DEF x
<1>4. CASE r = Accept(x) /\ ~some
  <2>1. r[1] = x
    BY <1>4 DEF Accept
  <2> QED
    BY <1>1, <1>4, <2>1, InstalledIsGenerated
<1>5. CASE r = generated
  <2>1. a # Refused /\ b # Refused /\ c # Refused /\ r = d
    <3> HIDE DEF a
    <3> DEFINE own == Then(a, AddOwnSourcesListFiles)
               signed == Then(own, LAMBDA y : DownloadAndAddGPGKeys(y, keys))
    <3>1. r = Then(signed, GenerateAptPreferencesFromRepositories)
      BY <1>5
    <3> HIDE DEF signed
    <3>2. signed # Refused /\ r = GenerateAptPreferencesFromRepositories(signed[1])
      BY <3>1 DEF Then, With
    <3>3. signed = Then(own, LAMBDA y : DownloadAndAddGPGKeys(y, keys))
      BY DEF signed
    <3> HIDE DEF own
    <3>4. own # Refused /\ signed = DownloadAndAddGPGKeys(own[1], keys)
      BY <3>2, <3>3 DEF Then, With
    <3>5. own = Then(a, AddOwnSourcesListFiles)
      BY DEF own
    <3>6. a # Refused /\ own = b
      BY <3>4, <3>5 DEF Then, With
    <3> QED
      BY <3>2, <3>4, <3>6
  <2>2. a = Accept(x) \/ a = AddAptSourcesFile(x)
    OBVIOUS
  <2> HIDE DEF a, b, c, d
  <2>3. b = AddOwnSourcesListFiles(a[1])
    BY DEF b
  <2>4. c = DownloadAndAddGPGKeys(b[1], keys)
    BY DEF c
  <2>5. r = GenerateAptPreferencesFromRepositories(c[1])
    BY <2>1 DEF d
  <2>6. Grows(c[1], x)
    BY <1>1, <2>1, <2>2, <2>3, <2>4, ListsGenerated
  <2> QED
    BY <1>1, <2>5, <2>6, PinsGenerated
<1>6. r = Accept(x) => ~some \/ r = generated \/ t.repos = <<>> \/ ~IsDEBBasedTarget(t.target)
  <2> HIDE DEF generated
  <2> QED
    BY <1>2
<1> QED
  <2> HIDE DEF generated
  <2> QED
    BY <1>2, <1>3, <1>4, <1>5, <1>6

-----------------------------------------------------------------------------
(* The way of a template *)

(* What has become of a template at each point of its way. *)
WayInv ==
  /\ pc = "merged" /\ template # <<>> => Merged(template[1])
  /\ pc = "oep" => Merged(template[1]) /\ ~IsOverlayMode(template[1])
  /\ pc = "apt" => Installed(template[1])
  /\ pc = "download" => Generated(template[1])
  /\ pc \in {"image", "done"} =>
        \/ /\ IsOverlayMode(template[1])
           /\ ~template[1].system.immutability.enabled /\ template[1].system.aptPolicy = <<>>
        \/ Generated(template[1])

(* What is assumed of the world.                                             *)
LEMMA WorldKnown ==
  ASSUME ChainInv
  PROVE  /\ \A f \in DOMAIN world.host : IsHostFile(f)
         /\ IsList(world.oep) /\ \A d \in Range(world.oep) : d.repo # <<>> => IsOepRepository(d.repo[1])
BY LayersAssumption DEF ChainInv, FilesInv

(* The steps of the build, and then all of them.                             *)
LEMMA OverriddenStep ==
  ASSUME ChainInv, WayInv, BuildOverridden
  PROVE  WayInv'
<1> DEFINE r == Then(template, LAMBDA t : ApplyCompositionOverrides(t, world.overrides, world.host))
<1>1. pc = "merged" /\ (Fail \/ (r # Refused /\ Become(r, IF IsOverlayMode(r[1]) THEN "image" ELSE "oep")))
  <2>1. pc = "merged" /\ IF r = Refused THEN Fail ELSE Become(r, IF IsOverlayMode(r[1]) THEN "image" ELSE "oep")
    BY DEF BuildOverridden
  <2> HIDE DEF r
  <2> QED
    BY <2>1
<1>2. CASE Fail
  BY <1>2 DEF Fail, WayInv
<1>3. CASE r # Refused /\ Become(r, IF IsOverlayMode(r[1]) THEN "image" ELSE "oep")
  <2>1. template # <<>> /\ r = ApplyCompositionOverrides(template[1], world.overrides, world.host)
    BY <1>3 DEF Then, With, Refused
  <2>2. Merged(template[1])
    BY <1>1, <2>1 DEF WayInv
  <2> HIDE DEF r
  <2>3. Merged(r[1])
    BY <1>3, <2>1, <2>2, Overridden
  <2>4. template' = r /\ pc' = IF IsOverlayMode(r[1]) THEN "image" ELSE "oep"
    BY <1>3 DEF Become
  <2>5. CASE IsOverlayMode(r[1])
    BY <2>3, <2>4, <2>5 DEF WayInv, Merged
  <2>6. CASE ~IsOverlayMode(r[1])
    BY <2>3, <2>4, <2>6 DEF WayInv
  <2> QED
    BY <2>5, <2>6
<1> QED
  BY <1>1, <1>2, <1>3

LEMMA InstallerStep ==
  ASSUME ChainInv, WayInv, ApplyOEPInstaller
  PROVE  WayInv'
<1> DEFINE t == template[1]
           q == Apply(t, Requirements(world.oep))
           both == Then(q, LAMBDA x : AddFirstBoot(x, world.host))
           r == IF t.system.oep = <<>> THEN Accept(t)
                ELSE IF ~Parse(world.oep, t.system.oep[1]) THEN Refused ELSE both
<1>1. pc = "oep" /\ (Fail \/ (r # Refused /\ Become(r, "apt")))
  <2>1. pc = "oep" /\ IF r = Refused THEN Fail ELSE Become(r, "apt")
    BY DEF ApplyOEPInstaller
  <2> HIDE DEF r
  <2> QED
    BY <2>1
<1>2. Merged(t) /\ ~IsOverlayMode(t)
  BY <1>1 DEF WayInv
<1> HIDE DEF both, t
<1>3. CASE Fail
  BY <1>3 DEF Fail, WayInv
<1>4. CASE r # Refused /\ Become(r, "apt")
  <2>1. CASE t.system.oep = <<>>
    <3>1. template' = Accept(t) /\ pc' = "apt"
      BY <1>4, <2>1 DEF Become
    <3>2. template'[1] = t
      BY <3>1 DEF Accept
    <3>3. Installed(t)
      BY <1>2, MergedIsInstalled
    <3> QED
      BY <3>1, <3>2, <3>3 DEF WayInv
  <2>2. CASE t.system.oep # <<>>
    <3>1. template' = both /\ pc' = "apt" /\ both # Refused
      BY <1>4, <2>2 DEF Become
    <3> HIDE DEF q
    <3>2. q # Refused /\ both = AddFirstBoot(q[1], world.host)
      BY <3>1 DEF both, Then, With
    <3>3. /\ Installed(q[1]) /\ ValidateAdditionalFilesNotGenerated(q[1])
          /\ q[1].system.oep = t.system.oep
      BY <1>2, <3>2, AppliedIs, WorldKnown DEF q
    <3>4. \A f \in DOMAIN world.host : IsHostFile(f)
      BY WorldKnown
    <3>5. Installed(both[1])
      BY <2>2, <3>1, <3>2, <3>3, <3>4, FirstBootAdded
    <3> QED
      BY <3>1, <3>5 DEF WayInv
  <2> QED
    BY <2>1, <2>2
<1> QED
  BY <1>1, <1>3, <1>4

LEMMA WayStep ==
  ASSUME ChainInv, LayersInv, WayInv, [TemplateNext]_templateVars
  PROVE  WayInv'
<1>1. CASE LoadFails
  BY <1>1 DEF LoadFails, WayInv
<1>2. CASE LoadParent
  BY <1>2 DEF LoadParent, WayInv
<1>3. CASE LoadAndMergeTemplate
  <2>1. template' # <<>> => Merged(template'[1])
    BY <1>3, TemplateLoaded
  <2>2. pc' = "merged"
    BY <1>3 DEF LoadAndMergeTemplate
  <2> QED
    BY <2>1, <2>2 DEF WayInv
<1>4. ASSUME pc' \in {"failed", "delta", "resolve", "load", "composed"} PROVE WayInv'
  BY <1>4 DEF WayInv
<1>5. CASE ComposeParent
  BY <1>4, <1>5 DEF ComposeParent, Fail
<1>6. CASE DeltaForOverride
  BY <1>4, <1>6 DEF DeltaForOverride, Fail
<1>7. CASE ResolveDelta
  BY <1>4, <1>7 DEF ResolveDelta, Load
<1>8. CASE ComposeResult
  BY <1>4, <1>8 DEF ComposeResult, Fail, Load
<1>9. CASE ComposeBase
  BY <1>4, <1>9 DEF ComposeBase
<1>10. CASE CheckTemplateCredentials
  BY <1>4, <1>10 DEF CheckTemplateCredentials, Fail, Load
<1>11. CASE BuildOverridden
  BY <1>11, OverriddenStep
<1>12. CASE ApplyOEPInstaller
  BY <1>12, InstallerStep
<1>13. CASE GenerateAptSources
  <2> DEFINE r == GenerateAptSourcesFromRepositories(template[1], world.keys)
  <2>1. pc = "apt" /\ (Fail \/ (r # Refused /\ Become(r, "download")))
    <3>1. pc = "apt" /\ IF r = Refused THEN Fail ELSE Become(r, "download")
      BY <1>13 DEF GenerateAptSources
    <3> HIDE DEF r
    <3> QED
      BY <3>1
  <2>2. Installed(template[1])
    BY <2>1 DEF WayInv
  <2>3. CASE Fail
    BY <1>4, <2>3 DEF Fail
  <2>4. CASE r # Refused /\ Become(r, "download")
    <3>1. Generated(r[1])
      BY <2>2, <2>4, AptGenerated
    <3> HIDE DEF r
    <3>2. template' = r /\ pc' = "download"
      BY <2>4 DEF Become
    <3> QED
      BY <3>1, <3>2 DEF WayInv
  <2> QED
    BY <2>1, <2>3, <2>4
<1>14. CASE DownloadImagePkgs
  <2>1. pc = "download" /\ (Fail \/ Become(template, "image"))
    BY <1>14 DEF DownloadImagePkgs
  <2>2. CASE Fail
    BY <1>4, <2>2 DEF Fail
  <2>3. CASE Become(template, "image")
    BY <2>1, <2>3 DEF Become, WayInv
  <2> QED
    BY <2>1, <2>2, <2>3
<1>15. CASE CreateUsers
  <2>1. pc = "image" /\ (Fail \/ Become(template, "done"))
    BY <1>15 DEF CreateUsers
  <2>2. CASE Fail
    BY <1>4, <2>2 DEF Fail
  <2>3. CASE Become(template, "done")
    BY <2>1, <2>3 DEF Become, WayInv
  <2> QED
    BY <2>1, <2>2, <2>3
<1>16. CASE UNCHANGED templateVars
  BY <1>16 DEF templateVars, WayInv
<1> QED
  BY <1>1, <1>2, <1>3, <1>5, <1>6, <1>7, <1>8, <1>9, <1>10, <1>11, <1>12, <1>13, <1>14, <1>15, <1>16
  DEF TemplateNext

TemplateInv == ChainInv /\ LayersInv /\ WayInv

(* The invariant holds first, and after each step.                           *)
LEMMA TemplateInvInit == ASSUME TemplateInit PROVE TemplateInv
<1>1. pc \in {"load", "delta"}
  BY DEF TemplateInit
<1> QED
  BY <1>1, ChainInit, LayersInit DEF TemplateInv, WayInv

LEMMA TemplateInvStep == ASSUME TemplateInv, [TemplateNext]_templateVars PROVE TemplateInv'
BY ChainStep, LayersStep, WayStep DEF TemplateInv

(* From the invariant follow both properties.                                *)
LEMMA KeptSurvive ==
  ASSUME NEW t, Kept(t), NEW x \in Range(t.system.scripts)
  PROVE  /\ x.final \in DOMAIN t.system.files /\ t.system.files[x.final] = x.local
         /\ \A f \in DOMAIN t.system.files : Overlaps(f, x.final) => f = x.final
BY DEF Kept, Holds

LEMMA Survive ==
  ASSUME TemplateInv
  PROVE  ScriptsSurvive
<1> DEFINE t == template[1]
           ownKeys == {r.own[1].keyFile : r \in {x \in Range(t.repos) : HasOwnFiles(x)}}
<1> SUFFICES ASSUME Underway, ~IsOverlayMode(t)
             PROVE  /\ Kept(t) /\ RebootAfterIsLast(t.system.scripts)
                    /\ Alone(t) \/ \A f \in DOMAIN t.system.files \ ownKeys : NotGenerated(t, f)
  BY KeptSurvive DEF ScriptsSurvive, Alone
<1>1. Merged(t) \/ Installed(t) \/ Generated(t)
  BY DEF Underway, TemplateInv, WayInv
<1>2. ownKeys = OwnKeys(t)
  BY DEF OwnKeys
<1> HIDE DEF t, ownKeys
<1>3. CASE Merged(t)
  BY <1>3 DEF Merged, ValidateAdditionalFilesNotGenerated
<1>4. CASE Installed(t)
  BY <1>4 DEF Installed, ValidateAdditionalFilesNotGenerated
<1>5. CASE Generated(t)
  BY <1>2, <1>5 DEF Generated
<1> QED
  BY <1>1, <1>3, <1>4, <1>5

LEMMA Denied ==
  ASSUME TemplateInv
  PROVE  DeniedRaisedOnlyByInstaller
<1> DEFINE t == template[1]
<1> SUFFICES ASSUME pc \in {"download", "image", "done"}, IsDEBBasedTarget(t.target),
                    \E x \in Range(t.repos) : IsListed(x)
             PROVE  IsPinned(t)
  BY DEF DeniedRaisedOnlyByInstaller, IsPinned, Displaced, Pinned, Brings
<1>1. (~t.system.immutability.enabled /\ t.system.aptPolicy = <<>>) \/ Generated(t)
  BY DEF TemplateInv, WayInv
<1> HIDE DEF t
<1>2. CASE ~t.system.immutability.enabled /\ t.system.aptPolicy = <<>>
  BY <1>2 DEF RepoMayUpgrade, RepoUpgradeAllowed, IsPinned
<1>3. CASE Generated(t)
  BY <1>3 DEF Generated
<1> QED
  BY <1>1, <1>2, <1>3

(* ScriptsSurvive: whichever layer, flag, installer or repository comes later,*)
(* the file of each script is its own and nothing lies over it               *)
(* (addGeneratedAdditionalFile, lowerScripts).                               *)
THEOREM ScriptsStay == TemplateSpec => []ScriptsSurvive
<1>1. TemplateInit => TemplateInv
  BY TemplateInvInit
<1>2. TemplateInv /\ [TemplateNext]_templateVars => TemplateInv'
  BY TemplateInvStep
<1>3. TemplateInv => ScriptsSurvive
  BY Survive
<1> QED
  BY <1>1, <1>2, <1>3, PTL DEF TemplateSpec

(* DeniedRaisedOnlyByInstaller: a repository denied upgrades has a pin in the  *)
(* image unless its file was written over, and of all the preferences there   *)
(* are only an own file of one of the installer's repositories says more of   *)
(* its host (GenerateAptPreferencesFromRepositories).                         *)
THEOREM DeniedRaisedByInstaller == TemplateSpec => []DeniedRaisedOnlyByInstaller
<1>1. TemplateInit => TemplateInv
  BY TemplateInvInit
<1>2. TemplateInv /\ [TemplateNext]_templateVars => TemplateInv'
  BY TemplateInvStep
<1>3. TemplateInv => DeniedRaisedOnlyByInstaller
  BY Denied
<1> QED
  BY <1>1, <1>2, <1>3, PTL DEF TemplateSpec

-----------------------------------------------------------------------------
(* What the service composes *)

(* The layers of a chain, from the one that extends nothing, and what they are *)
(* loaded as.                                                                *)
ChainLayers(c) == [i \in 1..Len(c) |-> c[(Len(c) - i) + 1].layer]
ChainUser(c) == FoldChain(ChainLayers(c)[1], Tail(ChainLayers(c)))
Loaded(c) ==
  LET user == [ChainUser(c) EXCEPT !.extends = <<>>]
  IN  IF IsOverlayMode(user) THEN LoadOverlay(user)
      ELSE LoadFinal(IF world.default = <<>> THEN user ELSE FoldChain(world.default[1], ChainLayers(c)))

(* A chain is a walk through the files that what a layer extends leads on, to *)
(* the one that extends nothing.                                             *)
IsWalk(c, path, fs) ==
  /\ c \in Seq(Range(c)) /\ c # <<>> /\ c[1].path = path
  /\ \A i \in DOMAIN c :
        LET at == CanonicalPath(c[i].path) IN
        /\ at \in DOMAIN fs /\ c[i].layer = fs[at] /\ c[i].layer.target = c[1].layer.target
        /\ \A j \in DOMAIN c : CanonicalPath(c[j].path) = at => j = i
  /\ \A i \in 1..(Len(c) - 1) :
        /\ c[i].layer.extends # <<>>
        /\ c[i + 1].path = ResolveExtendsParentPath(c[i].path, c[i].layer.extends)
IsWhole(c, path, fs) == IsWalk(c, path, fs) /\ c[Len(c)].layer.extends = <<>>

(* From where they meet, two walks are one.                                  *)
LEMMA WalksAgree ==
  ASSUME NEW fs, NEW p, NEW q, NEW a, NEW b, IsWhole(a, p, fs), IsWhole(b, q, fs),
         NEW k \in Nat, k < Len(a), a[k + 1].path = q
  PROVE  /\ Len(a) = k + Len(b)
         /\ \A i \in 1..Len(b) : a[k + i].path = b[i].path /\ a[k + i].layer = b[i].layer
<1> DEFINE m == Len(a)
           n == Len(b)
           S == {i \in Nat : i + 1 <= n => k + i + 1 <= m /\ a[k + i + 1].path = b[i + 1].path}
<1>1. m \in Nat /\ n \in Nat /\ n >= 1 /\ DOMAIN a = 1..m /\ DOMAIN b = 1..n
  <2>1. a \in Seq(Range(a)) /\ b \in Seq(Range(b)) /\ b # <<>>
    BY DEF IsWhole, IsWalk
  <2> QED
    BY <2>1
<1>2. /\ \A i \in 1..m : a[i].layer = fs[CanonicalPath(a[i].path)]
      /\ \A i \in 1..n : b[i].layer = fs[CanonicalPath(b[i].path)]
      /\ b[1].path = q
  BY <1>1 DEF IsWhole, IsWalk
<1>3. /\ \A i \in 1..(m - 1) : /\ a[i].layer.extends # <<>>
                               /\ a[i + 1].path = ResolveExtendsParentPath(a[i].path, a[i].layer.extends)
      /\ \A i \in 1..(n - 1) : /\ b[i].layer.extends # <<>>
                               /\ b[i + 1].path = ResolveExtendsParentPath(b[i].path, b[i].layer.extends)
      /\ a[m].layer.extends = <<>> /\ b[n].layer.extends = <<>>
  BY DEF IsWhole, IsWalk
<1> HIDE DEF m, n
<1>4. 0 \in S
  BY <1>2 DEF m
<1>5. ASSUME NEW i \in S PROVE i + 1 \in S
  <2> SUFFICES ASSUME i + 2 <= n
               PROVE  k + i + 2 <= m /\ a[k + i + 2].path = b[i + 2].path
    OBVIOUS
  <2> DEFINE x == k + i + 1
             y == i + 1
  <2>1. /\ x \in Nat /\ y \in Nat /\ x \in 1..m /\ y \in 1..(n - 1) /\ y \in 1..n
        /\ a[x].path = b[y].path /\ k + i + 2 = x + 1 /\ i + 2 = y + 1
    BY <1>1
  <2> HIDE DEF x, y
  <2>2. a[x].layer = b[y].layer
    BY <1>2, <2>1
  <2>3. b[y].layer.extends # <<>> /\ b[y + 1].path = ResolveExtendsParentPath(b[y].path, b[y].layer.extends)
    BY <1>3, <2>1
  <2>4. x # m
    BY <1>3, <2>2, <2>3
  <2>5. x \in 1..(m - 1) /\ x + 1 <= m
    BY <1>1, <2>1, <2>4
  <2>6. a[x + 1].path = ResolveExtendsParentPath(a[x].path, a[x].layer.extends)
    BY <1>3, <2>5
  <2> QED
    BY <2>1, <2>2, <2>3, <2>5, <2>6
<1>6. S = Nat
  <2> HIDE DEF S
  <2>1. S \in SUBSET Nat
    BY DEF S
  <2> QED
    BY <1>4, <1>5, <2>1, Climb
<1>7. ASSUME NEW i \in 1..n
      PROVE  k + i \in 1..m /\ a[k + i].path = b[i].path /\ a[k + i].layer = b[i].layer
  <2>0. i - 1 \in Nat /\ (i - 1) + 1 = i /\ k + (i - 1) + 1 = k + i
    BY <1>1
  <2>1. i - 1 \in S
    <3> HIDE DEF S
    <3> QED
      BY <1>6, <2>0
  <2>2. k + i \in 1..m /\ a[k + i].path = b[i].path
    BY <1>1, <2>0, <2>1
  <2> QED
    BY <1>2, <2>2
<1>8. k + n = m
  <2>1. k + n \in 1..m /\ a[k + n].layer.extends = <<>>
    BY <1>1, <1>3, <1>7
  <2> QED
    BY <1>1, <1>3, <2>1
<1> QED
  BY <1>7, <1>8 DEF m, n

(* Two that are one are loaded as one.                                       *)
LEMMA LoadedAlike ==
  ASSUME NEW a, NEW b, Len(a) = Len(b), Len(b) \in Nat, \A i \in 1..Len(b) : a[i].layer = b[i].layer
  PROVE  ChainLayers(a) = ChainLayers(b) /\ Loaded(a) = Loaded(b)
<1> DEFINE n == Len(b)
<1>1. \A i \in 1..n : (n - i) + 1 \in 1..n
  OBVIOUS
<1>2. ChainLayers(a) = ChainLayers(b)
  BY <1>1 DEF ChainLayers
<1> QED
  BY <1>2 DEF Loaded, ChainUser

(* A path of names leads to itself where no link is,                         *)
LEMMA PlainWalk == \A p \in Seq(Names) : Walk(p, <<>>) = p
<1> DEFINE S == {n \in Nat : \A p \in Seq(Names) : Len(p) = n => Walk(p, <<>>) = p}
<1>1. 0 \in S
  <2>1. ASSUME NEW p \in Seq(Names), Len(p) = 0 PROVE Walk(p, <<>>) = p
    <3>1. p = <<>> /\ <<>> \in Seq(STRING)
      BY <2>1, EmptySeq
    <3>2. PICK at : IsWay(at, <<>>, <<>>) /\ Walk(<<>>, <<>>) = at[Len(<<>>)]
      BY <3>1, WalkIsWay
    <3>3. at[0] = <<>>
      BY <3>2 DEF IsWay
    <3> QED
      BY <3>1, <3>2, <3>3
  <2> QED
    BY <2>1
<1>2. ASSUME NEW n \in S PROVE n + 1 \in S
  <2> SUFFICES ASSUME NEW p \in Seq(Names), Len(p) = n + 1 PROVE Walk(p, <<>>) = p
    OBVIOUS
  <2>1. p # <<>> /\ n \in Nat
    OBVIOUS
  <2>2. Front(p) \in Seq(Names) /\ Len(Front(p)) = n /\ \A i \in 1..n : Front(p)[i] = p[i]
    BY <2>1, FrontIs
  <2>3. Walk(Front(p), <<>>) = Front(p)
    BY <2>2
  <2>4. Walk(p, <<>>) = Append(Front(p), Last(p))
    BY <2>1, <2>3, WalkLast
  <2> DEFINE f == Front(p)
  <2>5. Last(p) = p[n + 1] /\ p[n + 1] \in Names
    BY <2>1 DEF Last
  <2>6. Append(Front(p), Last(p)) = p
    <3> DEFINE q == Append(Front(p), Last(p))
    <3>1. q \in Seq(Names) /\ Len(q) = n + 1 /\ q[n + 1] = p[n + 1] /\ \A i \in 1..n : q[i] = p[i]
      BY <2>1, <2>2, <2>5
    <3> HIDE DEF q
    <3>2. q = p
      BY <2>1, <3>1, SeqEqual
    <3> QED
      BY <3>2 DEF q
  <2> QED
    BY <2>4, <2>6
<1>3. S = Nat
  <2> HIDE DEF S
  <2>1. S \in SUBSET Nat
    BY DEF S
  <2> QED
    BY <1>1, <1>2, <2>1, Climb
<1> QED
  BY <1>3

(* The name the delta has for the template it is made of, and the delta, from *)
(* which it leads there; the delta's own file is the one it is written to.   *)
Named == SubSeq(world.leaf, Len(world.dir) + 1, Len(world.leaf))
DeltaLayer == BuildDelta(Named, world.files[CanonicalPath(world.leaf)], world.sel,
                         world.catalogue, world.os, world.edgePack)
WithDelta == Put(world.files, DeltaPath, DeltaLayer)

LEMMA DeltaLeadsBack ==
  ASSUME FilesInv, world.request # "build"
  PROVE  /\ Named # <<>> /\ ResolveExtendsParentPath(DeltaPath, Named) = world.leaf
         /\ CanonicalPath(DeltaPath) = DeltaPath /\ DeltaPath \notin DOMAIN world.files
<1> DEFINE dir == world.dir
           leaf == world.leaf
           m == Len(dir)
           n == Len(leaf)
<1>1. /\ dir \in Seq(Names) /\ leaf \in Seq(Names) /\ DeltaPath \in Seq(Names)
      /\ m \in Nat /\ n \in Nat /\ m < n
      /\ IsPrefix(dir, leaf)
      /\ leaf[m + 1] # "/"
      /\ Walk(dir, world.links) = dir
      /\ Delta(dir) \notin DOMAIN world.files /\ Delta(dir) \notin DOMAIN world.links
  <2>1. world \in {x \in Worlds : x.request # "build"}
    BY DEF FilesInv
  <2>2. dir \in Seq(Names) /\ leaf \in Seq(Names) /\ DeltaPath \in Seq(Names)
    BY <2>1, FilesAssumption, PathsOfWorld
  <2>3. /\ m < n /\ IsPrefix(dir, leaf) /\ leaf[m + 1] # "/"
        /\ Walk(dir, world.links) = dir
        /\ Delta(dir) \notin DOMAIN world.files \cup DOMAIN world.links
    BY <2>1, SelectionAssumption
  <2> QED
    BY <2>2, <2>3
<1>2. DeltaPath = Append(dir, ".ict-adv.yml")
  BY DEF DeltaPath, Delta
<1>3. /\ Named \in Seq(Names) /\ Len(Named) = n - m
      /\ \A i \in 1..(n - m) : Named[i] = leaf[m + i]
  <2> HIDE DEF m, n, leaf
  <2>1. m + 1 \in Int /\ n \in Int /\ m + 1 <= n /\ \A i \in (m + 1)..n : leaf[i] \in Names
    BY <1>1 DEF n
  <2>2. Named = SubSeq(leaf, m + 1, n)
    BY DEF Named, leaf, m, n
  <2>3. /\ SubSeq(leaf, m + 1, n) \in Seq(Names)
        /\ Len(SubSeq(leaf, m + 1, n)) = IF m + 1 <= n THEN n - (m + 1) + 1 ELSE 0
        /\ \A i \in 1..(n - (m + 1) + 1) : SubSeq(leaf, m + 1, n)[i] = leaf[(m + 1) + i - 1]
    BY <2>1, SubSeqProperties
  <2>4. n - (m + 1) + 1 = n - m /\ \A i \in 1..(n - m) : (m + 1) + i - 1 = m + i
    BY <1>1
  <2> QED
    BY <2>1, <2>2, <2>3, <2>4
<1>4. Front(DeltaPath) = dir /\ Last(DeltaPath) = ".ict-adv.yml" /\ DeltaPath # <<>>
  <2> DEFINE q == Append(dir, ".ict-adv.yml")
  <2>0. q \in Seq(STRING) /\ dir \in Seq(STRING)
    BY <1>1, <1>2, NamesAreStrings
  <2>1. q # <<>> /\ Len(q) = m + 1 /\ q[m + 1] = ".ict-adv.yml" /\ \A i \in 1..m : q[i] = dir[i]
    <3> HIDE DEF dir
    <3> QED
      BY <2>0
  <2> HIDE DEF q, dir
  <2>3. Front(q) \in Seq(STRING) /\ Len(Front(q)) = m /\ \A i \in 1..m : Front(q)[i] = dir[i]
    BY <1>1, <2>0, <2>1, FrontIs
  <2>4. Front(q) = dir
    BY <2>0, <2>3, SeqEqual
  <2> QED
    BY <1>2, <2>1, <2>4 DEF Last, q, dir
<1>L. Len(dir) = m /\ Len(leaf) = n
  OBVIOUS
<1> HIDE DEF dir, leaf, m, n
<1>5. dir \o Named = leaf
  <2>1. 1 \in 1..(Len(leaf) + 1) /\ m \in (1 - 1)..Len(leaf) /\ Len(leaf) \in m..Len(leaf)
    BY <1>1, <1>L
  <2>2. SubSeq(leaf, 1, m) \o SubSeq(leaf, m + 1, Len(leaf)) = SubSeq(leaf, 1, Len(leaf))
    BY <1>1, <2>1, ConcatAdjacentSubSeq
  <2>3. SubSeq(leaf, 1, Len(leaf)) = leaf /\ dir = SubSeq(leaf, 1, m)
    BY <1>1, <1>L, SubSeqFull DEF IsPrefix
  <2> QED
    BY <1>L, <2>2, <2>3 DEF Named, leaf, dir
<1>6. Named[1] # "/" /\ Named # <<>>
  <2>1. 1 \in 1..(n - m)
    BY <1>1
  <2>2. Named[1] = leaf[m + 1]
    BY <1>3, <2>1
  <2> QED
    BY <1>1, <1>3, <1>L, <2>1, <2>2, EmptySeq
<1>7. ResolveExtendsParentPath(DeltaPath, Named) = leaf
  <2>1. ResolveExtendsParentPath(DeltaPath, Named) = Walk(leaf, <<>>)
    BY <1>4, <1>5, <1>6 DEF ResolveExtendsParentPath, Clean
  <2> QED
    BY <1>1, <2>1, PlainWalk
<1>8. CanonicalPath(DeltaPath) = DeltaPath
  <2>1. Append(Walk(Front(DeltaPath), world.links), Last(DeltaPath)) = DeltaPath
    BY <1>1, <1>2, <1>4
  <2>2. DeltaPath \notin DOMAIN world.links
    BY <1>1, <1>2 DEF Delta
  <2> QED
    BY <1>1, <1>4, <2>1, <2>2, WalkLast DEF CanonicalPath
<1> QED
  BY <1>1, <1>2, <1>6, <1>7, <1>8 DEF leaf, Delta

(* A chain of no layer leaves what it starts from,                          *)
LEMMA NoneMerged == ASSUME NEW base PROVE FoldChain(base, <<>>) = base
<1>1. Len(<<>>) = 0
  OBVIOUS
<1>2. PICK f : Merging(f, base, <<>>) /\ FoldChain(base, <<>>) = f[0]
  BY <1>1, ChainMerged
<1> QED
  BY <1>1, <1>2 DEF Merging

(* and the last on all that are before it.                                   *)
LEMMA LastMerged ==
  ASSUME NEW base, NEW s, NEW q, Len(s) \in Nat, Len(q) = Len(s) + 1,
         \A i \in 1..Len(s) : q[i] = s[i]
  PROVE  FoldChain(base, q) = MergeConfigurations(q[Len(q)], FoldChain(base, s))
<1> DEFINE n == Len(s)
<1>1. PICK f : Merging(f, base, s) /\ FoldChain(base, s) = f[Len(s)]
  BY ChainMerged
<1>2. PICK g : Merging(g, base, q) /\ FoldChain(base, q) = g[Len(q)]
  BY ChainMerged
<1>3. \A i \in 0..n : f[i] = IF i = 0 THEN base ELSE MergeConfigurations(s[i], f[i - 1])
  BY <1>1 DEF Merging
<1>4. \A i \in 0..(n + 1) : g[i] = IF i = 0 THEN base ELSE MergeConfigurations(q[i], g[i - 1])
  BY <1>2 DEF Merging
<1> HIDE DEF n
<1>5. n \in Nat /\ \A i \in 1..n : q[i] = s[i]
  BY DEF n
<1> DEFINE S == {i \in Nat : i <= n => g[i] = f[i]}
<1>6. 0 \in S
  BY <1>3, <1>4, <1>5
<1>7. ASSUME NEW i \in S PROVE i + 1 \in S
  <2> SUFFICES ASSUME i + 1 <= n PROVE g[i + 1] = f[i + 1]
    OBVIOUS
  <2>1. i \in Nat /\ i + 1 \in 1..n /\ i + 1 \in 0..n /\ i + 1 \in 0..(n + 1) /\ (i + 1) - 1 = i /\ g[i] = f[i]
    BY <1>5
  <2>2. g[i + 1] = MergeConfigurations(q[i + 1], g[i])
    BY <1>4, <2>1
  <2>3. f[i + 1] = MergeConfigurations(s[i + 1], f[i])
    BY <1>3, <2>1
  <2> QED
    BY <1>5, <2>1, <2>2, <2>3
<1>8. S = Nat
  <2> HIDE DEF S
  <2>1. S \in SUBSET Nat
    BY DEF S
  <2> QED
    BY <1>6, <1>7, <2>1, Climb
<1>9. g[n] = f[n]
  BY <1>5, <1>8
<1>10. g[n + 1] = MergeConfigurations(q[n + 1], g[n])
  <2>1. n + 1 \in 0..(n + 1) /\ n + 1 # 0 /\ (n + 1) - 1 = n
    BY <1>5
  <2> QED
    BY <1>4, <2>1
<1> QED
  BY <1>1, <1>2, <1>9, <1>10 DEF n

(* The sections of the layers are what is expected of them, merged too.      *)
LEMMA ListsOfBoth ==
  ASSUME NEW a, NEW b, IsList(a), IsList(b)
  PROVE  IsList(a \o b)
<1> DEFINE S == Range(a) \cup Range(b)
<1>1. a \in Seq(S) /\ b \in Seq(S)
  BY DEF IsList
<1> HIDE DEF S
<1>2. a \o b \in Seq(S)
  BY <1>1, ConcatProperties
<1> QED
  BY <1>2, ListIn

LEMMA SectionsMerged ==
  ASSUME NEW u, NEW d, Shaped(d), HasSections(u), HasSections(d)
  PROVE  HasSections(MergeConfigurations(u, d))
<1> DEFINE y == MergeConfigurations(u, d)
           x == MergeSystem(d.system, u.system)
<1>0. {"kernel", "network", "bootloader", "configurations", "files", "users"} \subseteq DOMAIN NoSystem \ {"immutability"}
  BY DEF NoSystem
<1>1. \A f \in DOMAIN NoSystem \ {"immutability"} : y.system[f] = SystemOf(u, d)[f]
  BY TemplateMerged DEF TemplateIs
<1> HIDE DEF y
<1>2. /\ y.system.kernel = SystemOf(u, d).kernel /\ y.system.network = SystemOf(u, d).network
      /\ y.system.bootloader = SystemOf(u, d).bootloader
      /\ y.system.configurations = SystemOf(u, d).configurations
      /\ y.system.files = SystemOf(u, d).files /\ y.system.users = SystemOf(u, d).users
  BY <1>0, <1>1
<1>3. CASE SystemOf(u, d) = d.system
  BY <1>2, <1>3 DEF HasSections, y
<1>4. CASE SystemOf(u, d) = x
  <2>0. DOMAIN d.system = DOMAIN NoSystem
    BY DEF Shaped
  <2>1. SystemIs(x, d.system, u.system)
    BY <2>0, SystemMerged
  <2> HIDE DEF x
  <2>2. Like(x.kernel, NoKernel)
    <3>1. x.kernel = MergeKernel(d.system.kernel, u.system.kernel)
      BY <2>1 DEF SystemIs
    <3>2. Like(d.system.kernel, NoKernel)
      BY DEF HasSections
    <3> QED
      BY <3>1, <3>2 DEF Like, MergeKernel
  <2>3. Like(x.network, NoNetwork)
    <3>1. x.network = MergeNetwork(d.system.network, u.system.network)
      BY <2>1 DEF SystemIs
    <3>2. DOMAIN NoNetwork = {"backend", "interfaces"}
      BY DEF NoNetwork
    <3> QED
      BY <3>1, <3>2 DEF Like, MergeNetwork
  <2>4. Like(x.bootloader, NoBootloader)
    <3>1. x.bootloader = MergeBootloader(d.system.bootloader, u.system.bootloader)
      BY <2>1 DEF SystemIs
    <3>2. DOMAIN NoBootloader = {"type", "provider", "policy"}
      BY DEF NoBootloader
    <3> QED
      BY <3>1, <3>2 DEF Like, MergeBootloader
  <2>5. IsList(x.configurations)
    <3>1. x.configurations = d.system.configurations \o u.system.configurations
      BY <2>1 DEF SystemIs
    <3>2. IsList(d.system.configurations) /\ IsList(u.system.configurations)
      BY DEF HasSections
    <3> QED
      BY <3>1, <3>2, ListsOfBoth
  <2>6. Like(x.files, x.files)
    <3>1. x.files = Over(d.system.files, u.system.files)
      BY <2>1 DEF SystemIs
    <3> QED
      BY <3>1 DEF Like, Over
  <2>7. ASSUME NEW n \in DOMAIN x.users PROVE Like(x.users[n], NoUser)
    <3>1. x.users = MergeUsers(d.system.users, u.system.users)
      BY <2>1 DEF SystemIs
    <3>2. /\ \A m \in DOMAIN d.system.users : Like(d.system.users[m], NoUser)
          /\ \A m \in DOMAIN u.system.users : Like(u.system.users[m], NoUser)
      BY DEF HasSections
    <3>3. ASSUME NEW a, NEW b, Like(a, NoUser) PROVE Like(MergeUser(a, b), NoUser)
      BY <3>3 DEF Like, MergeUser
    <3>4. \/ n \in DOMAIN d.system.users /\ x.users[n] = d.system.users[n]
          \/ n \in DOMAIN u.system.users /\ x.users[n] = u.system.users[n]
          \/ n \in DOMAIN d.system.users /\ x.users[n] = MergeUser(d.system.users[n], u.system.users[n])
      BY <2>7, <3>1 DEF MergeUsers
    <3> QED
      BY <3>2, <3>3, <3>4
  <2> QED
    BY <1>2, <1>4, <2>2, <2>3, <2>4, <2>5, <2>6, <2>7 DEF HasSections, y
<1> QED
  BY <1>3, <1>4 DEF SystemOf

(* and so are those of a chain of them.                                      *)
Sound(t) == Shaped(t) /\ HasSections(t)

LEMMA ChainSound ==
  ASSUME NEW base, Sound(base), NEW s, Len(s) \in Nat, \A i \in 1..Len(s) : Sound(s[i])
  PROVE  Sound(FoldChain(base, s))
<1>1. PICK f : Merging(f, base, s) /\ FoldChain(base, s) = f[Len(s)]
  BY ChainMerged
<1> DEFINE n == Len(s)
           S == {i \in Nat : i <= n => Sound(f[i])}
<1>2. \A i \in 0..n : f[i] = IF i = 0 THEN base ELSE MergeConfigurations(s[i], f[i - 1])
  BY <1>1 DEF Merging
<1> HIDE DEF n
<1>3. n \in Nat /\ \A i \in 1..n : Sound(s[i])
  BY DEF n
<1>4. 0 \in S
  BY <1>2, <1>3
<1>5. ASSUME NEW i \in S PROVE i + 1 \in S
  <2> SUFFICES ASSUME i + 1 <= n PROVE Sound(f[i + 1])
    OBVIOUS
  <2>1. i \in Nat /\ i + 1 \in 1..n /\ i + 1 \in 0..n /\ (i + 1) - 1 = i /\ Sound(f[i]) /\ Sound(s[i + 1])
    BY <1>3
  <2>2. f[i + 1] = MergeConfigurations(s[i + 1], f[i])
    BY <1>2, <2>1
  <2>3. Shaped(MergeConfigurations(s[i + 1], f[i]))
    BY <2>1, TemplateMerged DEF Sound, TemplateIs
  <2> QED
    BY <2>1, <2>2, <2>3, SectionsMerged DEF Sound
<1>6. S = Nat
  <2> HIDE DEF S
  <2>1. S \in SUBSET Nat
    BY DEF S
  <2> QED
    BY <1>4, <1>5, <2>1, Climb
<1>7. Sound(f[n])
  BY <1>3, <1>6
<1> QED
  BY <1>1, <1>7 DEF n

(* Each repository inherited has one in its place.                           *)
LEMMA LeastIs ==
  ASSUME NEW S \in SUBSET Nat, S # {}
  PROVE  Min(S) \in S
<1>1. PICK m \in S : \A n \in S : ~(<<n, m>> \in OpToRel(<, Nat))
  BY NatLessThanWellFounded, WFMin
<1>2. \A n \in S : ~(n < m)
  BY <1>1 DEF OpToRel
<1>3. \A n \in S : m <= n
  BY <1>2
<1> QED
  BY <1>3 DEF Min

LEMMA RepositoriesKept ==
  ASSUME NEW S, NEW below \in Seq(S), NEW own \in Seq(S), NEW r \in Range(below)
  PROVE  \E x \in Range(MergeRepositories(below, own)) : SameRepository(x, r)
<1> DEFINE W == {l \in Seq(S) : \E x \in Range(l) : SameRepository(x, r)}
<1>1. below \in W
  BY DEF SameRepository
<1>2. below # <<>>
  BY DEF Range
<1>3. ASSUME NEW l \in W, NEW s \in S PROVE Placed(l, s) \in W
  <2> DEFINE same == {i \in DOMAIN l : SameRepository(l[i], s)}
  <2>1. l \in Seq(S)
    OBVIOUS
  <2>2. PICK j \in DOMAIN l : SameRepository(l[j], r)
    BY DEF Range
  <2> HIDE DEF W
  <2>3. CASE same = {}
    <3>1. Placed(l, s) = Append(l, s)
      BY <2>3 DEF Placed
    <3> DEFINE q == Append(l, s)
    <3>2. q \in Seq(S) /\ j \in DOMAIN q /\ q[j] = l[j]
      BY <2>1
    <3> HIDE DEF q
    <3>3. q \in W
      BY <2>2, <3>2 DEF W, Range
    <3> QED
      BY <3>1, <3>3 DEF q
  <2>4. CASE same # {}
    <3> DEFINE k == Min(same)
               q == [l EXCEPT ![k] = s]
    <3>1. k \in DOMAIN l /\ SameRepository(l[k], s)
      <4>1. same \in SUBSET Nat
        BY <2>1
      <4>2. k \in same
        <5> HIDE DEF same
        <5> QED
          BY <2>4, <4>1, LeastIs
      <4> QED
        BY <4>2
    <3>2. Placed(l, s) = q
      BY <2>4 DEF Placed
    <3> HIDE DEF k
    <3>3. q \in Seq(S) /\ DOMAIN q = DOMAIN l /\ \A i \in DOMAIN l : q[i] = IF i = k THEN s ELSE l[i]
      BY <2>1, <3>1, PutInList
    <3> HIDE DEF q
    <3>4. j \in DOMAIN q /\ SameRepository(q[j], r)
      BY <2>2, <3>1, <3>3 DEF SameRepository
    <3> QED
      BY <3>2, <3>3, <3>4 DEF W, Range
  <2> QED
    BY <2>3, <2>4
<1>4. Len(own) \in Nat /\ \A l \in W, i \in 1..Len(own) : Placed(l, own[i]) \in W
  <2> HIDE DEF W
  <2>1. \A i \in 1..Len(own) : own[i] \in S
    OBVIOUS
  <2> QED
    BY <1>3, <2>1
<1> HIDE DEF W
<1>5. MergeRepositories(below, own) \in W
  BY <1>1, <1>2, <1>4, AllPlaced
<1> QED
  BY <1>5 DEF W

(* What a delta says, *)
LEMMA DeltaSays ==
  ASSUME NEW path, NEW parent, NEW sel, NEW catalogue, NEW os, NEW edgePack, NEW u,
         u = BuildDelta(path, parent, sel, catalogue, os, edgePack)
  PROVE  /\ Shaped(u) /\ u.extends = path /\ u.target = parent.target
         /\ u.baseline = <<>> /\ u.overlayPolicy = <<>>
         /\ u.disk = DeltaDisk(sel.disk) /\ u.repos = ToTemplateRepos(catalogue, os, sel.repos)
         /\ u.system.packages = sel.packages /\ u.system.users = DeltaUsers(sel)
         /\ ~SelectsEdgePack(sel.packages, edgePack) => u.system.dkms = NoDkms
         /\ \A f \in DOMAIN NoSystem \ {"packages", "users", "dkms"} : u.system[f] = NoSystem[f]
<1> DEFINE given == [NoSystem EXCEPT
                 !.packages = sel.packages, !.users = DeltaUsers(sel),
                 !.dkms = IF SelectsEdgePack(sel.packages, edgePack)
                          THEN [NoDkms EXCEPT !.provided = TRUE, !.enabled = TRUE] ELSE NoDkms]
<1>1. u.system = given
  BY DEF BuildDelta, NoTemplate
<1>2. /\ DOMAIN given = DOMAIN NoSystem
      /\ given.packages = sel.packages /\ given.users = DeltaUsers(sel)
      /\ ~SelectsEdgePack(sel.packages, edgePack) => given.dkms = NoDkms
      /\ \A f \in DOMAIN NoSystem \ {"packages", "users", "dkms"} : given[f] = NoSystem[f]
  <2>1. {"packages", "users", "dkms"} \subseteq DOMAIN NoSystem
    BY DEF NoSystem
  <2> QED
    BY <2>1
<1> HIDE DEF given
<1>3. /\ DOMAIN u = DOMAIN NoTemplate /\ u.extends = path /\ u.target = parent.target
      /\ u.baseline = <<>> /\ u.overlayPolicy = <<>>
      /\ u.disk = DeltaDisk(sel.disk) /\ u.repos = ToTemplateRepos(catalogue, os, sel.repos)
  BY DEF BuildDelta, NoTemplate
<1> QED
  BY <1>1, <1>2, <1>3 DEF Shaped

(* and what it changes of what it is merged with.                            *)
Chosen == {"users", "packages", "dkms", "immutability"}
Changed(y, x, u) ==
  /\ Shaped(y)
  /\ \A f \in DOMAIN NoSystem \ Chosen : y.system[f] = x.system[f]
  /\ y.system.packages = x.system.packages \cup u.system.packages
  /\ DOMAIN y.system.users = DOMAIN x.system.users \cup DOMAIN u.system.users
  /\ \A n \in DOMAIN y.system.users :
        y.system.users[n] = IF n \notin DOMAIN u.system.users THEN x.system.users[n]
                            ELSE IF n \notin DOMAIN x.system.users THEN u.system.users[n]
                            ELSE MergeUser(x.system.users[n], u.system.users[n])
  /\ u.system.dkms = NoDkms => y.system.dkms = x.system.dkms
  /\ u.disk = NoDisk => /\ y.disk = x.disk
                        /\ HasHashPartition(x.disk) => y.system.immutability = x.system.immutability
  /\ y.baseline = x.baseline /\ y.overlayPolicy = x.overlayPolicy /\ y.target = u.target
  /\ y.extends = <<>> /\ y.repos = MergeRepositories(x.repos, u.repos)

LEMMA NoneOf ==
  ASSUME NEW v
  PROVE  /\ Or("", v) = v /\ OrList(<<>>, v) = v /\ MergeScripts(v, <<>>) = v
         /\ MergeImmutability(v, NoImmutability) = v /\ MergeDkms(v, NoDkms) = v
         /\ Like(v, NoNetwork) => MergeNetwork(v, NoNetwork) = v
         /\ Like(v, NoBootloader) => MergeBootloader(v, NoBootloader) = v
         /\ Like(v, NoKernel) => MergeKernel(v, NoKernel) = v
         /\ Like(v, v) => Over(v, <<>>) = v
         /\ IsList(v) => v \o <<>> = v
<1>1. Or("", v) = v /\ OrList(<<>>, v) = v
  BY DEF Or, OrList
<1>2. MergeScripts(v, <<>>) = v
  <2> DEFINE place(list, s) ==
             LET same == {i \in DOMAIN list : list[i].name = s.name}
             IN  IF same = {} THEN Append(list, s) ELSE [list EXCEPT ![Min(same)] = s]
             Is(f) == f = [i \in 0..0 |-> IF i = 0 THEN v
                                        ELSE With(f[i - 1], LAMBDA acc : place(acc, <<>>[i]))]
  <2>1. MergeScripts(v, <<>>) = (CHOOSE f : Is(f))[0]
    BY DEF MergeScripts, Fold, With
  <2> HIDE DEF place
  <2>2. Is([i \in 0..0 |-> v])
    OBVIOUS
  <2>3. Is(CHOOSE f : Is(f))
    <3> HIDE DEF Is
    <3> QED
      BY <2>2
  <2> QED
    BY <2>1, <2>3
<1>3. MergeImmutability(v, NoImmutability) = v /\ MergeDkms(v, NoDkms) = v
  BY DEF MergeImmutability, MergeDkms, NoImmutability, NoDkms
<1>4. Like(v, NoNetwork) => MergeNetwork(v, NoNetwork) = v
  BY <1>1 DEF Like, MergeNetwork, NoNetwork, Or
<1>5. Like(v, NoBootloader) => MergeBootloader(v, NoBootloader) = v
  BY DEF Like, MergeBootloader, NoBootloader, Or
<1>6. Like(v, NoKernel) => MergeKernel(v, NoKernel) = v
  BY DEF Like, MergeKernel, NoKernel, Or
<1>7. Like(v, v) => Over(v, <<>>) = v
  BY DEF Like, Over
<1>8. IsList(v) => v \o <<>> = v
  BY ConcatEmptySeq DEF IsList
<1> QED
  BY <1>1, <1>2, <1>3, <1>4, <1>5, <1>6, <1>7, <1>8

LEMMA SystemChanged ==
  ASSUME NEW x, Sound(x), NEW u, Shaped(u),
         \A f \in DOMAIN NoSystem \ {"packages", "users", "dkms"} : u.system[f] = NoSystem[f]
  PROVE  LET s == SystemOf(u, x) IN
         /\ \A f \in DOMAIN NoSystem \ {"packages", "users", "dkms"} : s[f] = x.system[f]
         /\ s.packages = x.system.packages \cup u.system.packages
         /\ DOMAIN s.users = DOMAIN x.system.users \cup DOMAIN u.system.users
         /\ \A n \in DOMAIN s.users :
               s.users[n] = IF n \notin DOMAIN u.system.users THEN x.system.users[n]
                            ELSE IF n \notin DOMAIN x.system.users THEN u.system.users[n]
                            ELSE MergeUser(x.system.users[n], u.system.users[n])
         /\ u.system.dkms = NoDkms => s.dkms = x.system.dkms
<1> DEFINE d == x.system
           w == u.system
           s == MergeSystem(d, w)
<1>0. DOMAIN NoSystem = {"name", "host", "initramfs", "users", "packages", "files", "configurations",
                         "kernel", "bootloader", "network", "fde", "immutability", "dkms", "proxy",
                         "scripts", "beforeLogin", "cloudInit", "aptPolicy", "oep"}
  BY DEF NoSystem
<1>1. /\ w.name = "" /\ w.host = "" /\ w.initramfs = "" /\ w.files = <<>> /\ w.configurations = <<>>
      /\ w.kernel = NoKernel /\ w.bootloader = NoBootloader /\ w.network = NoNetwork /\ w.fde = NoFDE
      /\ w.immutability = NoImmutability /\ w.proxy = NoProxy /\ w.scripts = <<>> /\ w.beforeLogin = <<>>
      /\ w.cloudInit = NoCloudInit /\ w.aptPolicy = <<>> /\ w.oep = <<>>
  <2>1. /\ w.name = NoSystem.name /\ w.host = NoSystem.host /\ w.initramfs = NoSystem.initramfs
        /\ w.files = NoSystem.files /\ w.configurations = NoSystem.configurations
        /\ w.kernel = NoSystem.kernel /\ w.bootloader = NoSystem.bootloader
        /\ w.network = NoSystem.network /\ w.fde = NoSystem.fde
        /\ w.immutability = NoSystem.immutability /\ w.proxy = NoSystem.proxy
        /\ w.scripts = NoSystem.scripts /\ w.beforeLogin = NoSystem.beforeLogin
        /\ w.cloudInit = NoSystem.cloudInit /\ w.aptPolicy = NoSystem.aptPolicy /\ w.oep = NoSystem.oep
    <3> HIDE DEF w
    <3>1. \A f \in DOMAIN NoSystem \ {"packages", "users", "dkms"} : w[f] = NoSystem[f]
      BY DEF w
    <3> QED
      BY <1>0, <3>1
  <2> HIDE DEF w
  <2> QED
    BY <2>1 DEF NoSystem
<1>2. CASE IsEmptySystem(w)
  <2>1. SystemOf(u, x) = d
    BY <1>2 DEF SystemOf
  <2>2. w.users = <<>> /\ w.packages = {}
    BY <1>2 DEF IsEmptySystem
  <2> HIDE DEF d, w
  <2> QED
    BY <2>1, <2>2 DEF d, w
<1>3. CASE ~IsEmptySystem(w)
  <2>1. SystemOf(u, x) = s
    BY <1>3 DEF SystemOf
  <2>2. SystemIs(s, d, w)
    BY SystemMerged DEF Sound, Shaped
  <2>3. /\ Like(d.kernel, NoKernel) /\ Like(d.network, NoNetwork) /\ Like(d.bootloader, NoBootloader)
        /\ IsList(d.configurations) /\ Like(d.files, d.files)
    BY DEF Sound, HasSections
  <2> HIDE DEF s, d, w
  <2>4. /\ s.name = d.name /\ s.host = d.host /\ s.initramfs = d.initramfs
        /\ s.beforeLogin = d.beforeLogin /\ s.aptPolicy = d.aptPolicy /\ s.oep = d.oep
    <3>1. /\ s.name = Or("", d.name) /\ s.host = Or("", d.host) /\ s.initramfs = Or("", d.initramfs)
          /\ s.beforeLogin = OrList(<<>>, d.beforeLogin) /\ s.aptPolicy = OrList(<<>>, d.aptPolicy)
          /\ s.oep = OrList(<<>>, d.oep)
      BY <1>1, <2>2 DEF SystemIs
    <3> QED
      BY <3>1, NoneOf
  <2>5. /\ s.files = d.files /\ s.configurations = d.configurations /\ s.scripts = d.scripts
    <3>1. /\ s.files = Over(d.files, <<>>) /\ s.configurations = d.configurations \o <<>>
          /\ s.scripts = MergeScripts(d.scripts, <<>>)
      BY <1>1, <2>2 DEF SystemIs
    <3> QED
      BY <2>3, <3>1, NoneOf
  <2>6. s.kernel = d.kernel /\ s.network = d.network /\ s.bootloader = d.bootloader
    <3>1. /\ s.kernel = MergeKernel(d.kernel, NoKernel) /\ s.network = MergeNetwork(d.network, NoNetwork)
          /\ s.bootloader = MergeBootloader(d.bootloader, NoBootloader)
      BY <1>1, <2>2 DEF SystemIs
    <3> QED
      BY <2>3, <3>1, NoneOf
  <2>7. s.fde = d.fde /\ s.proxy = d.proxy /\ s.cloudInit = d.cloudInit
    <3>1. ~DeclaresFDE(NoFDE) /\ ~NoProxy.provided /\ IsEmptyProxy(NoProxy) /\ IsEmptyCloudInit(NoCloudInit)
      BY DEF DeclaresFDE, NoFDE, NoProxy, IsEmptyProxy, IsEmptyCloudInit
    <3> QED
      BY <1>1, <2>2, <3>1 DEF SystemIs
  <2>8. s.immutability = d.immutability /\ (w.dkms = NoDkms => s.dkms = d.dkms)
    <3>1. s.immutability = MergeImmutability(d.immutability, NoImmutability) /\ s.dkms = MergeDkms(d.dkms, w.dkms)
      BY <1>1, <2>2 DEF SystemIs
    <3> QED
      BY <3>1, NoneOf
  <2>9. s.packages = d.packages \cup w.packages /\ s.users = MergeUsers(d.users, w.users)
    BY <2>2 DEF SystemIs
  <2>10. \A f \in DOMAIN NoSystem \ {"packages", "users", "dkms"} : s[f] = d[f]
    BY <1>0, <2>4, <2>5, <2>6, <2>7, <2>8
  <2>11. /\ DOMAIN s.users = DOMAIN d.users \cup DOMAIN w.users
         /\ \A n \in DOMAIN s.users :
               s.users[n] = IF n \notin DOMAIN w.users THEN d.users[n]
                            ELSE IF n \notin DOMAIN d.users THEN w.users[n]
                            ELSE MergeUser(d.users[n], w.users[n])
    BY <2>9 DEF MergeUsers
  <2> QED
    BY <2>1, <2>8, <2>9, <2>10, <2>11 DEF d, w
<1> QED
  BY <1>2, <1>3

LEMMA DeltaMerged ==
  ASSUME NEW x, Sound(x), NEW u, Shaped(u), u.baseline = <<>>, u.overlayPolicy = <<>>,
         \A f \in DOMAIN NoSystem \ {"packages", "users", "dkms"} : u.system[f] = NoSystem[f]
  PROVE  Changed(MergeConfigurations(u, x), x, u)
<1> DEFINE y == MergeConfigurations(u, x)
           s == SystemOf(u, x)
<1>1. TemplateIs(y, u, x)
  BY TemplateMerged DEF Sound
<1>2. /\ \A f \in DOMAIN NoSystem \ {"packages", "users", "dkms"} : s[f] = x.system[f]
      /\ s.packages = x.system.packages \cup u.system.packages
      /\ DOMAIN s.users = DOMAIN x.system.users \cup DOMAIN u.system.users
      /\ \A n \in DOMAIN s.users :
               s.users[n] = IF n \notin DOMAIN u.system.users THEN x.system.users[n]
                            ELSE IF n \notin DOMAIN x.system.users THEN u.system.users[n]
                            ELSE MergeUser(x.system.users[n], u.system.users[n])
      /\ u.system.dkms = NoDkms => s.dkms = x.system.dkms
  BY SystemChanged
<1>3. {"packages", "users", "dkms", "immutability"} \subseteq DOMAIN NoSystem
  BY DEF NoSystem
<1> HIDE DEF y, s
<1>4. /\ \A f \in DOMAIN NoSystem \ {"immutability"} : y.system[f] = s[f]
      /\ HasHashPartition(y.disk) => y.system.immutability = s.immutability
  BY <1>1 DEF TemplateIs, s
<1>5. y.system.packages = s.packages /\ y.system.users = s.users /\ y.system.dkms = s.dkms
  BY <1>3, <1>4
<1>6. /\ \A f \in DOMAIN NoSystem \ Chosen : y.system[f] = x.system[f]
      /\ s.immutability = x.system.immutability
  BY <1>2, <1>3, <1>4 DEF Chosen
<1>7. u.disk = NoDisk => /\ y.disk = x.disk
                         /\ HasHashPartition(x.disk) => y.system.immutability = x.system.immutability
  BY <1>1, <1>4, <1>6 DEF TemplateIs
<1>8. y.baseline = x.baseline /\ y.overlayPolicy = x.overlayPolicy
  <2>1. y.baseline = OrList(<<>>, x.baseline) /\ y.overlayPolicy = OrList(<<>>, x.overlayPolicy)
    BY <1>1 DEF TemplateIs
  <2> QED
    BY <2>1, NoneOf
<1>9. /\ Shaped(y) /\ y.target = u.target /\ y.extends = <<>>
      /\ y.repos = MergeRepositories(x.repos, u.repos)
  BY <1>1 DEF TemplateIs
<1>10. Changed(y, x, u)
  BY <1>2, <1>5, <1>6, <1>7, <1>8, <1>9 DEF Changed
<1> QED
  BY <1>10 DEF y

(* What exactly is lowered: the files, packages and keys of a template.      *)
Fresh(F) == [p \in {f.final : f \in F} |-> (CHOOSE f \in F : f.final = p).local]
ScriptFiles(scripts) == Fresh({[local |-> s.local, final |-> s.final] : s \in Range(scripts)})
CloudFiles(c) ==
  LET named(local, dir, name) ==
          IF local = "" THEN {} ELSE {[local |-> <<local>>, final |-> Append(dir, name)]}
  IN  Fresh(named(c.userData, SeedDir, "user-data") \cup named(c.metaData, SeedDir, "meta-data")
            \cup UNION {named(f, SubSeq(Datasource, 1, 3), f) : f \in c.configFiles})
WithKeys(u, host) == [u EXCEPT !.keys = @ \cup UNION {host[f] : f \in {<<g>> : g \in u.keyFiles}}]

LoweredTo(a, t, host) ==
  LET on == t.system.cloudInit.enabled = <<TRUE>>
      placed == Over(t.system.files, ScriptFiles(t.system.scripts))
  IN  /\ Same(a, t, Lowering)
      /\ DOMAIN a.system.users = DOMAIN t.system.users
      /\ \A n \in DOMAIN t.system.users : a.system.users[n] = WithKeys(t.system.users[n], host)
      /\ a.system.packages = t.system.packages \cup IF on THEN {Plain("cloud-init")} ELSE {}
      /\ a.system.files = IF on THEN Over(placed, CloudFiles(t.system.cloudInit)) ELSE placed

LEMMA FilesLowered ==
  ASSUME NEW t, Shaped(t), NEW host, NEW F, NEW r, r = AddLoweredFiles(t, host, F), r # Refused
  PROVE  Same(r[1], t, {"files"}) /\ r[1].system.files = Over(t.system.files, Fresh(F))
<1> DEFINE v == Over(t.system.files, Fresh(F))
<1>1. r = <<[t EXCEPT !.system.files = v]>>
  BY DEF AddLoweredFiles, Check, Accept, Fresh
<1> HIDE DEF v
<1>2. r[1] = [t EXCEPT !.system.files = v]
  BY <1>1
<1> QED
  BY <1>2, FilesPut DEF v

LEMMA KeysLowered ==
  ASSUME NEW t, Shaped(t), NEW host, NEW r, r = LowerSSHKeyFiles(t, host), r # Refused
  PROVE  LET a == r[1] IN
         /\ Same(a, t, {"users"})
         /\ DOMAIN a.system.users = DOMAIN t.system.users
         /\ \A n \in DOMAIN t.system.users : a.system.users[n] = WithKeys(t.system.users[n], host)
<1> DEFINE old == t.system.users
           one(n) == AddKeysFromFiles(old[n], host, {<<f>> : f \in old[n].keyFiles})
           users == [n \in DOMAIN old |-> one(n)]
           v == [n \in DOMAIN users |-> users[n][1]]
           a == [t EXCEPT !.system.users = v]
<1>1. r = <<a>> /\ Refused \notin Range(users)
  BY DEF LowerSSHKeyFiles, AddKeys, Accept
<1>2. ASSUME NEW n \in DOMAIN old PROVE v[n] = WithKeys(old[n], host)
  <2> DEFINE F == {<<f>> : f \in old[n].keyFiles}
  <2>1. users[n] = one(n) /\ users[n] # Refused
    <3> HIDE DEF one
    <3> QED
      BY <1>1 DEF Range
  <2>2. one(n) = <<[old[n] EXCEPT !.keys = @ \cup UNION {host[f] : f \in F}]>>
    <3>1. one(n) = AddKeysFromFiles(old[n], host, F)
      OBVIOUS
    <3> HIDE DEF F, one
    <3> QED
      BY <2>1, <3>1 DEF AddKeysFromFiles, Check, Accept
  <2>3. v[n] = users[n][1]
    OBVIOUS
  <2> HIDE DEF users, one, v
  <2> QED
    BY <2>1, <2>2, <2>3 DEF WithKeys
<1>3. DOMAIN v = DOMAIN old
  OBVIOUS
<1> HIDE DEF v, old
<1>4. r[1] = a
  BY <1>1
<1>5. "users" \in DOMAIN NoSystem
  BY DEF NoSystem
<1>6. Same(a, t, {"users"}) /\ a.system.users = v
  <2> HIDE DEF v
  <2> QED
    BY <1>5, SystemPut
<1> QED
  BY <1>2, <1>3, <1>4, <1>6 DEF old

CloudTo(a, t) ==
  LET on == t.system.cloudInit.enabled = <<TRUE>>
  IN  /\ Same(a, t, {"files", "packages"})
      /\ a.system.packages = t.system.packages \cup IF on THEN {Plain("cloud-init")} ELSE {}
      /\ a.system.files = IF on THEN Over(t.system.files, CloudFiles(t.system.cloudInit)) ELSE t.system.files

LEMMA CloudLowered ==
  ASSUME NEW t, Shaped(t), NEW host, NEW r, r = LowerCloudInit(t, host), r # Refused
  PROVE  CloudTo(r[1], t)
<1> DEFINE c == t.system.cloudInit
           named(local, dir, name) ==
             IF local = "" THEN {} ELSE {[local |-> <<local>>, final |-> Append(dir, name)]}
           F == named(c.userData, SeedDir, "user-data") \cup named(c.metaData, SeedDir, "meta-data")
                \cup UNION {named(f, SubSeq(Datasource, 1, 3), f) : f \in c.configFiles}
           v == t.system.packages \cup {Plain("cloud-init")}
           y == [t EXCEPT !.system.packages = v]
           a == r[1]
<1>1. CloudFiles(c) = Fresh(F)
  BY DEF CloudFiles
<1>2. CASE c.enabled # <<TRUE>>
  <2>1. r = Accept(t)
    BY <1>2 DEF LowerCloudInit
  <2>2. a = t
    BY <2>1 DEF Accept
  <2> HIDE DEF a
  <2>3. Same(a, t, {"files", "packages"})
    BY <2>2 DEF Same
  <2> QED
    BY <1>2, <2>2, <2>3 DEF a, CloudTo
<1>3. CASE c.enabled = <<TRUE>>
  <2>1. r = AddLoweredFiles(y, host, F)
    BY <1>3 DEF LowerCloudInit
  <2> HIDE DEF F, v
  <2>2. "packages" \in DOMAIN NoSystem /\ "files" \in DOMAIN NoSystem /\ "cloudInit" \in DOMAIN NoSystem
    BY DEF NoSystem
  <2>3. Same(y, t, {"packages"}) /\ y.system.packages = v
    BY <2>2, SystemPut
  <2> HIDE DEF y
  <2>4. Shaped(y) /\ y.system.files = t.system.files
    BY <2>2, <2>3 DEF Same
  <2>5. Same(a, y, {"files"}) /\ a.system.files = Over(y.system.files, Fresh(F))
    BY <2>1, <2>4, FilesLowered
  <2> HIDE DEF a
  <2>6. Same(a, t, {"files", "packages"}) /\ a.system.packages = v
    BY <2>2, <2>3, <2>5, SameTwice DEF Same
  <2> QED
    BY <1>1, <1>3, <2>4, <2>5, <2>6 DEF v, a, CloudTo
<1> QED
  BY <1>2, <1>3

LEMMA AllLowered ==
  ASSUME NEW t, Shaped(t), NEW host, NEW r, r = LowerProvisioningInputs(t, host), r # Refused
  PROVE  LoweredTo(r[1], t, host)
<1> DEFINE k == LowerSSHKeyFiles(t, host)
           s == LowerScripts(k[1], host)
           a == r[1]
           b == k[1]
           d == s[1]
<1>1. k # Refused /\ s # Refused /\ r = LowerCloudInit(d, host)
  BY DEF LowerProvisioningInputs, Then, With
<1>2. /\ Same(b, t, {"users"})
      /\ DOMAIN b.system.users = DOMAIN t.system.users
      /\ \A n \in DOMAIN t.system.users : b.system.users[n] = WithKeys(t.system.users[n], host)
  BY <1>1, KeysLowered
<1> HIDE DEF k
<1>3. Same(d, b, {"files"}) /\ d.system.files = Over(b.system.files, ScriptFiles(b.system.scripts))
  <2>1. Shaped(b)
    BY <1>2 DEF Same
  <2> DEFINE F == {[local |-> x.local, final |-> x.final] : x \in Range(b.system.scripts)}
  <2>2. s = AddLoweredFiles(b, host, F) /\ ScriptFiles(b.system.scripts) = Fresh(F)
    BY DEF LowerScripts, ScriptFiles
  <2> HIDE DEF F, b, s
  <2>3. Same(s[1], b, {"files"}) /\ s[1].system.files = Over(b.system.files, Fresh(F))
    BY <1>1, <2>1, <2>2, FilesLowered
  <2> QED
    BY <2>2, <2>3
<1> HIDE DEF b, s
<1>4. CloudTo(a, d)
  <2>1. Shaped(d)
    BY <1>3 DEF Same
  <2> HIDE DEF d
  <2> QED
    BY <1>1, <2>1, CloudLowered
<1> HIDE DEF a, d
<1>5. {"users", "packages", "files", "scripts", "cloudInit"} \subseteq DOMAIN NoSystem
  BY DEF NoSystem
<1>6. /\ b.system.files = t.system.files /\ b.system.scripts = t.system.scripts
      /\ b.system.packages = t.system.packages /\ b.system.cloudInit = t.system.cloudInit
  BY <1>2, <1>5 DEF Same
<1>7. /\ d.system.cloudInit = b.system.cloudInit /\ d.system.packages = b.system.packages
      /\ d.system.users = b.system.users
  BY <1>3, <1>5 DEF Same
<1>8. a.system.users = d.system.users
  BY <1>4, <1>5 DEF CloudTo, Same
<1>9. Same(a, t, Lowering)
  <2>1. Same(d, t, Lowering)
    BY <1>2, <1>3, SameTwice DEF Lowering
  <2> QED
    BY <1>4, <2>1, SameTwice DEF CloudTo, Lowering
<1>10. LoweredTo(a, t, host)
  BY <1>2, <1>3, <1>4, <1>6, <1>7, <1>8, <1>9 DEF CloudTo, LoweredTo
<1> QED
  BY <1>10 DEF a

(* All that is loaded as a layered template is lowered so, and overlays but   *)
(* for the keys.                                                             *)
LEMMA FinalLowered ==
  ASSUME NEW t, Shaped(t), NEW r, r = LoadFinal(t), r # Refused
  PROVE  LoweredTo(r[1], t, world.host)
<1> DEFINE a == LowerProvisioningInputs(t, world.host)
           x == a[1]
<1>1. r = FinalizeProvisioning(t, world.host)
  BY DEF LoadFinal
<1>2. a # Refused /\ r = Check(x, ValidateAdditionalFilesNotGenerated(x))
  BY <1>1 DEF FinalizeProvisioning, Then, With
<1>3. r[1] = x
  BY <1>2 DEF Check, Accept, Refused
<1>4. LoweredTo(x, t, world.host)
  BY <1>2, AllLowered
<1> QED
  BY <1>3, <1>4

KeyedTo(a, t, host) ==
  /\ Same(a, t, {"users"})
  /\ DOMAIN a.system.users = DOMAIN t.system.users
  /\ \A n \in DOMAIN t.system.users : a.system.users[n] = WithKeys(t.system.users[n], host)

LEMMA OverlayLowered ==
  ASSUME NEW t, Shaped(t), NEW r, r = LoadOverlay(t), r # Refused
  PROVE  KeyedTo(r[1], t, world.host)
<1>1. r = LowerSSHKeyFiles(t, world.host)
  BY DEF LoadOverlay
<1> QED
  BY <1>1, KeysLowered DEF KeyedTo

(* Someone whom a selection gives a credential stays who they were.          *)
Rest(v) == [v EXCEPT !.password = "", !.algo = "", !.keys = {}]
IsCredential(c, K) ==
  /\ c.maxAge = 0 /\ c.home = "" /\ c.shell = "" /\ c.startup = "" /\ c.groups = {}
  /\ c.keys = K /\ c.keyFiles = {}

LEMMA CredentialOnly ==
  ASSUME NEW u, Like(u, NoUser), NEW c, NEW K, IsCredential(c, K), NEW m, m = MergeUser(u, c)
  PROVE  /\ Rest(m) = Rest(u)
         /\ m.keys = u.keys \cup K /\ m.keyFiles = u.keyFiles
         /\ DOMAIN m = DOMAIN NoUser
<1>0. u = [f \in DOMAIN NoUser |-> u[f]]
  BY DEF Like
<1>d. DOMAIN NoUser = {"password", "algo", "maxAge", "home", "shell", "startup", "groups", "keys", "keyFiles", "sudo"}
  BY DEF NoUser
<1> DEFINE w == MergeUser(u, c)
<1>w. /\ w = [f \in DOMAIN NoUser |-> w[f]]
      /\ w.maxAge = u.maxAge /\ w.home = u.home /\ w.shell = u.shell /\ w.startup = u.startup
      /\ w.groups = u.groups /\ w.keys = u.keys \cup K /\ w.keyFiles = u.keyFiles /\ w.sudo = u.sudo
  <2>1. w = [f \in DOMAIN NoUser |-> w[f]]
    BY <1>0 DEF MergeUser
  <2>2. /\ w.maxAge = IF c.maxAge = 0 THEN u.maxAge ELSE c.maxAge
        /\ w.home = Or(c.home, u.home) /\ w.shell = Or(c.shell, u.shell) /\ w.startup = Or(c.startup, u.startup)
        /\ w.groups = u.groups \cup c.groups /\ w.keys = u.keys \cup c.keys
        /\ w.keyFiles = u.keyFiles \cup c.keyFiles
        /\ w.sudo = IF c.home # "" \/ c.shell # "" \/ c.startup # "" \/ c.groups # {} THEN c.sudo ELSE u.sudo
    BY <1>0, <1>d DEF MergeUser
  <2> HIDE DEF w
  <2>3. /\ w.home = u.home /\ w.shell = u.shell /\ w.startup = u.startup
    BY <2>2 DEF Or, IsCredential
  <2>4. w.maxAge = u.maxAge /\ w.sudo = u.sudo
    BY <2>2 DEF IsCredential
  <2>5. /\ w.groups = u.groups /\ w.keys = u.keys \cup K /\ w.keyFiles = u.keyFiles
    BY <2>2 DEF IsCredential
  <2> QED
    BY <2>1, <2>3, <2>4, <2>5
<1> HIDE DEF w
<1>2. /\ m = [f \in DOMAIN NoUser |-> m[f]]
      /\ m.maxAge = u.maxAge /\ m.home = u.home /\ m.shell = u.shell /\ m.startup = u.startup
      /\ m.groups = u.groups /\ m.keys = u.keys \cup K /\ m.keyFiles = u.keyFiles /\ m.sudo = u.sudo
  BY <1>w DEF w
<1>3. Rest(m) = Rest(u)
  <2> DEFINE a == Rest(m)
             b == Rest(u)
  <2>1. /\ a = [f \in DOMAIN m |-> a[f]] /\ b = [f \in DOMAIN u |-> b[f]]
        /\ \A f \in DOMAIN NoUser \ {"password", "algo", "keys"} : a[f] = m[f] /\ b[f] = u[f]
        /\ \A f \in {"password", "algo", "keys"} : a[f] = b[f]
    BY <1>0, <1>2, <1>d DEF Rest
  <2>2. DOMAIN m = DOMAIN u
    BY <1>0, <1>2
  <2>3. \A f \in DOMAIN NoUser \ {"password", "algo", "keys"} : m[f] = u[f]
    BY <1>2, <1>d
  <2> HIDE DEF a, b
  <2>4. a = b
    BY <1>0, <2>1, <2>2, <2>3
  <2> QED
    BY <2>4 DEF a, b
<1>4. DOMAIN m = DOMAIN NoUser
  BY <1>2
<1> QED
  BY <1>2, <1>3, <1>4

(* Of templates that differ by the delta, lowered alike, nothing has changed  *)
(* but what was asked.                                                       *)
LoweredAlike(a, y, b, x) ==
  \/ LoweredTo(a, y, world.host) /\ LoweredTo(b, x, world.host)
  \/ KeyedTo(a, y, world.host) /\ KeyedTo(b, x, world.host)

LEMMA SystemsAlike ==
  ASSUME NEW x, NEW y, NEW u, Changed(y, x, u), NEW a, NEW b, LoweredAlike(a, y, b, x)
  PROVE  /\ \A f \in DOMAIN NoSystem \ Chosen : a.system[f] = b.system[f]
         /\ DOMAIN a.system = DOMAIN NoSystem /\ DOMAIN b.system = DOMAIN NoSystem
         /\ a.system.packages = b.system.packages \cup u.system.packages
         /\ a.system.immutability = y.system.immutability /\ b.system.immutability = x.system.immutability
         /\ a.system.dkms = y.system.dkms /\ b.system.dkms = x.system.dkms
         /\ DOMAIN a.system.users = DOMAIN y.system.users /\ DOMAIN b.system.users = DOMAIN x.system.users
         /\ \A n \in DOMAIN y.system.users : a.system.users[n] = WithKeys(y.system.users[n], world.host)
         /\ \A n \in DOMAIN x.system.users : b.system.users[n] = WithKeys(x.system.users[n], world.host)
         /\ a.disk = y.disk /\ b.disk = x.disk /\ a.target = y.target /\ b.target = x.target
         /\ a.baseline = y.baseline /\ b.baseline = x.baseline
         /\ a.overlayPolicy = y.overlayPolicy /\ b.overlayPolicy = x.overlayPolicy
         /\ a.repos = y.repos /\ b.repos = x.repos
<1>1. Same(a, y, Lowering) /\ Same(b, x, Lowering)
  BY DEF LoweredAlike, LoweredTo, KeyedTo, Same, Lowering
<1>2. {"disk", "target", "baseline", "overlayPolicy", "repos"} \subseteq DOMAIN NoTemplate \ {"system"}
  BY DEF NoTemplate
<1>3. {"files", "packages", "users", "immutability", "dkms", "scripts", "cloudInit"} \subseteq DOMAIN NoSystem
  BY DEF NoSystem
<1>4. /\ a.disk = y.disk /\ b.disk = x.disk /\ a.target = y.target /\ b.target = x.target
      /\ a.baseline = y.baseline /\ b.baseline = x.baseline
      /\ a.overlayPolicy = y.overlayPolicy /\ b.overlayPolicy = x.overlayPolicy
      /\ a.repos = y.repos /\ b.repos = x.repos
  BY <1>1, <1>2 DEF Same
<1>5. /\ a.system.immutability = y.system.immutability /\ b.system.immutability = x.system.immutability
      /\ a.system.dkms = y.system.dkms /\ b.system.dkms = x.system.dkms
      /\ DOMAIN a.system = DOMAIN NoSystem /\ DOMAIN b.system = DOMAIN NoSystem
  BY <1>1, <1>3 DEF Same, Shaped, Lowering
<1>6. \A f \in DOMAIN NoSystem \ Chosen : y.system[f] = x.system[f]
  BY DEF Changed
<1>7. /\ y.system.files = x.system.files /\ y.system.scripts = x.system.scripts
      /\ y.system.cloudInit = x.system.cloudInit
  BY <1>3, <1>6 DEF Chosen
<1>8. y.system.packages = x.system.packages \cup u.system.packages
  BY DEF Changed
<1>9. /\ a.system.files = b.system.files
      /\ a.system.packages = b.system.packages \cup u.system.packages
  <2>1. CASE LoweredTo(a, y, world.host) /\ LoweredTo(b, x, world.host)
    <3> DEFINE cl == IF x.system.cloudInit.enabled = <<TRUE>> THEN {Plain("cloud-init")} ELSE {}
               fl == Over(x.system.files, ScriptFiles(x.system.scripts))
               fs == IF x.system.cloudInit.enabled = <<TRUE>> THEN Over(fl, CloudFiles(x.system.cloudInit)) ELSE fl
    <3>1. /\ b.system.packages = x.system.packages \cup cl /\ b.system.files = fs
      BY <2>1 DEF LoweredTo
    <3>2. /\ a.system.packages = y.system.packages \cup cl /\ a.system.files = fs
      BY <1>7, <2>1 DEF LoweredTo
    <3> HIDE DEF cl, fs
    <3> QED
      BY <1>8, <3>1, <3>2
  <2>2. CASE KeyedTo(a, y, world.host) /\ KeyedTo(b, x, world.host)
    <3>1. Same(a, y, {"users"}) /\ Same(b, x, {"users"})
      BY <2>2 DEF KeyedTo
    <3>2. /\ a.system.packages = y.system.packages /\ a.system.files = y.system.files
          /\ b.system.packages = x.system.packages /\ b.system.files = x.system.files
      BY <1>3, <3>1 DEF Same
    <3> QED
      BY <1>7, <1>8, <3>2
  <2> QED
    BY <2>1, <2>2 DEF LoweredAlike
<1>10. \A f \in DOMAIN NoSystem \ Chosen : a.system[f] = b.system[f]
  <2> TAKE f \in DOMAIN NoSystem \ Chosen
  <2>1. CASE f = "files"
    BY <1>9, <2>1
  <2>2. CASE f # "files"
    <3>1. f \in DOMAIN NoSystem \ Lowering
      BY <2>2 DEF Chosen, Lowering
    <3>2. a.system[f] = y.system[f] /\ b.system[f] = x.system[f]
      BY <1>1, <3>1 DEF Same
    <3> QED
      BY <1>6, <3>2
  <2> QED
    BY <2>1, <2>2
<1>11. /\ DOMAIN a.system.users = DOMAIN y.system.users /\ DOMAIN b.system.users = DOMAIN x.system.users
       /\ \A n \in DOMAIN y.system.users : a.system.users[n] = WithKeys(y.system.users[n], world.host)
       /\ \A n \in DOMAIN x.system.users : b.system.users[n] = WithKeys(x.system.users[n], world.host)
  BY DEF LoweredAlike, LoweredTo, KeyedTo
<1> QED
  BY <1>4, <1>5, <1>9, <1>10, <1>11

KeptAccount(m, o, credential) ==
  Rest(m) = Rest(o) /\ o.keys \subseteq m.keys /\ (~credential => m = o)

LEMMA AccountsKept ==
  ASSUME NEW x, NEW y, NEW u, Changed(y, x, u), NEW sel, u.system.users = DeltaUsers(sel),
         DOMAIN sel.credentials \subseteq DOMAIN x.system.users,
         \A n \in DOMAIN sel.newUsers : n \notin DOMAIN x.system.users,
         NEW n \in DOMAIN x.system.users, Like(x.system.users[n], NoUser)
  PROVE  /\ n \in DOMAIN y.system.users
         /\ KeptAccount(WithKeys(y.system.users[n], world.host), WithKeys(x.system.users[n], world.host),
                        n \in DOMAIN sel.credentials)
<1> DEFINE b == x.system.users[n]
           a == y.system.users[n]
           m == WithKeys(a, world.host)
           o == WithKeys(b, world.host)
           d == u.system.users
<1>1. /\ n \in DOMAIN y.system.users
      /\ a = IF n \notin DOMAIN d THEN b ELSE MergeUser(b, d[n])
  BY DEF Changed
<1>2. /\ DOMAIN d = DOMAIN sel.newUsers \cup DOMAIN sel.credentials
      /\ n \notin DOMAIN sel.newUsers
      /\ n \in DOMAIN sel.credentials =>
            d[n] = [NoUser EXCEPT !.password = HashPasswordForHost(sel.credentials[n].password),
                                  !.keys = KeysGiven(sel.credentials[n].key)]
  BY DEF DeltaUsers, Over
<1> HIDE DEF a, b, d
<1>3. CASE n \notin DOMAIN sel.credentials
  <2>1. a = b
    BY <1>1, <1>2, <1>3
  <2>2. m = o
    BY <2>1
  <2> HIDE DEF m, o
  <2>3. KeptAccount(m, o, n \in DOMAIN sel.credentials)
    BY <1>3, <2>2 DEF KeptAccount
  <2> QED
    BY <1>1, <2>3 DEF m, o, a, b
<1>4. CASE n \in DOMAIN sel.credentials
  <2> DEFINE p == HashPasswordForHost(sel.credentials[n].password)
             K == KeysGiven(sel.credentials[n].key)
             c == [NoUser EXCEPT !.password = p, !.keys = K]
  <2>1. a = MergeUser(b, c)
    BY <1>1, <1>2, <1>4
  <2>c. IsCredential(c, K)
    BY DEF NoUser, IsCredential
  <2> HIDE DEF c, K
  <2>2. Like(b, NoUser)
    BY DEF b
  <2>3. Rest(a) = Rest(b) /\ a.keys = b.keys \cup K /\ a.keyFiles = b.keyFiles /\ DOMAIN a = DOMAIN NoUser
    BY <2>1, <2>2, <2>c, CredentialOnly
  <2>4. DOMAIN b = DOMAIN NoUser /\ "keys" \in DOMAIN NoUser
    BY DEF b, Like, NoUser
  <2> DEFINE H == UNION {world.host[f] : f \in {<<g>> : g \in b.keyFiles}}
  <2>5. m = [a EXCEPT !.keys = @ \cup H] /\ o = [b EXCEPT !.keys = @ \cup H]
    BY <2>3 DEF WithKeys
  <2> HIDE DEF H
  <2>6. Rest(m) = Rest(a) /\ Rest(o) = Rest(b)
    <3> HIDE DEF m, o
    <3> QED
      BY <2>5 DEF Rest
  <2>7. m.keys = a.keys \cup H /\ o.keys = b.keys \cup H
    <3> HIDE DEF m, o
    <3> QED
      BY <2>3, <2>4, <2>5
  <2> HIDE DEF m, o
  <2>8. Rest(m) = Rest(o) /\ o.keys \subseteq m.keys /\ n \in DOMAIN y.system.users
    BY <1>1, <2>3, <2>6, <2>7
  <2> QED
    BY <1>4, <2>8 DEF m, o, a, b, KeptAccount
<1> QED
  BY <1>3, <1>4

LEMMA ComposedAlike ==
  ASSUME NEW x, NEW y, Changed(y, x, DeltaLayer), x.target = DeltaLayer.target,
         \A n \in DOMAIN x.system.users : Like(x.system.users[n], NoUser),
         \E S : x.repos \in Seq(S) /\ DeltaLayer.repos \in Seq(S),
         views.base # <<>> => LoweredAlike(views.delta[1], y, views.base[1], x),
         views.base # <<>> => ValidateCredentials(world.sel.credentials, views.base[1])
                              /\ ValidateNewUsers(world.sel.newUsers, views.base[1])
  PROVE  DeltaChangesOnlyWhatWasAsked
<1> DEFINE a == views.delta[1]
           b == views.base[1]
           u == DeltaLayer
           sel == world.sel
           unasked(s) == [s EXCEPT !.users = <<>>, !.packages = {}, !.immutability = NoImmutability,
                                    !.dkms = NoDkms]
           login(v) == [v EXCEPT !.password = "", !.algo = "", !.keys = {}]
<1> SUFFICES ASSUME views.base # <<>>
             PROVE  /\ unasked(a.system) = unasked(b.system)
                    /\ a.system.packages = b.system.packages \cup sel.packages
                    /\ DOMAIN a.system.users = DOMAIN b.system.users \cup DOMAIN sel.newUsers
                    /\ \A n \in DOMAIN b.system.users :
                          /\ login(a.system.users[n]) = login(b.system.users[n])
                          /\ b.system.users[n].keys \subseteq a.system.users[n].keys
                          /\ n \notin DOMAIN sel.credentials => a.system.users[n] = b.system.users[n]
                    /\ \A r \in Range(b.repos) : \E z \in Range(a.repos) : SameRepository(z, r)
                    /\ sel.disk = <<>> => a.disk = b.disk
                    /\ sel.disk = <<>> /\ HasHashPartition(b.disk) => a.system.immutability = b.system.immutability
                    /\ ~SelectsEdgePack(sel.packages, world.edgePack) => a.system.dkms = b.system.dkms
                    /\ a.target = b.target /\ a.baseline = b.baseline
                    /\ a.overlayPolicy = b.overlayPolicy
  BY DEF DeltaChangesOnlyWhatWasAsked
<1>1. LoweredAlike(a, y, b, x)
  OBVIOUS
<1>2. /\ u.system.packages = sel.packages /\ u.system.users = DeltaUsers(sel)
      /\ u.disk = DeltaDisk(sel.disk)
      /\ ~SelectsEdgePack(sel.packages, world.edgePack) => u.system.dkms = NoDkms
  BY DeltaSays DEF DeltaLayer
<1>3. /\ DOMAIN sel.credentials \subseteq DOMAIN b.system.users
      /\ \A n \in DOMAIN sel.newUsers : n \notin DOMAIN b.system.users
  BY DEF ValidateCredentials, ValidateNewUsers
<1>4. /\ y.system.packages = x.system.packages \cup u.system.packages
      /\ DOMAIN y.system.users = DOMAIN x.system.users \cup DOMAIN u.system.users
      /\ u.system.dkms = NoDkms => y.system.dkms = x.system.dkms
      /\ u.disk = NoDisk => /\ y.disk = x.disk
                            /\ HasHashPartition(x.disk) => y.system.immutability = x.system.immutability
      /\ y.baseline = x.baseline /\ y.overlayPolicy = x.overlayPolicy /\ y.target = u.target
      /\ y.repos = MergeRepositories(x.repos, u.repos)
  BY DEF Changed
<1> HIDE DEF a, b, u, sel
<1>5. /\ \A f \in DOMAIN NoSystem \ Chosen : a.system[f] = b.system[f]
      /\ DOMAIN a.system = DOMAIN NoSystem /\ DOMAIN b.system = DOMAIN NoSystem
      /\ a.system.packages = b.system.packages \cup u.system.packages
      /\ a.system.immutability = y.system.immutability /\ b.system.immutability = x.system.immutability
      /\ a.system.dkms = y.system.dkms /\ b.system.dkms = x.system.dkms
      /\ DOMAIN a.system.users = DOMAIN y.system.users /\ DOMAIN b.system.users = DOMAIN x.system.users
      /\ \A n \in DOMAIN y.system.users : a.system.users[n] = WithKeys(y.system.users[n], world.host)
      /\ \A n \in DOMAIN x.system.users : b.system.users[n] = WithKeys(x.system.users[n], world.host)
      /\ a.disk = y.disk /\ b.disk = x.disk /\ a.target = y.target /\ b.target = x.target
      /\ a.baseline = y.baseline /\ b.baseline = x.baseline
      /\ a.overlayPolicy = y.overlayPolicy /\ b.overlayPolicy = x.overlayPolicy
      /\ a.repos = y.repos /\ b.repos = x.repos
  BY <1>1, SystemsAlike DEF u
<1>6. unasked(a.system) = unasked(b.system)
  <2> DEFINE s == a.system
             t == b.system
  <2>1. /\ DOMAIN s = DOMAIN t /\ {"users", "packages", "immutability", "dkms"} \subseteq DOMAIN s
        /\ \A f \in DOMAIN s \ {"users", "packages", "immutability", "dkms"} : s[f] = t[f]
    BY <1>5 DEF Chosen, NoSystem
  <2> HIDE DEF s, t
  <2>2. unasked(s) = unasked(t)
    BY <2>1
  <2> QED
    BY <2>2 DEF s, t
<1>7. DOMAIN DeltaUsers(sel) = DOMAIN sel.newUsers \cup DOMAIN sel.credentials
  BY DEF DeltaUsers, Over
<1>8. DOMAIN a.system.users = DOMAIN b.system.users \cup DOMAIN sel.newUsers
  BY <1>2, <1>3, <1>4, <1>5, <1>7
<1>9. ASSUME NEW n \in DOMAIN b.system.users
      PROVE  /\ login(a.system.users[n]) = login(b.system.users[n])
             /\ b.system.users[n].keys \subseteq a.system.users[n].keys
             /\ n \notin DOMAIN sel.credentials => a.system.users[n] = b.system.users[n]
  <2> DEFINE m == WithKeys(y.system.users[n], world.host)
             o == WithKeys(x.system.users[n], world.host)
  <2>1. n \in DOMAIN x.system.users /\ Like(x.system.users[n], NoUser)
    BY <1>5
  <2>2. n \in DOMAIN y.system.users /\ KeptAccount(m, o, n \in DOMAIN sel.credentials)
    <3>1. /\ DOMAIN sel.credentials \subseteq DOMAIN x.system.users
          /\ \A k \in DOMAIN sel.newUsers : k \notin DOMAIN x.system.users
      BY <1>3, <1>5
    <3>2. Changed(y, x, u)
      BY DEF u
    <3> QED
      BY <1>2, <2>1, <3>1, <3>2, AccountsKept
  <2>3. a.system.users[n] = m /\ b.system.users[n] = o
    BY <1>5, <2>1, <2>2
  <2> HIDE DEF m, o
  <2> QED
    BY <2>2, <2>3 DEF KeptAccount, Rest
<1>10. ASSUME NEW r \in Range(b.repos) PROVE \E z \in Range(a.repos) : SameRepository(z, r)
  <2>1. PICK S : x.repos \in Seq(S) /\ u.repos \in Seq(S)
    BY DEF u
  <2>2. r \in Range(x.repos) /\ a.repos = MergeRepositories(x.repos, u.repos)
    BY <1>4, <1>5
  <2> QED
    BY <2>1, <2>2, RepositoriesKept
<1>11. sel.disk = <<>> => u.disk = NoDisk
  BY <1>2 DEF DeltaDisk
<1>12. x.target = u.target
  BY DEF u
<1>13. /\ sel.disk = <<>> => a.disk = b.disk
       /\ sel.disk = <<>> /\ HasHashPartition(b.disk) => a.system.immutability = b.system.immutability
       /\ ~SelectsEdgePack(sel.packages, world.edgePack) => a.system.dkms = b.system.dkms
       /\ a.target = b.target /\ a.baseline = b.baseline
       /\ a.overlayPolicy = b.overlayPolicy
       /\ a.system.packages = b.system.packages \cup sel.packages
  BY <1>2, <1>4, <1>5, <1>11, <1>12
<1> HIDE DEF unasked, login
<1> QED
  BY <1>6, <1>8, <1>9, <1>10, <1>13

(* The delta's chain is the template's with the delta before it, and the      *)
(* template's has nothing of the delta.                                      *)
LEMMA DeltaFiles ==
  /\ DOMAIN WithDelta = DOMAIN world.files \cup {DeltaPath}
  /\ WithDelta[DeltaPath] = DeltaLayer
  /\ \A p \in DOMAIN world.files : p # DeltaPath => WithDelta[p] = world.files[p]
BY DEF WithDelta, Put

LEMMA DeltaChain ==
  ASSUME FilesInv, world.request # "build",
         NEW d, IsWhole(d, DeltaPath, WithDelta), NEW b, IsWhole(b, world.leaf, WithDelta)
  PROVE  /\ Len(b) \in Nat \ {0} /\ Len(d) = 1 + Len(b) /\ d[1].layer = DeltaLayer
         /\ \A i \in 1..Len(b) : d[1 + i].layer = b[i].layer
         /\ IsWhole(b, world.leaf, world.files)
<1> DEFINE m == Len(d)
           n == Len(b)
<1>1. m \in Nat /\ n \in Nat /\ m >= 1 /\ n >= 1 /\ DOMAIN d = 1..m /\ DOMAIN b = 1..n
  <2>1. d \in Seq(Range(d)) /\ b \in Seq(Range(b)) /\ d # <<>> /\ b # <<>>
    BY DEF IsWhole, IsWalk
  <2> QED
    BY <2>1
<1> HIDE DEF m, n
<1>2. /\ d[1].path = DeltaPath /\ d[1].layer = WithDelta[CanonicalPath(d[1].path)]
      /\ \A i, j \in 1..m : CanonicalPath(d[j].path) = CanonicalPath(d[i].path) => j = i
      /\ \A i \in 1..(m - 1) : d[i + 1].path = ResolveExtendsParentPath(d[i].path, d[i].layer.extends)
      /\ d[m].layer.extends = <<>>
  <2>1. /\ d[1].path = DeltaPath /\ d[m].layer.extends = <<>>
        /\ \A i \in 1..(m - 1) : d[i + 1].path = ResolveExtendsParentPath(d[i].path, d[i].layer.extends)
    BY DEF IsWhole, IsWalk, m
  <2>2. \A i \in 1..m : /\ d[i].layer = WithDelta[CanonicalPath(d[i].path)]
                        /\ \A j \in 1..m : CanonicalPath(d[j].path) = CanonicalPath(d[i].path) => j = i
    BY <1>1 DEF IsWhole, IsWalk
  <2>3. 1 \in 1..m
    BY <1>1
  <2> QED
    BY <2>1, <2>2, <2>3
<1>3. d[1].layer = DeltaLayer /\ DeltaLayer.extends = Named
  <2>1. d[1].layer = DeltaLayer
    BY <1>2, DeltaLeadsBack, DeltaFiles
  <2> QED
    BY <2>1, DeltaSays DEF DeltaLayer
<1>4. m # 1 /\ d[2].path = world.leaf
  <2>1. m # 1
    BY <1>2, <1>3, DeltaLeadsBack
  <2>2. 1 \in 1..(m - 1) /\ 1 + 1 = 2
    BY <1>1, <2>1
  <2>3. d[2].path = ResolveExtendsParentPath(d[1].path, d[1].layer.extends)
    BY <1>2, <2>2
  <2> QED
    BY <1>2, <1>3, <2>1, <2>3, DeltaLeadsBack
<1>5. m = 1 + n /\ \A i \in 1..n : d[1 + i].path = b[i].path /\ d[1 + i].layer = b[i].layer
  <2>1. 1 \in Nat /\ 1 < Len(d) /\ d[1 + 1].path = world.leaf
    BY <1>1, <1>4 DEF m
  <2> QED
    BY <2>1, WalksAgree DEF m, n
<1>6. ASSUME NEW i \in 1..n
      PROVE  /\ CanonicalPath(b[i].path) # DeltaPath
             /\ CanonicalPath(b[i].path) \in DOMAIN world.files
             /\ b[i].layer = world.files[CanonicalPath(b[i].path)]
  <2>1. /\ CanonicalPath(b[i].path) \in DOMAIN WithDelta
        /\ b[i].layer = WithDelta[CanonicalPath(b[i].path)]
    BY <1>1 DEF IsWhole, IsWalk
  <2>2. CanonicalPath(b[i].path) # DeltaPath
    <3>1. 1 + i \in 1..m /\ 1 \in 1..m /\ 1 + i # 1
      BY <1>1, <1>5
    <3>2. CanonicalPath(d[1].path) = DeltaPath /\ d[1 + i].path = b[i].path
      BY <1>2, <1>5, DeltaLeadsBack
    <3> QED
      BY <1>2, <3>1, <3>2
  <2> QED
    BY <2>1, <2>2, DeltaFiles
<1>7. IsWhole(b, world.leaf, world.files)
  BY <1>1, <1>6 DEF IsWhole, IsWalk
<1> QED
  BY <1>1, <1>3, <1>5, <1>7 DEF m, n

(* Of what they are made of, too.                                            *)
LEMMA DeltaLast ==
  ASSUME FilesInv, world.request # "build",
         NEW d, IsWhole(d, DeltaPath, WithDelta), NEW b, IsWhole(b, world.leaf, WithDelta)
  PROVE  LET s == ChainLayers(b)
             q == ChainLayers(d)
         IN  /\ Len(s) \in Nat \ {0} /\ Len(q) = Len(s) + 1 /\ q[Len(q)] = DeltaLayer
             /\ \A i \in 1..Len(s) : q[i] = s[i]
             /\ \A i \in 1..Len(s) : \E p \in DOMAIN world.files : s[i] = world.files[p]
             /\ s[Len(s)] = world.files[CanonicalPath(world.leaf)]
             /\ LET S == {world.files[p] : p \in DOMAIN world.files} IN
                s \in Seq(S) /\ q \in Seq(S \cup {DeltaLayer})
<1> DEFINE n == Len(b)
           s == ChainLayers(b)
           q == ChainLayers(d)
<1>1. /\ n \in Nat \ {0} /\ Len(d) = 1 + n /\ d[1].layer = DeltaLayer
      /\ \A i \in 1..n : d[1 + i].layer = b[i].layer
      /\ IsWhole(b, world.leaf, world.files)
  BY DeltaChain
<1>2. /\ b[1].path = world.leaf
      /\ \A i \in 1..n : /\ CanonicalPath(b[i].path) \in DOMAIN world.files
                         /\ b[i].layer = world.files[CanonicalPath(b[i].path)]
  <2>1. DOMAIN b = 1..n
    BY DEF IsWhole, IsWalk
  <2> QED
    BY <1>1, <2>1 DEF IsWhole, IsWalk
<1> HIDE DEF n
<1>3. s = [i \in 1..n |-> b[(n - i) + 1].layer] /\ q = [i \in 1..(1 + n) |-> d[((1 + n) - i) + 1].layer]
  BY <1>1 DEF ChainLayers, n
<1> HIDE DEF s, q
<1>4. Len(s) = n /\ Len(q) = n + 1
  BY <1>1, <1>3
<1>5. q[n + 1] = DeltaLayer
  <2>1. n + 1 \in 1..(1 + n) /\ ((1 + n) - (n + 1)) + 1 = 1
    BY <1>1
  <2> QED
    BY <1>1, <1>3, <2>1
<1>6. ASSUME NEW i \in 1..n
      PROVE  q[i] = s[i] /\ \E p \in DOMAIN world.files : s[i] = world.files[p]
  <2>1. i \in 1..(1 + n) /\ (n - i) + 1 \in 1..n /\ ((1 + n) - i) + 1 = 1 + ((n - i) + 1)
    BY <1>1
  <2>2. s[i] = b[(n - i) + 1].layer /\ q[i] = d[1 + ((n - i) + 1)].layer
    BY <1>3, <2>1
  <2> DEFINE k == (n - i) + 1
  <2> HIDE DEF k
  <2>3. s[i] = b[k].layer /\ q[i] = d[1 + k].layer /\ k \in 1..n
    BY <2>1, <2>2 DEF k
  <2> QED
    BY <1>1, <1>2, <2>3
<1>7. s[n] = world.files[CanonicalPath(world.leaf)]
  <2>1. n \in 1..n /\ (n - n) + 1 = 1 /\ 1 \in 1..n
    BY <1>1
  <2>2. s[n] = b[1].layer
    BY <1>3, <2>1
  <2> QED
    BY <1>2, <2>1, <2>2
<1> DEFINE S == {world.files[p] : p \in DOMAIN world.files}
<1>8. s \in Seq(S) /\ q \in Seq(S \cup {DeltaLayer})
  <2>1. n \in Nat /\ \A i \in 1..n : s[i] \in S /\ q[i] \in S
    BY <1>1, <1>6
  <2>2. \A i \in 1..(n + 1) : i = n + 1 \/ i \in 1..n
    BY <2>1
  <2>3. \A i \in 1..(n + 1) : q[i] \in S \cup {DeltaLayer}
    BY <1>5, <2>1, <2>2
  <2>4. s = [i \in 1..n |-> s[i]] /\ q = [i \in 1..(n + 1) |-> q[i]]
    BY <1>1, <1>3
  <2> HIDE DEF S
  <2> QED
    BY <2>1, <2>3, <2>4
<1> QED
  BY <1>1, <1>4, <1>5, <1>6, <1>7, <1>8 DEF s, q

LEMMA MoreMerged ==
  ASSUME NEW S, NEW T, NEW s \in Seq(S), NEW q \in Seq(T), s # <<>>, Len(q) = Len(s) + 1,
         \A i \in 1..Len(s) : q[i] = s[i]
  PROVE  /\ FoldChain(q[1], Tail(q)) = MergeConfigurations(q[Len(q)], FoldChain(s[1], Tail(s)))
         /\ \A base : FoldChain(base, q) = MergeConfigurations(q[Len(q)], FoldChain(base, s))
<1> DEFINE a == Tail(s)
           b == Tail(q)
           n == Len(s)
<1>1. n \in Nat /\ n >= 1 /\ Len(q) = n + 1
  OBVIOUS
<1>2. /\ Len(a) = n - 1 /\ \A i \in 1..(n - 1) : a[i] = s[i + 1]
      /\ Len(b) = n /\ \A i \in 1..n : b[i] = q[i + 1]
  BY <1>1
<1> HIDE DEF a, b, n
<1>3. /\ Len(a) \in Nat /\ Len(b) = Len(a) + 1 /\ b[Len(b)] = q[Len(q)] /\ q[1] = s[1]
      /\ \A i \in 1..Len(a) : b[i] = a[i]
  <2>1. n - 1 \in Nat /\ n = (n - 1) + 1 /\ n \in 1..n /\ 1 \in 1..n
    BY <1>1
  <2>2. \A i \in 1..n : q[i] = s[i]
    BY DEF n
  <2>3. ASSUME NEW i \in 1..(n - 1) PROVE b[i] = a[i]
    <3>1. i \in 1..n /\ i + 1 \in 1..n
      BY <1>1
    <3>2. b[i] = q[i + 1] /\ a[i] = s[i + 1] /\ q[i + 1] = s[i + 1]
      BY <1>2, <2>2, <3>1
    <3> QED
      BY <3>2
  <2> QED
    BY <1>1, <1>2, <2>1, <2>2, <2>3
<1>4. FoldChain(q[1], b) = MergeConfigurations(q[Len(q)], FoldChain(s[1], a))
  BY <1>3, LastMerged
<1>5. ASSUME NEW base PROVE FoldChain(base, q) = MergeConfigurations(q[Len(q)], FoldChain(base, s))
  BY <1>1, LastMerged DEF n
<1> QED
  BY <1>4, <1>5 DEF a, b

(* What is merged is for the target of the last.                             *)
LEMMA LastTarget ==
  ASSUME NEW base, Sound(base), NEW S, \A l \in S : Sound(l), NEW s \in Seq(S)
  PROVE  FoldChain(base, s).target = IF s = <<>> THEN base.target ELSE s[Len(s)].target
<1>1. CASE s = <<>>
  BY <1>1, NoneMerged
<1>2. CASE s # <<>>
  <2> DEFINE a == SubSeq(s, 1, Len(s) - 1)
  <2>1. /\ Len(a) \in Nat /\ Len(s) = Len(a) + 1
        /\ \A i \in 1..Len(a) : s[i] = a[i] /\ Sound(a[i])
    BY <1>2
  <2> HIDE DEF a
  <2>2. FoldChain(base, s) = MergeConfigurations(s[Len(s)], FoldChain(base, a))
    BY <2>1, LastMerged
  <2>3. Shaped(FoldChain(base, a))
    BY <2>1, ChainSound DEF Sound
  <2> QED
    BY <1>2, <2>2, <2>3, TemplateMerged DEF TemplateIs
<1> QED
  BY <1>1, <1>2

(* What a chain is loaded as is lowered from this, which is an overlay or is  *)
(* not, whatever the default says.                                           *)
Under(layers) ==
  LET user == [FoldChain(layers[1], Tail(layers)) EXCEPT !.extends = <<>>]
  IN  IF IsOverlayMode(user) \/ world.default = <<>> THEN user ELSE FoldChain(world.default[1], layers)

LEMMA WorldSound ==
  ASSUME FilesInv, world.request # "build"
  PROVE  /\ \A p \in DOMAIN world.files : IsLayer(world.files[p]) /\ Sound(world.files[p])
         /\ world.default # <<>> => IsLayer(world.default[1]) /\ Sound(world.default[1])
         /\ IsLayer(DeltaLayer) /\ Shaped(DeltaLayer)
<1>1. world \in Worlds /\ world \in {x \in Worlds : x.request # "build"}
  BY DEF FilesInv
<1>2. /\ \A p \in DOMAIN world.files : IsLayer(world.files[p])
      /\ world.default # <<>> => IsLayer(world.default[1])
      /\ IsList(world.catalogue) /\ \A r \in Range(world.catalogue) : IsOffer(r)
  BY <1>1, LayersAssumption DEF IsOffer
<1>3. /\ \A p \in DOMAIN world.files : HasSections(world.files[p])
      /\ world.default # <<>> => HasSections(world.default[1])
  BY <1>1, SelectionAssumption
<1>4. \A t : IsLayer(t) => Shaped(t)
  BY DEF IsLayer, IsTemplate, Shaped
<1>5. IsLayer(DeltaLayer)
  BY <1>2, DeltaIsLayer DEF DeltaLayer
<1> QED
  BY <1>2, <1>3, <1>4, <1>5 DEF Sound

(* An extends of its own is nothing to what the delta changes.               *)
LEMMA ChangedPlain ==
  ASSUME NEW x, Sound(x), NEW y, NEW u, Changed(y, x, u), NEW w, NEW v,
         w = [x EXCEPT !.extends = <<>>], v = [y EXCEPT !.extends = <<>>]
  PROVE  Changed(v, w, u) /\ Sound(w) /\ w.target = x.target /\ w.repos = x.repos
<1>1. {"system", "disk", "target", "baseline", "overlayPolicy", "repos", "extends"} \subseteq DOMAIN NoTemplate
  BY DEF NoTemplate
<1>2. Shaped(x) /\ Shaped(y)
  BY DEF Sound, Changed
<1>3. /\ DOMAIN w = DOMAIN NoTemplate /\ w.system = x.system /\ w.disk = x.disk /\ w.baseline = x.baseline
      /\ w.overlayPolicy = x.overlayPolicy /\ w.repos = x.repos /\ w.target = x.target
      /\ DOMAIN v = DOMAIN NoTemplate /\ v.system = y.system /\ v.disk = y.disk /\ v.baseline = y.baseline
      /\ v.overlayPolicy = y.overlayPolicy /\ v.repos = y.repos /\ v.target = y.target /\ v.extends = <<>>
  BY <1>1, <1>2 DEF Shaped
<1>4. Shaped(v) /\ Sound(w)
  BY <1>2, <1>3 DEF Sound, Shaped, HasSections
<1>5. Changed(v, w, u)
  BY <1>3, <1>4 DEF Changed
<1> QED
  BY <1>3, <1>4, <1>5

LEMMA UnderChanged ==
  ASSUME FilesInv, world.request # "build",
         NEW S, \A l \in S : Sound(l) /\ IsLayer(l), NEW s \in Seq(S), s # <<>>,
         NEW q \in Seq(S \cup {DeltaLayer}), Len(q) = Len(s) + 1, q[Len(q)] = DeltaLayer,
         \A i \in 1..Len(s) : q[i] = s[i]
  PROVE  LET x == Under(s)
         IN  /\ Changed(Under(q), x, DeltaLayer)
             /\ Sound(x) /\ IsLayer(x) /\ x.target = s[Len(s)].target
             /\ IsOverlayMode([FoldChain(q[1], Tail(q)) EXCEPT !.extends = <<>>])
                  <=> IsOverlayMode([FoldChain(s[1], Tail(s)) EXCEPT !.extends = <<>>])
<1> DEFINE a == FoldChain(s[1], Tail(s))
           b == FoldChain(q[1], Tail(q))
           w == [a EXCEPT !.extends = <<>>]
           v == [b EXCEPT !.extends = <<>>]
           e == FoldChain(world.default[1], s)
           f == FoldChain(world.default[1], q)
           u == DeltaLayer
<1>1. b = MergeConfigurations(u, a) /\ f = MergeConfigurations(u, e)
  BY MoreMerged
<1>2. s[1] \in S /\ Tail(s) \in Seq(S) /\ Len(s) \in Nat \ {0}
  OBVIOUS
<1>3. Sound(a) /\ IsLayer(a) /\ a.target = s[Len(s)].target
  <2>0. /\ Len(Tail(s)) = Len(s) - 1
        /\ \A i \in 1..(Len(s) - 1) : Tail(s)[i] = s[i + 1]
    BY <1>2
  <2>1. Sound(a)
    <3>1. Len(Tail(s)) \in Nat /\ \A i \in 1..Len(Tail(s)) : Tail(s)[i] \in S
      BY <1>2
    <3> QED
      BY <1>2, <3>1, ChainSound
  <2>2. IsLayer(a)
    BY <1>2, FoldedLayer
  <2>3. a.target = IF Tail(s) = <<>> THEN s[1].target ELSE Tail(s)[Len(Tail(s))].target
    BY <1>2, LastTarget
  <2> DEFINE t == Tail(s)
             n == Len(s)
  <2>4. n \in Nat /\ n >= 1 /\ t \in Seq(S) /\ Len(t) = n - 1 /\ \A i \in 1..(n - 1) : t[i] = s[i + 1]
    BY <1>2, <2>0
  <2> HIDE DEF t, n
  <2>5. IF t = <<>> THEN n = 1 ELSE t[Len(t)] = s[n]
    <3>1. CASE n = 1
      <4>1. t = <<>>
        BY <2>4, <3>1, EmptySeq
      <4> QED
        BY <3>1, <4>1
    <3>2. CASE n # 1
      <4>1. n - 1 \in 1..(n - 1) /\ (n - 1) + 1 = n /\ Len(t) # 0
        BY <2>4, <3>2
      <4>2. t[Len(t)] = s[n] /\ t # <<>>
        BY <2>4, <4>1
      <4> QED
        BY <4>2
    <3> QED
      BY <3>1, <3>2
  <2> QED
    BY <2>1, <2>2, <2>3, <2>5 DEF t, n
<1>4. world.default # <<>> => Sound(e) /\ IsLayer(e) /\ e.target = s[Len(s)].target
  <2>1. SUFFICES ASSUME world.default # <<>> PROVE Sound(e) /\ IsLayer(e) /\ e.target = s[Len(s)].target
    OBVIOUS
  <2>2. IsLayer(world.default[1]) /\ Sound(world.default[1])
    BY <2>1, WorldSound
  <2>3. Sound(e)
    BY <2>2, ChainSound
  <2>4. IsLayer(e)
    BY <2>2, FoldedLayer
  <2>5. e.target = s[Len(s)].target
    BY <2>2, LastTarget
  <2> QED
    BY <2>3, <2>4, <2>5
<1> HIDE DEF a, b, e, f
<1>5. /\ Shaped(u) /\ u.baseline = <<>> /\ u.overlayPolicy = <<>>
      /\ \A g \in DOMAIN NoSystem \ {"packages", "users", "dkms"} : u.system[g] = NoSystem[g]
  BY DeltaSays DEF DeltaLayer
<1>6. Changed(b, a, u) /\ (world.default # <<>> => Changed(f, e, u))
  BY <1>1, <1>3, <1>4, <1>5, DeltaMerged
<1>7. Changed(v, w, u) /\ Sound(w) /\ w.target = a.target /\ w.repos = a.repos
  BY <1>3, <1>6, ChangedPlain
<1>8. IsLayer(w)
  BY <1>3, Extended
<1>9. IsOverlayMode(v) <=> IsOverlayMode(w)
  <2>1. v.baseline = w.baseline
    BY <1>7 DEF Changed
  <2> QED
    BY <2>1 DEF IsOverlayMode
<1>10. /\ Under(s) = IF IsOverlayMode(w) \/ world.default = <<>> THEN w ELSE e
       /\ Under(q) = IF IsOverlayMode(v) \/ world.default = <<>> THEN v ELSE f
  BY DEF Under, a, b, e, f
<1> HIDE DEF v, w, u
<1>11. /\ Changed(Under(q), Under(s), u) /\ Sound(Under(s)) /\ IsLayer(Under(s))
       /\ Under(s).target = s[Len(s)].target
  <2>1. CASE IsOverlayMode(w) \/ world.default = <<>>
    BY <1>3, <1>7, <1>8, <1>9, <1>10, <2>1
  <2>2. CASE ~(IsOverlayMode(w) \/ world.default = <<>>)
    BY <1>4, <1>6, <1>9, <1>10, <2>2
  <2> QED
    BY <2>1, <2>2
<1> QED
  BY <1>9, <1>11 DEF a, b, v, w, u

LEMMA LoadedUnder ==
  ASSUME NEW c, NEW s, s = ChainLayers(c), Shaped(Under(s)), Loaded(c) # Refused,
         NEW user, user = [FoldChain(s[1], Tail(s)) EXCEPT !.extends = <<>>]
  PROVE  IF IsOverlayMode(user) THEN KeyedTo(Loaded(c)[1], Under(s), world.host)
         ELSE LoweredTo(Loaded(c)[1], Under(s), world.host)
<1>1. Loaded(c) = IF IsOverlayMode(user) THEN LoadOverlay(Under(s)) ELSE LoadFinal(Under(s))
  BY DEF Loaded, ChainUser, Under
<1>2. CASE IsOverlayMode(user)
  BY <1>1, <1>2, OverlayLowered
<1>3. CASE ~IsOverlayMode(user)
  BY <1>1, <1>3, FinalLowered
<1> QED
  BY <1>2, <1>3

(* So is what the service compares.                                          *)
LEMMA Composed ==
  ASSUME FilesInv, world.request # "build",
         NEW d, IsWhole(d, DeltaPath, WithDelta), views.delta = Loaded(d), views.delta # <<>>,
         NEW b, IsWhole(b, world.leaf, WithDelta), views.base = Loaded(b), views.base # <<>>,
         ValidateCredentials(world.sel.credentials, views.base[1]),
         ValidateNewUsers(world.sel.newUsers, views.base[1])
  PROVE  DeltaChangesOnlyWhatWasAsked
<1> DEFINE s == ChainLayers(b)
           q == ChainLayers(d)
           S == {world.files[p] : p \in DOMAIN world.files}
           x == Under(s)
           y == Under(q)
<1>1. /\ Len(s) \in Nat \ {0} /\ Len(q) = Len(s) + 1 /\ q[Len(q)] = DeltaLayer
      /\ \A i \in 1..Len(s) : q[i] = s[i]
      /\ s[Len(s)] = world.files[CanonicalPath(world.leaf)]
      /\ s \in Seq(S) /\ q \in Seq(S \cup {DeltaLayer})
  BY DeltaLast
<1>2. \A l \in S : Sound(l) /\ IsLayer(l)
  BY WorldSound
<1> DEFINE user(l) == [FoldChain(l[1], Tail(l)) EXCEPT !.extends = <<>>]
<1> HIDE DEF s, q, S
<1>3. s # <<>>
  BY <1>1
<1>4. /\ Changed(y, x, DeltaLayer) /\ Sound(x) /\ IsLayer(x) /\ x.target = s[Len(s)].target
      /\ IsOverlayMode(user(q)) <=> IsOverlayMode(user(s))
  BY <1>1, <1>2, <1>3, UnderChanged
<1>5. Shaped(x) /\ Shaped(y)
  BY <1>4 DEF Sound, Changed
<1>6. LoweredAlike(views.delta[1], y, views.base[1], x)
  <2> HIDE DEF x, y
  <2>1. IF IsOverlayMode(user(s)) THEN KeyedTo(Loaded(b)[1], x, world.host)
        ELSE LoweredTo(Loaded(b)[1], x, world.host)
    BY <1>5, LoadedUnder DEF Refused, s, x
  <2>2. IF IsOverlayMode(user(q)) THEN KeyedTo(Loaded(d)[1], y, world.host)
        ELSE LoweredTo(Loaded(d)[1], y, world.host)
    BY <1>5, LoadedUnder DEF Refused, q, y
  <2> QED
    BY <1>4, <2>1, <2>2 DEF LoweredAlike
<1> HIDE DEF x, y
<1>7. x.target = DeltaLayer.target
  BY <1>1, <1>4, DeltaSays DEF DeltaLayer
<1>8. \A n \in DOMAIN x.system.users : Like(x.system.users[n], NoUser)
  BY <1>4 DEF Sound, HasSections
<1>9. \E T : x.repos \in Seq(T) /\ DeltaLayer.repos \in Seq(T)
  <2>1. IsList(x.repos) /\ IsList(DeltaLayer.repos)
    BY <1>4, WorldSound DEF IsLayer, IsTemplate
  <2> DEFINE T == Range(x.repos) \cup Range(DeltaLayer.repos)
  <2>2. x.repos \in Seq(T) /\ DeltaLayer.repos \in Seq(T)
    BY <2>1 DEF IsList
  <2> HIDE DEF T
  <2> QED
    BY <2>2
<1> QED
  BY <1>4, <1>6, <1>7, <1>8, <1>9, ComposedAlike

-----------------------------------------------------------------------------
(* How the service comes to what it compares *)

(* What is loaded is a walk, by itself and with each layer more.             *)
LEMMA FirstWalk ==
  ASSUME NEW path, Loadable(path)
  PROVE  IsWalk(<<LoadTemplate(path)>>, path, files)
<1> DEFINE l == LoadTemplate(path)
           c == <<l>>
<1>1. CanonicalPath(path) \in DOMAIN files /\ l.path = path /\ l.layer = files[CanonicalPath(path)]
  BY DEF Loadable, LoadTemplate
<1> HIDE DEF l
<1>2. c \in Seq(Range(c)) /\ c # <<>> /\ Len(c) = 1 /\ DOMAIN c = {1} /\ c[1] = l
  <2>1. c \in Seq({l}) /\ Len(c) = 1 /\ DOMAIN c = {1} /\ c[1] = l /\ c # <<>>
    OBVIOUS
  <2> HIDE DEF c
  <2>2. c \in Seq(Range(c))
    BY <2>1, ListIn DEF IsList
  <2> QED
    BY <2>1, <2>2
<1> HIDE DEF c
<1>3. \A i \in DOMAIN c : c[i] = l /\ i = 1
  BY <1>2
<1>4. 1..(Len(c) - 1) = {}
  BY <1>2
<1>5. IsWalk(c, path, files)
  BY <1>1, <1>2, <1>3, <1>4 DEF IsWalk
<1> QED
  BY <1>5 DEF c, l

LEMMA NextWalk ==
  ASSUME NEW path, IsWalk(chain, path, files), LoadParent
  PROVE  IsWalk(chain', path, files)
<1> DEFINE n == Len(chain)
           child == Last(chain)
           parent == ResolveExtendsParentPath(child.path, child.layer.extends)
           l == LoadTemplate(parent)
<1>1. /\ chain \in Seq(Range(chain)) /\ chain # <<>> /\ n \in Nat /\ n >= 1 /\ DOMAIN chain = 1..n
      /\ chain[1].path = path
  BY DEF IsWalk
<1>2. /\ child.layer.extends # <<>> /\ AcceptsParent(parent) /\ chain' = Append(chain, l)
  BY DEF LoadParent
<1>3. child = chain[n]
  BY DEF Last
<1>4. /\ DOMAIN chain' = 1..(n + 1) /\ Len(chain') = n + 1 /\ chain' \in Seq(Range(chain'))
      /\ \A i \in 1..n : chain'[i] = chain[i]
      /\ chain'[n + 1] = l
  <2> DEFINE T == Range(chain) \cup {l}
  <2>1. chain \in Seq(T) /\ l \in T
    BY <1>1
  <2> HIDE DEF T, l
  <2>2. chain' \in Seq(T)
    BY <1>2, <2>1
  <2>3. chain' \in Seq(Range(chain'))
    BY <2>2, ListIn DEF IsList
  <2> QED
    BY <1>1, <1>2, <2>1, <2>3, OneMore
<1>5. /\ CanonicalPath(parent) \in DOMAIN files /\ l.path = parent
      /\ l.layer = files[CanonicalPath(parent)] /\ l.layer.target = chain[1].layer.target
      /\ \A i \in 1..n : CanonicalPath(chain[i].path) # CanonicalPath(parent)
  <2>1. \A i \in 1..n : chain[i] \in Range(chain)
    BY <1>1 DEF Range
  <2> QED
    BY <1>2, <2>1 DEF AcceptsParent, LoadTemplate
<1> DEFINE e == chain'
<1> HIDE DEF n, child, parent, l, e
<1>6. /\ e \in Seq(Range(e)) /\ e # <<>> /\ e[1].path = path /\ e[1] = chain[1] /\ DOMAIN e = 1..(n + 1)
  <2>1. 1 \in 1..n
    BY <1>1
  <2>2. 1 \in DOMAIN e
    BY <1>1, <1>4 DEF e
  <2> QED
    BY <1>1, <1>4, <2>1, <2>2 DEF e
<1>7. ASSUME NEW i \in 1..(n + 1)
      PROVE  LET at == CanonicalPath(e[i].path) IN
             /\ at \in DOMAIN files /\ e[i].layer = files[at] /\ e[i].layer.target = e[1].layer.target
             /\ \A j \in 1..(n + 1) : CanonicalPath(e[j].path) = at => j = i
  <2>0. \A j \in 1..(n + 1) : j = n + 1 \/ j \in 1..n
    BY <1>1
  <2>1. \A j \in 1..n :
          /\ CanonicalPath(chain[j].path) \in DOMAIN files
          /\ chain[j].layer = files[CanonicalPath(chain[j].path)]
          /\ chain[j].layer.target = chain[1].layer.target
          /\ \A k \in 1..n : CanonicalPath(chain[k].path) = CanonicalPath(chain[j].path) => k = j
    BY <1>1 DEF IsWalk
  <2>2. e[n + 1].path = parent /\ e[n + 1].layer = l.layer /\ \A j \in 1..n : e[j] = chain[j]
    BY <1>4, <1>5 DEF e
  <2>3. CASE i = n + 1
    BY <1>5, <1>6, <2>0, <2>2, <2>3
  <2>4. CASE i \in 1..n
    BY <1>5, <1>6, <2>0, <2>1, <2>2, <2>4
  <2> QED
    BY <2>0, <2>3, <2>4
<1>8. ASSUME NEW i \in 1..n
      PROVE  e[i].layer.extends # <<>> /\ e[i + 1].path = ResolveExtendsParentPath(e[i].path, e[i].layer.extends)
  <2>1. CASE i = n
    BY <1>2, <1>3, <1>4, <1>5, <2>1 DEF e, parent
  <2>2. CASE i # n
    <3>1. i \in 1..(n - 1) /\ i + 1 \in 1..n
      BY <1>1, <2>2
    <3>2. /\ chain[i].layer.extends # <<>>
          /\ chain[i + 1].path = ResolveExtendsParentPath(chain[i].path, chain[i].layer.extends)
      BY <3>1 DEF IsWalk, n
    <3> QED
      BY <1>4, <3>1, <3>2 DEF e
  <2> QED
    BY <2>1, <2>2
<1>9. Len(e) - 1 = n
  BY <1>1, <1>4 DEF e
<1>10. IsWalk(e, path, files)
  BY <1>6, <1>7, <1>8, <1>9 DEF IsWalk
<1> QED
  BY <1>10 DEF e

(* A walk that has come to its end is loaded.                                *)
LEMMA WalkLoaded ==
  ASSUME NEW path, IsWalk(chain, path, files), LoadAndMergeTemplate
  PROVE  IsWhole(chain, path, files) /\ template' = Loaded(chain)
<1>1. chain \in Seq(Range(chain)) /\ chain # <<>> /\ Len(chain) \in Nat
  <2>1. chain \in Seq(Range(chain)) /\ chain # <<>>
    BY DEF IsWalk
  <2> QED
    BY <2>1
<1>2. IsWhole(chain, path, files)
  BY DEF LoadAndMergeTemplate, IsWhole, Last
<1>3. UserChain = ChainLayers(chain)
  <2> DEFINE n == Len(chain)
             r == [i \in 1..n |-> chain[(n - i) + 1]]
  <2>1. Reverse(chain) = r
    BY DEF Reverse
  <2>2. UserChain = [i \in DOMAIN Reverse(chain) |-> Reverse(chain)[i].layer]
    BY DEF UserChain, With
  <2>3. DOMAIN r = 1..n
    OBVIOUS
  <2> QED
    BY <2>1, <2>2, <2>3 DEF ChainLayers
<1>4. UserMerged = ChainUser(chain)
  BY <1>3 DEF UserMerged, ChainUser, With
<1>5. template' = Loaded(chain)
  BY <1>3, <1>4 DEF LoadAndMergeTemplate, Loaded, With
<1> QED
  BY <1>2, <1>5

(* Where the service is with a selection: which files there are, what the     *)
(* chain under way leads through, and what it has of the chains before.       *)
Selecting == goal \in {"parent", "delta", "base"} /\ pc # "failed"
PathOf(g) == IF g = "delta" THEN DeltaPath ELSE world.leaf
FilesOf(g) == IF g = "parent" THEN world.files ELSE WithDelta
Result(v, path, fs) == \E c : IsWhole(c, path, fs) /\ v = Loaded(c)
CheckedBy(t) == ValidateCredentials(world.sel.credentials, t) /\ ValidateNewUsers(world.sel.newUsers, t)
Checked ==
  \/ world.sel.credentials = <<>> /\ world.sel.newUsers = <<>>
  \/ \E v : v # <<>> /\ Result(v, world.leaf, world.files) /\ CheckedBy(v[1])

SelectionInv ==
  /\ pc \in {"delta", "resolve"} => goal = "parent"
  /\ pc = "composed" => goal = "base"
  /\ Selecting =>
        /\ world.request # "build"
        /\ pc \in {"load", "merged", "delta", "resolve", "composed"}
        /\ pc \in {"load", "merged"} => files = FilesOf(goal)
        /\ pc = "delta" => files = world.files
        /\ pc = "resolve" => files = WithDelta
        /\ pc \in {"delta", "resolve"} \/ goal # "parent" => Checked
        /\ pc = "load" /\ chain # <<>> => IsWalk(chain, PathOf(goal), files)
        /\ pc = "merged" /\ template # <<>> => Result(template, PathOf(goal), files)
        /\ goal = "base" => views.delta # <<>> /\ Result(views.delta, DeltaPath, WithDelta)
        /\ pc = "composed" /\ views.base # <<>> => Result(views.base, world.leaf, WithDelta)

(* The results stay so while the world does.                                 *)
LEMMA ResultsSeen ==
  ASSUME UNCHANGED world
  PROVE  /\ DeltaPath' = DeltaPath /\ WithDelta' = WithDelta
         /\ \A g : PathOf(g)' = PathOf(g) /\ FilesOf(g)' = FilesOf(g)
         /\ \A c, path, fs : IsWalk(c, path, fs)' = IsWalk(c, path, fs)
         /\ \A v, path, fs : Result(v, path, fs)' = Result(v, path, fs)
         /\ Checked' = Checked
<1>1. DeltaPath' = DeltaPath /\ \A p : CanonicalPath(p)' = CanonicalPath(p)
  BY DEF DeltaPath, CanonicalPath
<1>2. WithDelta' = WithDelta
  BY <1>1 DEF WithDelta, DeltaLayer, Named, CanonicalPath
<1>3. \A g : PathOf(g)' = PathOf(g) /\ FilesOf(g)' = FilesOf(g)
  BY <1>1, <1>2 DEF PathOf, FilesOf
<1>4. \A c, path, fs : IsWalk(c, path, fs)' = IsWalk(c, path, fs)
  BY DEF IsWalk, CanonicalPath
<1>5. \A c, path, fs : IsWhole(c, path, fs)' = IsWhole(c, path, fs)
  BY <1>4 DEF IsWhole
<1>6. \A c : Loaded(c)' = Loaded(c)
  BY DEF Loaded, LoadOverlay, LoadFinal
<1>7. \A v, path, fs : Result(v, path, fs)' = Result(v, path, fs)
  BY <1>5, <1>6 DEF Result
<1>8. Checked' = Checked
  BY <1>7 DEF Checked, CheckedBy
<1> QED
  BY <1>1, <1>2, <1>3, <1>4, <1>7, <1>8

(* What the service no longer selects is of no account.                      *)
LEMMA NotSelecting ==
  ASSUME ~Selecting', pc' \notin {"delta", "resolve", "composed"}
  PROVE  SelectionInv'
BY DEF SelectionInv

LEMMA FailedSelects == ASSUME Fail PROVE SelectionInv'
<1>1. pc' = "failed"
  BY DEF Fail
<1>2. ~Selecting'
  BY <1>1 DEF Selecting
<1> QED
  BY <1>1, <1>2, NotSelecting

(* A load begins a walk.                                                     *)
LEMMA LoadSelects ==
  ASSUME NEW g \in {"parent", "delta", "base"}, Load(PathOf(g), g), UNCHANGED <<world, files>>,
         world.request # "build", files = FilesOf(g), g # "parent" => Checked,
         g = "base" => views'.delta # <<>> /\ Result(views'.delta, DeltaPath, WithDelta)
  PROVE  SelectionInv'
<1>1. /\ goal' = g /\ pc' = "load"
      /\ chain' = IF Loadable(PathOf(g)) THEN <<LoadTemplate(PathOf(g))>> ELSE <<>>
  BY DEF Load
<1>2. chain' # <<>> => IsWalk(chain', PathOf(g), files)
  BY <1>1, FirstWalk
<1>3. /\ DeltaPath' = DeltaPath /\ WithDelta' = WithDelta
      /\ PathOf(g)' = PathOf(g) /\ FilesOf(g)' = FilesOf(g)
      /\ \A c, path, fs : IsWalk(c, path, fs)' = IsWalk(c, path, fs)
      /\ \A v, path, fs : Result(v, path, fs)' = Result(v, path, fs)
      /\ Checked' = Checked
  BY ResultsSeen
<1>4. /\ files' = FilesOf(goal)' /\ (goal' # "parent" => Checked')
      /\ chain' # <<>> => IsWalk(chain, PathOf(goal), files)'
      /\ goal' = "base" => views'.delta # <<>> /\ Result(views.delta, DeltaPath, WithDelta)'
  <2>1. PathOf(goal)' = PathOf(g) /\ FilesOf(goal)' = FilesOf(g)
    BY <1>1, <1>3 DEF PathOf, FilesOf
  <2>2. chain' # <<>> => IsWalk(chain, PathOf(goal), files)'
    BY <1>2, <1>3, <2>1
  <2>3. goal' = "base" => views'.delta # <<>> /\ Result(views.delta, DeltaPath, WithDelta)'
    BY <1>1, <1>3
  <2> QED
    BY <1>1, <1>3, <2>1, <2>2, <2>3
<1> QED
  BY <1>1, <1>4 DEF SelectionInv, Selecting

LEMMA SelectionStep ==
  ASSUME FilesInv, SelectionInv, [TemplateNext]_templateVars
  PROVE  SelectionInv'
<1>0. /\ pc \in {"delta", "resolve"} => goal = "parent"
      /\ pc = "composed" => goal = "base"
      /\ Selecting =>
        /\ world.request # "build"
        /\ pc \in {"load", "merged", "delta", "resolve", "composed"}
        /\ pc \in {"load", "merged"} => files = FilesOf(goal)
        /\ pc = "delta" => files = world.files
        /\ pc = "resolve" => files = WithDelta
        /\ pc \in {"delta", "resolve"} \/ goal # "parent" => Checked
        /\ pc = "load" /\ chain # <<>> => IsWalk(chain, PathOf(goal), files)
        /\ pc = "merged" /\ template # <<>> => Result(template, PathOf(goal), files)
        /\ goal = "base" => views.delta # <<>> /\ Result(views.delta, DeltaPath, WithDelta)
        /\ pc = "composed" /\ views.base # <<>> => Result(views.base, world.leaf, WithDelta)
  BY DEF SelectionInv
<1>s. UNCHANGED world =>
         /\ DeltaPath' = DeltaPath /\ WithDelta' = WithDelta
         /\ \A g : PathOf(g)' = PathOf(g) /\ FilesOf(g)' = FilesOf(g)
         /\ \A c, path, fs : IsWalk(c, path, fs)' = IsWalk(c, path, fs)
         /\ \A v, path, fs : Result(v, path, fs)' = Result(v, path, fs)
         /\ Checked' = Checked
  BY ResultsSeen
<1>1. ASSUME UNCHANGED <<world, files, goal, views>>, pc = "load", pc' \in {"load", "merged"},
             pc' = "load" /\ chain' # <<>> => (Selecting => IsWalk(chain', PathOf(goal), files)),
             pc' = "merged" /\ template' # <<>> => (Selecting => Result(template', PathOf(goal), files))
      PROVE  SelectionInv'
  <2>1. Selecting' => Selecting
    BY <1>1 DEF Selecting
  <2>2. /\ PathOf(goal)' = PathOf(goal) /\ FilesOf(goal)' = FilesOf(goal) /\ WithDelta' = WithDelta
        /\ DeltaPath' = DeltaPath /\ Checked' = Checked
    BY <1>1, <1>s DEF PathOf, FilesOf
  <2>3. /\ IsWalk(chain, PathOf(goal), files)' = IsWalk(chain', PathOf(goal), files)
        /\ Result(template, PathOf(goal), files)' = Result(template', PathOf(goal), files)
        /\ Result(views.delta, DeltaPath, WithDelta)' = Result(views.delta, DeltaPath, WithDelta)
    BY <1>1, <1>s, <2>2
  <2> QED
    BY <1>0, <1>1, <2>1, <2>2, <2>3 DEF SelectionInv
<1>2. CASE LoadFails
  BY <1>1, <1>2 DEF LoadFails
<1>3. CASE LoadParent
  <2>1. chain # <<>> /\ pc = "load" /\ pc' = "load" /\ UNCHANGED <<world, files, goal, views>>
    BY <1>3 DEF LoadParent
  <2>2. Selecting => IsWalk(chain', PathOf(goal), files)
    BY <1>0, <1>3, <2>1, NextWalk
  <2> QED
    BY <1>1, <2>1, <2>2
<1>4. CASE LoadAndMergeTemplate
  <2>1. chain # <<>> /\ pc = "load" /\ pc' = "merged" /\ UNCHANGED <<world, files, goal, views>>
    BY <1>4 DEF LoadAndMergeTemplate
  <2>2. Selecting => Result(template', PathOf(goal), files)
    BY <1>0, <1>4, <2>1, WalkLoaded DEF Result
  <2> QED
    BY <1>1, <2>1, <2>2
<1>5. CASE ComposeParent
  <2>1. CASE Fail
    BY <2>1, FailedSelects
  <2>2. CASE /\ template # <<>> /\ ValidateCredentials(world.sel.credentials, template[1])
             /\ ValidateNewUsers(world.sel.newUsers, template[1])
             /\ pc' = "delta" /\ UNCHANGED <<world, files, goal, chain, template, views>>
    <3>1. pc = "merged" /\ goal = "parent"
      BY <1>5 DEF ComposeParent
    <3>2. Selecting /\ files = world.files /\ Result(template, world.leaf, world.files)
      BY <1>0, <2>2, <3>1 DEF Selecting, FilesOf, PathOf
    <3>3. Checked
      BY <2>2, <3>2 DEF Checked, CheckedBy
    <3>4. Checked' /\ files' = world'.files /\ world'.request # "build"
      BY <1>0, <1>s, <2>2, <3>2, <3>3
    <3> QED
      BY <2>2, <3>1, <3>4 DEF SelectionInv
  <2> QED
    BY <1>5, <2>1, <2>2 DEF ComposeParent
<1>6. CASE DeltaForOverride
  <2>1. CASE Fail
    BY <2>1, FailedSelects
  <2>2. CASE ~Fail
    <3>1. /\ pc = "delta" /\ goal = "parent" /\ Selecting /\ files = world.files /\ Checked
      BY <1>0, <1>6 DEF DeltaForOverride, Selecting
    <3>2. /\ files' = Put(world.files, DeltaPath, DeltaLayer)
          /\ pc' = "resolve" /\ UNCHANGED <<world, goal, chain, template, views>>
      BY <1>6, <2>2, <3>1 DEF DeltaForOverride, DeltaLayer, Named
    <3>3. files' = WithDelta' /\ Checked' /\ world'.request # "build"
      BY <1>0, <1>s, <3>1, <3>2 DEF WithDelta
    <3> QED
      BY <3>1, <3>2, <3>3 DEF SelectionInv
  <2> QED
    BY <2>1, <2>2
<1>7. CASE ResolveDelta
  <2>1. pc = "resolve" /\ Load(DeltaPath, "delta") /\ UNCHANGED <<world, files>>
    BY <1>7 DEF ResolveDelta
  <2>2. Selecting /\ files = WithDelta /\ Checked /\ world.request # "build"
    BY <1>0, <2>1 DEF Selecting
  <2>3. PathOf("delta") = DeltaPath /\ FilesOf("delta") = WithDelta
    BY DEF PathOf, FilesOf
  <2> QED
    BY <2>1, <2>2, <2>3, LoadSelects
<1>8. CASE ComposeResult
  <2>1. CASE Fail
    BY <2>1, FailedSelects
  <2>2. CASE ~Fail
    <3>1. /\ pc = "merged" /\ goal = "delta" /\ template # <<>> /\ Load(world.leaf, "base")
          /\ views' = [views EXCEPT !.delta = template] /\ UNCHANGED <<world, files>>
      BY <1>8, <2>2 DEF ComposeResult
    <3>2. Selecting /\ files = WithDelta /\ Checked /\ world.request # "build" /\ Result(template, DeltaPath, WithDelta)
      BY <1>0, <3>1 DEF Selecting, PathOf, FilesOf
    <3>3. PathOf("base") = world.leaf /\ FilesOf("base") = WithDelta
      BY DEF PathOf, FilesOf
    <3>4. views'.delta = template
      BY <3>1
    <3> QED
      BY <3>1, <3>2, <3>3, <3>4, LoadSelects
  <2> QED
    BY <2>1, <2>2
<1>9. CASE ComposeBase
  <2>1. /\ pc = "merged" /\ goal = "base" /\ views' = [views EXCEPT !.base = template]
        /\ pc' = "composed" /\ UNCHANGED <<world, goal, chain, template>>
    BY <1>9 DEF ComposeBase
  <2>2. /\ Selecting /\ world.request # "build" /\ Checked
        /\ views.delta # <<>> /\ Result(views.delta, DeltaPath, WithDelta)
        /\ template # <<>> => Result(template, world.leaf, WithDelta)
    BY <1>0, <2>1 DEF Selecting, PathOf, FilesOf
  <2>3. views'.base = template /\ views'.delta = views.delta
    BY <2>1
  <2>4. /\ Checked' /\ Result(views.delta, DeltaPath, WithDelta)'
        /\ views'.base # <<>> => Result(views.base, world.leaf, WithDelta)'
    BY <1>s, <2>1, <2>2, <2>3
  <2> QED
    BY <2>1, <2>2, <2>3, <2>4 DEF SelectionInv
<1>10. CASE CheckTemplateCredentials
  <2>1. CASE Fail
    BY <2>1, FailedSelects
  <2>2. CASE Load(DeltaPath, "build")
    <3>1. goal' = "build" /\ pc' = "load"
      BY <2>2 DEF Load
    <3> QED
      BY <3>1, NotSelecting DEF Selecting
  <2> QED
    BY <1>10, <2>1, <2>2 DEF CheckTemplateCredentials
<1>11. ASSUME NEW r, NEW next \in {"image", "oep", "apt", "download", "done"}, Fail \/ Become(r, next),
              pc \in {"oep", "apt", "download", "image"} \/ goal = "build"
       PROVE  SelectionInv'
  <2>1. CASE Fail
    BY <2>1, FailedSelects
  <2>2. CASE Become(r, next)
    <3>1. pc' = next /\ goal' = goal
      BY <2>2 DEF Become
    <3>2. ~Selecting'
      BY <1>0, <1>11, <3>1 DEF Selecting
    <3> QED
      BY <3>1, <3>2, NotSelecting
  <2> QED
    BY <1>11, <2>1, <2>2
<1>12. CASE BuildOverridden
  BY <1>11, <1>12 DEF BuildOverridden
<1>13. CASE ApplyOEPInstaller
  BY <1>11, <1>13 DEF ApplyOEPInstaller
<1>14. CASE GenerateAptSources
  BY <1>11, <1>14 DEF GenerateAptSources
<1>15. CASE DownloadImagePkgs
  BY <1>11, <1>15 DEF DownloadImagePkgs
<1>16. CASE CreateUsers
  BY <1>11, <1>16 DEF CreateUsers
<1>17. CASE UNCHANGED templateVars
  <2>1. UNCHANGED <<world, files, goal, pc, chain, template, views>>
    BY <1>17 DEF templateVars
  <2>2. (Selecting' <=> Selecting) /\ PathOf(goal)' = PathOf(goal) /\ FilesOf(goal)' = FilesOf(goal)
    BY <1>s, <2>1 DEF Selecting, PathOf, FilesOf
  <2>3. /\ IsWalk(chain, PathOf(goal), files)' = IsWalk(chain, PathOf(goal), files)
        /\ Result(template, PathOf(goal), files)' = Result(template, PathOf(goal), files)
        /\ Result(views.delta, DeltaPath, WithDelta)' = Result(views.delta, DeltaPath, WithDelta)
        /\ Result(views.base, world.leaf, WithDelta)' = Result(views.base, world.leaf, WithDelta)
        /\ Checked' = Checked /\ WithDelta' = WithDelta
    BY <1>s, <2>1, <2>2
  <2> QED
    BY <1>0, <2>1, <2>2, <2>3 DEF SelectionInv
<1> QED
  BY <1>2, <1>3, <1>4, <1>5, <1>6, <1>7, <1>8, <1>9, <1>10, <1>12, <1>13, <1>14, <1>15, <1>16, <1>17 DEF TemplateNext

LEMMA SelectionInit == ASSUME TemplateInit, FilesInv PROVE SelectionInv
<1>1. CASE world.request = "build"
  <2>1. goal = "build" /\ pc = "load"
    BY <1>1 DEF TemplateInit
  <2> QED
    BY <2>1 DEF SelectionInv, Selecting
<1>2. CASE world.request # "build"
  <2>1. goal = "parent" /\ template = <<>> /\ files = world.files
    BY <1>2 DEF TemplateInit
  <2>2. PathOf(goal) = world.leaf /\ FilesOf(goal) = world.files
    BY <2>1 DEF PathOf, FilesOf
  <2>3. CASE pc = "delta" /\ world.sel.credentials = <<>> /\ world.sel.newUsers = <<>>
    <3>1. Checked
      BY <2>3 DEF Checked
    <3> QED
      BY <1>2, <2>1, <2>3, <3>1 DEF SelectionInv
  <2>4. CASE /\ pc = "load"
             /\ chain = IF Loadable(world.leaf) THEN <<LoadTemplate(world.leaf)>> ELSE <<>>
    <3>1. chain # <<>> => IsWalk(chain, world.leaf, files)
      BY <2>4, FirstWalk
    <3> QED
      BY <1>2, <2>1, <2>2, <2>4, <3>1 DEF SelectionInv
  <2> QED
    BY <1>2, <2>3, <2>4 DEF TemplateInit
<1> QED
  BY <1>1, <1>2

(* The chain that was checked and the one the result is of are the same, the  *)
(* delta's that one and the delta before it.                                 *)
LEMMA SelectionAsAsked == ASSUME FilesInv, SelectionInv PROVE DeltaChangesOnlyWhatWasAsked
<1> SUFFICES ASSUME pc = "composed", views.base # <<>> PROVE DeltaChangesOnlyWhatWasAsked
  BY DEF DeltaChangesOnlyWhatWasAsked
<1>1. /\ goal = "base" /\ world.request # "build" /\ Checked
      /\ views.delta # <<>> /\ Result(views.delta, DeltaPath, WithDelta)
      /\ Result(views.base, world.leaf, WithDelta)
  BY DEF SelectionInv, Selecting
<1>2. PICK d : IsWhole(d, DeltaPath, WithDelta) /\ views.delta = Loaded(d)
  BY <1>1 DEF Result
<1>3. PICK b : IsWhole(b, world.leaf, WithDelta) /\ views.base = Loaded(b)
  BY <1>1 DEF Result
<1>4. CheckedBy(views.base[1])
  <2>1. CASE world.sel.credentials = <<>> /\ world.sel.newUsers = <<>>
    BY <2>1 DEF CheckedBy, ValidateCredentials, ValidateNewUsers
  <2>2. ASSUME NEW v, Result(v, world.leaf, world.files), CheckedBy(v[1])
        PROVE  CheckedBy(views.base[1])
    <3>1. PICK c : IsWhole(c, world.leaf, world.files) /\ v = Loaded(c)
      BY <2>2 DEF Result
    <3>2. IsWhole(b, world.leaf, world.files) /\ Len(b) \in Nat \ {0}
      BY <1>1, <1>2, <1>3, DeltaChain
    <3>3. c \in Seq(Range(c)) /\ c # <<>> /\ b[1].path = world.leaf
      BY <3>1, <3>2 DEF IsWhole, IsWalk
    <3>4. Len(c) \in Nat
      BY <3>3
    <3>5. /\ Len(b) = 0 + Len(c)
          /\ \A i \in 1..Len(c) : b[0 + i].path = c[i].path /\ b[0 + i].layer = c[i].layer
      <4>1. 0 \in Nat /\ 0 < Len(b) /\ b[0 + 1].path = world.leaf
        BY <3>2, <3>3
      <4> QED
        BY <3>1, <3>2, <4>1, WalksAgree
    <3>6. Len(b) = Len(c) /\ \A i \in 1..Len(c) : b[i].layer = c[i].layer
      BY <3>4, <3>5
    <3>7. Loaded(b) = Loaded(c)
      BY <3>4, <3>6, LoadedAlike
    <3> QED
      BY <1>3, <2>2, <3>1, <3>7
  <2> QED
    BY <1>1, <2>1, <2>2 DEF Checked
<1> QED
  BY <1>1, <1>2, <1>3, <1>4, Composed DEF CheckedBy

(* What the service composes for a selection differs from the template by     *)
(* what was chosen and by nothing else, whatever templates extend another and *)
(* whatever is chosen (DeltaChangesOnlyWhatWasAsked).                        *)
THEOREM ComposedAsAsked == TemplateSpec => []DeltaChangesOnlyWhatWasAsked
<1>1. TemplateInit => ChainInv /\ SelectionInv
  BY ChainInit, SelectionInit DEF ChainInv
<1>2. ChainInv /\ SelectionInv /\ [TemplateNext]_templateVars => (ChainInv /\ SelectionInv)'
  BY ChainStep, SelectionStep DEF ChainInv
<1>3. ChainInv /\ SelectionInv => DeltaChangesOnlyWhatWasAsked
  BY SelectionAsAsked DEF ChainInv
<1> QED
  BY <1>1, <1>2, <1>3, PTL DEF TemplateSpec
=============================================================================
