----------------------------- MODULE ServiceProofs -----------------------------
(***************************************************************************)
(* Proofs about the web service's two concurrent parts.  The package       *)
(* search and its index cache, for any indexes, callers, searches, slots   *)
(* and caps: type correctness, one fetch per index, no cancellation that   *)
(* is not one's own, an honest stream, and that a search uses the cache    *)
(* only as its callers may.  The build slot, for any set of requests: type *)
(* correctness, that a build which has not been abandoned holds the slot,  *)
(* that the setup channels are closed once, and what a shutdown can miss.  *)
(***************************************************************************)
EXTENDS PackageSearch, BuildSlot, SequenceTheorems, WellFoundedInduction, TLAPS

-----------------------------------------------------------------------------
(* The inductive invariant of the cache *)

\* What is in flight is running, and what is running is in flight, for an index
\* that has neither a fresh copy nor a failure to remember.
InflightInv ==
  /\ \A k \in Keys : inflight[k] # 0 =>
       /\ inflight[k] \in DOMAIN fetches
       /\ fetches[inflight[k]].key = k
       /\ Running(inflight[k])
  /\ \A f \in DOMAIN fetches : Running(f) =>
       /\ inflight[fetches[f].key] = f
       /\ entries[fetches[f].key].age # "fresh"
       /\ fetches[f].key \notin failures

\* A waiter waits for a fetch, and a fetch that is over or loaded has a result.
WaitInv ==
  /\ \A c \in Callers : caller[c].pc = "waiting" => caller[c].on \in DOMAIN fetches
  /\ \A f \in DOMAIN fetches : fetches[f].state # "loading" =>
       fetches[f].result \in {"ok", "error"}

CacheInv == TypeOK /\ InflightInv /\ WaitInv /\ NoForeignCancel

-----------------------------------------------------------------------------
(* Lemmas about the recency list *)

\* Every set of naturals with an element has a least one.
LEMMA LeastNat == ASSUME NEW I \in SUBSET Nat, I # {}
                  PROVE  \E m \in I : \A n \in I : m <= n
<1>1. PICK m \in I : \A n \in I : ~(<<n, m>> \in OpToRel(<, Nat))
  BY NatLessThanWellFounded, WFMin
<1>2. \A n \in I : ~(n < m)
  BY <1>1 DEF OpToRel
<1>3. QED
  BY <1>2

\* touchLocked lists keys only, and last the one that was used.
LEMMA TouchedType == ASSUME NEW o \in Seq(Keys), NEW k \in Keys
                     PROVE  /\ Touched(o, k) \in Seq(Keys)
                            /\ Len(Touched(o, k)) > 0
                            /\ Touched(o, k)[Len(Touched(o, k))] = k
<1>1. RemoveFirst(o, k) \in Seq(Keys)
  <2>1. CASE \E i \in 1..Len(o) : o[i] = k
    <3> DEFINE I == {i \in 1..Len(o) : o[i] = k}
               j == SelectInSeq(o, LAMBDA v : v = k)
    <3>0. I \in SUBSET Nat /\ I # {}
      BY <2>1
    <3>1. \E m \in I : \A n \in I : m <= n
      BY <3>0, LeastNat
    <3>2. j = Min(I)
      BY <3>0 DEF SelectInSeq
    <3>3. j \in I
      <4> HIDE DEF I, j
      <4> QED BY <3>1, <3>2 DEF Min
    <3>4. j \in 1..Len(o) /\ \A i \in 1..Len(o) : o[i] \in Keys
      BY <3>3
    <3> HIDE DEF j
    <3>5. SubSeq(o, 1, j - 1) \in Seq(Keys) /\ SubSeq(o, j + 1, Len(o)) \in Seq(Keys)
      BY <3>4
    <3>6. RemoveAt(o, j) \in Seq(Keys)
      BY <3>5 DEF RemoveAt
    <3>7. QED
      BY <2>1, <3>6 DEF RemoveFirst, j
  <2>2. CASE ~\E i \in 1..Len(o) : o[i] = k
    BY <2>2 DEF RemoveFirst
  <2>3. QED
    BY <2>1, <2>2
<1>2. QED
  BY <1>1, AppendProperties DEF Touched

\* evictLocked keeps a suffix of the list, never empty: the last key stays.
LEMMA KeptLast == ASSUME NEW o \in Seq(Keys), Len(o) > 0, NEW size
                  PROVE  Kept(o, size) \in Seq(Keys) /\ o[Len(o)] \in ToSet(Kept(o, size))
<1> DEFINE Rest(n) == SubSeq(o, n + 1, Len(o))
           Stop(n) == n = Len(o) - 1 \/ WithinCaps(Rest(n), size)
           I == {n \in 0..(Len(o) - 1) : Stop(n)}
           Least(n) == Stop(n) /\ \A m \in 0..(n - 1) : ~Stop(m)
           n0 == CHOOSE n \in 0..(Len(o) - 1) : Least(n)
<1> HIDE DEF Stop
<1>1. I \in SUBSET Nat /\ I # {}
  <2>1. Len(o) - 1 \in I
    BY DEF Stop
  <2>2. QED
    BY <2>1
<1>2. PICK n \in I : \A m \in I : n <= m
  BY <1>1, LeastNat
<1>3. n \in 0..(Len(o) - 1) /\ Least(n)
  BY <1>2
<1>4. n0 \in 0..(Len(o) - 1)
  <2> HIDE DEF Least
  <2> QED BY <1>3
<1>5. Kept(o, size) = Rest(n0)
  BY DEF Kept, Stop
<1> HIDE DEF n0
<1>6. \A i \in 1..Len(o) : o[i] \in Keys
  OBVIOUS
<1>7. /\ Rest(n0) \in Seq(Keys)
      /\ Len(Rest(n0)) = Len(o) - n0
      /\ Rest(n0)[Len(o) - n0] = o[Len(o)]
  BY <1>4, <1>6, SubSeqProperties
<1>8. Len(o) - n0 \in DOMAIN Rest(n0)
  BY <1>4, <1>7
<1>9. QED
  BY <1>5, <1>7, <1>8 DEF ToSet

-----------------------------------------------------------------------------
(* The cache *)

\* The elements of a sequence over S are in S.
LEMMA ElementOf ==
  ASSUME NEW S, NEW s \in Seq(S)
  PROVE  DOMAIN s = 1..Len(s) /\ \A i \in DOMAIN s : s[i] \in S
OBVIOUS

\* Every fetch on record is one, of an index.
LEMMA FetchIsOne ==
  TypeOK => \A f \in DOMAIN fetches :
    /\ fetches[f] \in [key : Keys, state : {"loading", "loaded", "over"},
                        result : {"none", "ok", "error", "cancelled"}]
    /\ fetches[f].key \in Keys
<1> DEFINE F == [key : Keys, state : {"loading", "loaded", "over"},
                 result : {"none", "ok", "error", "cancelled"}]
<1>1. TypeOK => \A f \in DOMAIN fetches : fetches[f] \in F
  <2>1. TypeOK => fetches \in Seq(F)
    BY DEF TypeOK
  <2> HIDE DEF F
  <2>2. QED
    BY <2>1, ElementOf
<1>2. QED
  BY <1>1

LEMMA CacheInit == Init => CacheInv
<1> SUFFICES ASSUME Init PROVE CacheInv
  OBVIOUS
<1>1. entries \in [Keys -> [age : {"none", "fresh", "stale"}, size : Nat]]
  BY DEF Init, NoEntry
<1>2. /\ order \in Seq(Keys) /\ failures \subseteq Keys /\ cancelled \subseteq Callers
      /\ inflight \in [Keys -> Nat]
  BY DEF Init
<1>3. fetches \in Seq([key : Keys, state : {"loading", "loaded", "over"},
                       result : {"none", "ok", "error", "cancelled"}])
  BY DEF Init
<1>4. caller \in [Callers -> [pc : {"idle", "waiting", "returned"}, on : Nat,
                              got : {"nothing", "entries", "error", "cancelled"}]]
  BY DEF Init
<1>5. InflightInv /\ WaitInv /\ NoForeignCancel
  BY DEF Init, InflightInv, WaitInv, NoForeignCancel
<1>6. QED
  BY <1>1, <1>2, <1>3, <1>4, <1>5 DEF CacheInv, TypeOK

\* A step of one caller that leaves the fetches alone: it may only wait for a fetch
\* that was begun, and be told of a cancellation that is its own.
LEMMA CallerStep ==
  ASSUME CacheInv, NEW c \in Callers,
         NEW r \in [pc : {"idle", "waiting", "returned"}, on : Nat,
                    got : {"nothing", "entries", "error", "cancelled"}],
         caller' = [caller EXCEPT ![c] = r],
         r.pc = "waiting" => r.on \in DOMAIN fetches,
         r.got = "cancelled" => c \in cancelled,
         order' \in Seq(Keys),
         UNCHANGED <<entries, failures, inflight, fetches, cancelled>>
  PROVE  CacheInv'
<1>1. TypeOK'
  BY DEF CacheInv, TypeOK
<1>2. InflightInv'
  BY DEF CacheInv, InflightInv, Running
<1>3. \A d \in Callers : caller'[d] = IF d = c THEN r ELSE caller[d]
  BY DEF CacheInv, TypeOK
<1>4. WaitInv'
  BY <1>3 DEF CacheInv, WaitInv
<1>5. NoForeignCancel'
  BY <1>3 DEF CacheInv, NoForeignCancel
<1>6. QED
  BY <1>1, <1>2, <1>4, <1>5 DEF CacheInv

\* A step that changes what is recorded of one fetch only.
LEMMA FetchRecord ==
  ASSUME CacheInv, NEW f \in DOMAIN fetches,
         NEW r \in [key : Keys, state : {"loading", "loaded", "over"},
                    result : {"none", "ok", "error", "cancelled"}],
         fetches' = [fetches EXCEPT ![f] = r],
         r.state # "loading" => r.result \in {"ok", "error"},
         UNCHANGED <<caller, cancelled>>
  PROVE  /\ fetches' \in Seq([key : Keys, state : {"loading", "loaded", "over"},
                              result : {"none", "ok", "error", "cancelled"}])
         /\ DOMAIN fetches' = DOMAIN fetches
         /\ \A g \in DOMAIN fetches : fetches'[g] = IF g = f THEN r ELSE fetches[g]
         /\ WaitInv' /\ NoForeignCancel'
<1>1. fetches \in Seq([key : Keys, state : {"loading", "loaded", "over"},
                       result : {"none", "ok", "error", "cancelled"}])
  BY DEF CacheInv, TypeOK
<1>2. /\ DOMAIN fetches' = DOMAIN fetches
      /\ \A g \in DOMAIN fetches : fetches'[g] = IF g = f THEN r ELSE fetches[g]
  BY <1>1
<1>3. fetches' \in Seq([key : Keys, state : {"loading", "loaded", "over"},
                        result : {"none", "ok", "error", "cancelled"}])
  BY <1>1, ExceptSeq
<1>4. WaitInv'
  BY <1>2 DEF CacheInv, WaitInv
<1>5. NoForeignCancel'
  BY DEF CacheInv, NoForeignCancel
<1>6. QED
  BY <1>2, <1>3, <1>4, <1>5

\* One step per action.
LEMMA CacheStep == CacheInv /\ [Next]_vars => CacheInv'
<1> SUFFICES ASSUME CacheInv, [Next]_vars PROVE CacheInv'
  OBVIOUS
<1>0. /\ caller \in [Callers -> [pc : {"idle", "waiting", "returned"}, on : Nat,
                                 got : {"nothing", "entries", "error", "cancelled"}]]
      /\ order \in Seq(Keys) /\ inflight \in [Keys -> Nat] /\ Wants \in [Callers -> Keys]
      /\ entries \in [Keys -> [age : {"none", "fresh", "stale"}, size : Nat]]
      /\ failures \subseteq Keys /\ cancelled \subseteq Callers
      /\ fetches \in Seq([key : Keys, state : {"loading", "loaded", "over"},
                          result : {"none", "ok", "error", "cancelled"}])
  BY CacheAssumption DEF CacheInv, TypeOK
<1>a. \A f \in DOMAIN fetches :
        /\ fetches[f] \in [key : Keys, state : {"loading", "loaded", "over"},
                            result : {"none", "ok", "error", "cancelled"}]
        /\ fetches[f].key \in Keys
  BY FetchIsOne DEF CacheInv
<1>1. ASSUME NEW c \in Callers, Skip(c) PROVE CacheInv'
  <2> DEFINE r == [caller[c] EXCEPT !.pc = "returned", !.got = "cancelled"]
  <2>1. /\ caller' = [caller EXCEPT ![c] = r] /\ c \in cancelled
        /\ UNCHANGED <<entries, order, failures, inflight, fetches, cancelled>>
    BY <1>0, <1>1 DEF Skip, cacheVars
  <2>2. /\ r.pc = "returned" /\ r.got = "cancelled"
        /\ r \in [pc : {"idle", "waiting", "returned"}, on : Nat,
                  got : {"nothing", "entries", "error", "cancelled"}]
    BY <1>0
  <2> HIDE DEF r
  <2>3. QED
    BY <1>0, <2>1, <2>2, CallerStep
<1>2. ASSUME NEW c \in Callers, Hit(c) PROVE CacheInv'
  <2> DEFINE r == [caller[c] EXCEPT !.pc = "returned", !.got = "entries"]
  <2>1. /\ caller' = [caller EXCEPT ![c] = r] /\ order' = Touched(order, Wants[c])
        /\ UNCHANGED <<entries, failures, inflight, fetches, cancelled>>
    BY <1>0, <1>2 DEF Hit, Return
  <2>2. /\ r.pc = "returned" /\ r.got = "entries"
        /\ r \in [pc : {"idle", "waiting", "returned"}, on : Nat,
                  got : {"nothing", "entries", "error", "cancelled"}]
    BY <1>0
  <2>3. order' \in Seq(Keys)
    BY <1>0, <2>1, TouchedType
  <2> HIDE DEF r
  <2>4. QED
    BY <2>1, <2>2, <2>3, CallerStep
<1>3. ASSUME NEW c \in Callers, RememberedFailure(c) PROVE CacheInv'
  <2> DEFINE r == [caller[c] EXCEPT !.pc = "returned", !.got = "error"]
  <2>1. /\ caller' = [caller EXCEPT ![c] = r]
        /\ UNCHANGED <<entries, order, failures, inflight, fetches, cancelled>>
    BY <1>0, <1>3 DEF RememberedFailure, Return, cacheVars
  <2>2. /\ r.pc = "returned" /\ r.got = "error"
        /\ r \in [pc : {"idle", "waiting", "returned"}, on : Nat,
                  got : {"nothing", "entries", "error", "cancelled"}]
    BY <1>0
  <2> HIDE DEF r
  <2>3. QED
    BY <1>0, <2>1, <2>2, CallerStep
<1>4. ASSUME NEW c \in Callers, Join(c) PROVE CacheInv'
  <2> DEFINE r == [caller[c] EXCEPT !.pc = "waiting", !.on = inflight[Wants[c]]]
  <2>1. /\ caller' = [caller EXCEPT ![c] = r]
        /\ UNCHANGED <<entries, order, failures, inflight, fetches, cancelled>>
    BY <1>0, <1>4 DEF Join, WaitFor, cacheVars
  <2>2. /\ r.on \in DOMAIN fetches /\ r.got = caller[c].got
        /\ r \in [pc : {"idle", "waiting", "returned"}, on : Nat,
                  got : {"nothing", "entries", "error", "cancelled"}]
    <3>1. /\ Wants[c] \in Keys /\ inflight[Wants[c]] \in Nat
          /\ inflight[Wants[c]] \in DOMAIN fetches
      BY <1>0, <1>4 DEF Join, CacheInv, InflightInv
    <3>2. QED
      BY <1>0, <3>1
  <2>3. r.got = "cancelled" => c \in cancelled
    BY <2>2 DEF CacheInv, NoForeignCancel
  <2> HIDE DEF r
  <2>4. QED
    BY <1>0, <2>1, <2>2, <2>3, CallerStep
<1>5. ASSUME NEW c \in Callers, StartFetch(c) PROVE CacheInv'
  <2> DEFINE f == [key |-> Wants[c], state |-> "loading", result |-> "none"]
             n == Len(fetches) + 1
             r == [caller[c] EXCEPT !.pc = "waiting", !.on = n]
  <2>1. /\ fetches' = Append(fetches, f) /\ inflight' = [inflight EXCEPT ![Wants[c]] = n]
        /\ caller' = [caller EXCEPT ![c] = r]
        /\ UNCHANGED <<entries, order, failures, cancelled>>
    BY <1>0, <1>5 DEF StartFetch, WaitFor
  <2>2. /\ fetches' \in Seq([key : Keys, state : {"loading", "loaded", "over"},
                             result : {"none", "ok", "error", "cancelled"}])
        /\ DOMAIN fetches' = 1..n /\ n \in Nat \ {0} /\ DOMAIN fetches = 1..(n - 1)
        /\ fetches'[n] = f /\ \A g \in DOMAIN fetches : fetches'[g] = fetches[g]
    BY <1>0, <2>1, AppendProperties
  <2>3. /\ r \in [pc : {"idle", "waiting", "returned"}, on : Nat,
                  got : {"nothing", "entries", "error", "cancelled"}]
        /\ r.on = n /\ r.got = caller[c].got
    BY ZenonT(40), <1>0, <2>2
  <2>4. \A k \in Keys : inflight'[k] = IF k = Wants[c] THEN n ELSE inflight[k]
    BY <1>0, <2>1
  <2>5. /\ Wants[c] \in Keys /\ f.key = Wants[c] /\ f.state = "loading"
        /\ entries[Wants[c]].age # "fresh" /\ Wants[c] \notin failures
        /\ inflight[Wants[c]] = 0
    BY <1>0, <1>5 DEF StartFetch, Miss
  <2>6. \A d \in Callers : caller'[d] = IF d = c THEN r ELSE caller[d]
    BY <1>0, <2>1
  <2> HIDE DEF f, n, r
  <2>7. TypeOK'
    BY <1>0, <2>1, <2>2, <2>3 DEF TypeOK
  <2>8. InflightInv'
    <3>1. ASSUME NEW k \in Keys, inflight'[k] # 0
          PROVE  /\ inflight'[k] \in DOMAIN fetches'
                 /\ fetches'[inflight'[k]].key = k
                 /\ fetches'[inflight'[k]].state # "over"
      <4>1. CASE k = Wants[c]
        BY <2>2, <2>4, <2>5, <4>1
      <4>2. CASE k # Wants[c]
        BY <2>2, <2>4, <3>1, <4>2 DEF CacheInv, InflightInv, Running
      <4>3. QED
        BY <4>1, <4>2
    <3>2. ASSUME NEW g \in DOMAIN fetches', fetches'[g].state # "over"
          PROVE  /\ inflight'[fetches'[g].key] = g
                 /\ entries'[fetches'[g].key].age # "fresh"
                 /\ fetches'[g].key \notin failures'
      <4>1. CASE g = n
        BY <2>1, <2>2, <2>4, <2>5, <4>1
      <4>2. CASE g # n
        <5>1. g \in DOMAIN fetches /\ fetches'[g] = fetches[g]
          BY <2>2, <4>2
        <5>2. fetches[g].key \in Keys
          BY <1>a, <5>1
        <5>3. /\ inflight[fetches[g].key] = g /\ g # 0
              /\ entries[fetches[g].key].age # "fresh" /\ fetches[g].key \notin failures
          BY <2>2, <3>2, <5>1 DEF CacheInv, InflightInv, Running
        <5>4. QED
          BY <2>1, <2>4, <2>5, <5>1, <5>2, <5>3
      <4>3. QED
        BY <4>1, <4>2
    <3>3. QED
      BY <3>1, <3>2 DEF InflightInv, Running
  <2>9. WaitInv'
    BY <2>2, <2>3, <2>5, <2>6 DEF WaitInv, CacheInv
  <2>10. NoForeignCancel'
    BY <2>1, <2>3, <2>6 DEF NoForeignCancel, CacheInv
  <2>11. QED
    BY <2>7, <2>8, <2>9, <2>10 DEF CacheInv
<1>6. ASSUME NEW c \in Callers, Answered(c) PROVE CacheInv'
  <2> DEFINE f == fetches[caller[c].on]
             g == IF f.result = "ok" THEN "entries" ELSE f.result
             r == [caller[c] EXCEPT !.pc = "returned", !.got = g]
  <2>1. f.result \in {"ok", "error"}
    BY <1>6 DEF Answered, WaitInv, CacheInv
  <2>2. g \in {"entries", "error"}
    BY <2>1
  <2>3. /\ caller' = [caller EXCEPT ![c] = r]
        /\ UNCHANGED <<entries, order, failures, inflight, fetches, cancelled>>
    BY <1>0, <1>6 DEF Answered, Return, cacheVars
  <2> HIDE DEF g
  <2>4. /\ r.pc = "returned" /\ r.got \in {"entries", "error"}
        /\ r \in [pc : {"idle", "waiting", "returned"}, on : Nat,
                  got : {"nothing", "entries", "error", "cancelled"}]
    BY <1>0, <2>2
  <2> HIDE DEF r
  <2>5. QED
    BY <1>0, <2>3, <2>4, CallerStep
<1>7. ASSUME NEW c \in Callers, Abandon(c) PROVE CacheInv'
  <2> DEFINE r == [caller[c] EXCEPT !.pc = "returned", !.got = "cancelled"]
  <2>1. /\ caller' = [caller EXCEPT ![c] = r] /\ c \in cancelled
        /\ UNCHANGED <<entries, order, failures, inflight, fetches, cancelled>>
    BY <1>0, <1>7 DEF Abandon, Return, cacheVars
  <2>2. /\ r.pc = "returned" /\ r.got = "cancelled"
        /\ r \in [pc : {"idle", "waiting", "returned"}, on : Nat,
                  got : {"nothing", "entries", "error", "cancelled"}]
    BY <1>0
  <2> HIDE DEF r
  <2>3. QED
    BY <1>0, <2>1, <2>2, CallerStep
<1>8. ASSUME NEW f \in DOMAIN fetches, NEW result \in {"ok", "error"}, Load(f, result)
      PROVE  CacheInv'
  <2> DEFINE r == [fetches[f] EXCEPT !.state = "loaded", !.result = result]
  <2>1. /\ fetches' = [fetches EXCEPT ![f] = r] /\ fetches[f].state = "loading"
        /\ UNCHANGED <<entries, order, failures, inflight, caller, cancelled>>
    BY <1>0, <1>8 DEF Load, cacheVars
  <2>2. /\ r.state = "loaded" /\ r.result \in {"ok", "error"} /\ r.key = fetches[f].key
        /\ r \in [key : Keys, state : {"loading", "loaded", "over"},
                  result : {"none", "ok", "error", "cancelled"}]
    BY <1>a
  <2> HIDE DEF r
  <2>3. /\ fetches' \in Seq([key : Keys, state : {"loading", "loaded", "over"},
                             result : {"none", "ok", "error", "cancelled"}])
        /\ DOMAIN fetches' = DOMAIN fetches
        /\ \A g \in DOMAIN fetches : fetches'[g] = IF g = f THEN r ELSE fetches[g]
        /\ WaitInv' /\ NoForeignCancel'
    BY <2>1, <2>2, FetchRecord
  <2>4. \A g \in DOMAIN fetches :
          /\ fetches'[g].key = fetches[g].key
          /\ fetches'[g].state # "over" <=> fetches[g].state # "over"
    BY <2>1, <2>2, <2>3
  <2>5. TypeOK'
    BY <1>0, <2>1, <2>3 DEF TypeOK
  <2>6. InflightInv'
    BY <2>1, <2>3, <2>4 DEF InflightInv, Running, CacheInv
  <2>7. QED
    BY <2>3, <2>5, <2>6 DEF CacheInv
<1>9. ASSUME NEW f \in DOMAIN fetches, fetches[f].state = "loaded",
             fetches' = [fetches EXCEPT ![f].state = "over"],
             inflight' = [inflight EXCEPT ![fetches[f].key] = 0],
             entries' \in [Keys -> [age : {"none", "fresh", "stale"}, size : Nat]],
             order' \in Seq(Keys),
             failures' \in SUBSET Keys,
             \A x \in Keys \ {fetches[f].key} : entries'[x].age = "fresh" => entries[x].age = "fresh",
             \A x \in Keys \ {fetches[f].key} : x \in failures' => x \in failures,
             UNCHANGED <<caller, cancelled>>
      PROVE  CacheInv'
  <2> DEFINE r == [fetches[f] EXCEPT !.state = "over"]
             k == fetches[f].key
  <2>1. fetches' = [fetches EXCEPT ![f] = r]
    BY <1>0, <1>9
  <2>2. /\ r.state = "over" /\ r.result \in {"ok", "error"} /\ r.key = k
        /\ r \in [key : Keys, state : {"loading", "loaded", "over"},
                  result : {"none", "ok", "error", "cancelled"}]
    BY <1>a, <1>9 DEF CacheInv, WaitInv
  <2> HIDE DEF r
  <2>3. /\ fetches' \in Seq([key : Keys, state : {"loading", "loaded", "over"},
                             result : {"none", "ok", "error", "cancelled"}])
        /\ DOMAIN fetches' = DOMAIN fetches
        /\ \A g \in DOMAIN fetches : fetches'[g] = IF g = f THEN r ELSE fetches[g]
        /\ WaitInv' /\ NoForeignCancel'
    BY ZenonT(40), <1>9, <2>1, <2>2, FetchRecord
  <2>4. TypeOK'
    BY <1>0, <1>9, <2>3 DEF TypeOK
  <2>5. \A x \in Keys : inflight'[x] = IF x = k THEN 0 ELSE inflight[x]
    BY <1>0, <1>9
  <2>6. inflight[k] = f /\ k \in Keys
    BY <1>a, <1>9 DEF CacheInv, InflightInv, Running
  <2>7. ASSUME NEW x \in Keys, inflight'[x] # 0
        PROVE  /\ inflight'[x] \in DOMAIN fetches'
               /\ fetches'[inflight'[x]].key = x
               /\ fetches'[inflight'[x]].state # "over"
    <3>1. x # k /\ inflight'[x] = inflight[x]
      BY <2>5, <2>7
    <3>2. /\ inflight[x] \in DOMAIN fetches /\ fetches[inflight[x]].key = x
          /\ fetches[inflight[x]].state # "over"
      BY <2>7, <3>1 DEF CacheInv, InflightInv, Running
    <3>3. inflight[x] # f
      BY <3>1, <3>2
    <3>4. QED
      BY <2>3, <3>1, <3>2, <3>3
  <2>8. ASSUME NEW g \in DOMAIN fetches', fetches'[g].state # "over"
        PROVE  /\ inflight'[fetches'[g].key] = g
               /\ entries'[fetches'[g].key].age # "fresh"
               /\ fetches'[g].key \notin failures'
    <3>1. g # f /\ g \in DOMAIN fetches /\ fetches'[g] = fetches[g]
      BY <2>2, <2>3, <2>8
    <3>2. /\ fetches[g].key \in Keys /\ inflight[fetches[g].key] = g
          /\ entries[fetches[g].key].age # "fresh" /\ fetches[g].key \notin failures
      BY <1>a, <2>8, <3>1 DEF CacheInv, InflightInv, Running
    <3>3. fetches[g].key # k
      BY <2>6, <3>1, <3>2
    <3>4. QED
      BY <1>9, <2>5, <3>1, <3>2, <3>3
  <2>9. InflightInv'
    BY <2>7, <2>8 DEF InflightInv, Running
  <2>10. QED
    BY <2>3, <2>4, <2>9 DEF CacheInv
<1>10. ASSUME NEW f \in DOMAIN fetches, PublishFailure(f) PROVE CacheInv'
  <2>1. fetches[f].key \in Keys
    BY <1>a
  <2>2. QED
    BY <1>0, <1>9, <1>10, <2>1 DEF PublishFailure, Publish
<1>11. ASSUME NEW f \in DOMAIN fetches, NEW size \in Sizes, PublishIndex(f, size)
       PROVE  CacheInv'
  <2> DEFINE k == fetches[f].key
             loaded == [entries EXCEPT ![k] = [age |-> "fresh", size |-> size]]
             sizes == [x \in Keys |-> loaded[x].size]
             kept == Kept(Touched(order, k), sizes)
  <2>1. k \in Keys /\ size \in Nat
    BY <1>a, CacheAssumption
  <2>2. Touched(order, k) \in Seq(Keys) /\ Len(Touched(order, k)) > 0
    BY <1>0, <2>1, TouchedType
  <2>3. kept \in Seq(Keys)
    <3> HIDE DEF sizes
    <3> QED BY <2>2, KeptLast
  <2>4. /\ fetches[f].state = "loaded"
        /\ fetches' = [fetches EXCEPT ![f].state = "over"]
        /\ inflight' = [inflight EXCEPT ![k] = 0]
        /\ order' = kept
        /\ entries' = [x \in Keys |-> IF x \in ToSet(kept) THEN loaded[x] ELSE NoEntry]
        /\ UNCHANGED <<failures, caller, cancelled>>
    BY <1>11 DEF PublishIndex, Publish
  <2>5. loaded \in [Keys -> [age : {"none", "fresh", "stale"}, size : Nat]]
    BY <1>0, <2>1
  <2>6. NoEntry \in [age : {"none", "fresh", "stale"}, size : Nat] /\ NoEntry.age # "fresh"
    BY DEF NoEntry
  <2>7. \A x \in Keys \ {k} : loaded[x] = entries[x]
    BY <1>0
  <2> HIDE DEF kept, loaded, sizes
  <2>8. entries' \in [Keys -> [age : {"none", "fresh", "stale"}, size : Nat]]
    BY <2>4, <2>5, <2>6
  <2>9. \A x \in Keys \ {k} : entries'[x].age = "fresh" => entries[x].age = "fresh"
    BY <2>4, <2>6, <2>7
  <2>10. failures' \in SUBSET Keys /\ \A x \in Keys \ {k} : x \in failures' => x \in failures
    BY <1>0, <2>4
  <2>11. QED
    BY <1>9, <2>3, <2>4, <2>8, <2>9, <2>10
<1>12. ASSUME entries' \in [Keys -> [age : {"none", "fresh", "stale"}, size : Nat]],
              failures' \in SUBSET failures,
              \A x \in Keys : entries'[x].age = "fresh" => entries[x].age = "fresh",
              UNCHANGED <<order, inflight, fetches, caller, cancelled>>
       PROVE  CacheInv'
  <2>1. TypeOK'
    BY <1>0, <1>12 DEF TypeOK
  <2>2. \A f \in DOMAIN fetches : fetches[f].key \in Keys
    BY <1>a
  <2>3. InflightInv'
    BY <1>12, <2>2 DEF InflightInv, Running, CacheInv
  <2>4. WaitInv' /\ NoForeignCancel'
    BY <1>12 DEF WaitInv, NoForeignCancel, CacheInv
  <2>5. QED
    BY <2>1, <2>3, <2>4 DEF CacheInv
<1>13. ASSUME NEW k \in Keys, EntryAges(k) PROVE CacheInv'
  <2>1. entries' = [entries EXCEPT ![k] = [entries[k] EXCEPT !.age = "stale"]]
    BY <1>0, <1>13 DEF EntryAges
  <2>2. [entries[k] EXCEPT !.age = "stale"] \in [age : {"none", "fresh", "stale"}, size : Nat]
    BY <1>0
  <2>3. [entries[k] EXCEPT !.age = "stale"].age = "stale"
    BY <1>0
  <2>4. entries' \in [Keys -> [age : {"none", "fresh", "stale"}, size : Nat]]
    BY <1>0, <2>1, <2>2
  <2>5. \A x \in Keys : entries'[x].age = "fresh" => entries[x].age = "fresh"
    BY <1>0, <2>1, <2>3
  <2>6. QED
    BY <1>12, <1>13, <2>4, <2>5 DEF EntryAges
<1>14. ASSUME NEW k \in Keys, FailureAges(k) PROVE CacheInv'
  BY <1>0, <1>12, <1>14 DEF FailureAges
<1>15. ASSUME NEW C \in SUBSET Callers, Cancel(C) PROVE CacheInv'
  <2>1. TypeOK'
    BY <1>0, <1>15 DEF Cancel, cacheVars, TypeOK
  <2>2. InflightInv' /\ WaitInv' /\ NoForeignCancel'
    BY <1>15 DEF Cancel, cacheVars, InflightInv, WaitInv, NoForeignCancel, Running, CacheInv
  <2>3. QED
    BY <2>1, <2>2 DEF CacheInv
<1>16. CASE UNCHANGED vars
  <2>1. TypeOK'
    BY <1>0, <1>16 DEF vars, cacheVars, TypeOK
  <2>2. InflightInv' /\ WaitInv' /\ NoForeignCancel'
    BY <1>16 DEF vars, cacheVars, InflightInv, WaitInv, NoForeignCancel, Running, CacheInv
  <2>3. QED
    BY <2>1, <2>2 DEF CacheInv
<1>17. QED
  BY <1>1, <1>2, <1>3, <1>4, <1>5, <1>6, <1>7, <1>8, <1>10, <1>11, <1>13, <1>14,
     <1>15, <1>16 DEF Next, Lookup, Wait, Fetch, Age

-----------------------------------------------------------------------------
(* What every step of the cache leaves alone *)

\* A caller that returned stays as it is, and a step other than the end of a
\* context cancels nobody.
LEMMA Returned ==
  ASSUME TypeOK, [Next]_vars, NEW c \in Callers, caller[c].pc = "returned"
  PROVE  caller'[c] = caller[c]
<1> USE DEF TypeOK
<1>1. ASSUME NEW d \in Callers, Skip(d) \/ Lookup(d) \/ Wait(d) PROVE caller'[c] = caller[c]
  BY <1>1 DEF Skip, Lookup, Wait, Hit, RememberedFailure, Join, StartFetch, Miss, Answered,
     Abandon, Return, WaitFor
<1>2. ASSUME NEW f \in DOMAIN fetches, Fetch(f) PROVE caller'[c] = caller[c]
  BY <1>2 DEF Fetch, Load, PublishFailure, PublishIndex, Publish
<1>3. CASE Age \/ UNCHANGED vars \/ \E C \in SUBSET Callers : Cancel(C)
  BY <1>3 DEF Age, EntryAges, FailureAges, Cancel, vars
<1>4. QED
  BY <1>1, <1>2, <1>3 DEF Next

LEMMA NobodyCancelled ==
  ASSUME NEW c \in Callers, NEW f,
         Skip(c) \/ Lookup(c) \/ Wait(c) \/ Fetch(f) \/ Age
  PROVE  cancelled' = cancelled
BY DEF Skip, Lookup, Wait, Hit, RememberedFailure, Join, StartFetch, Answered, Abandon,
   Fetch, Load, PublishFailure, PublishIndex, Publish, Age, EntryAges, FailureAges

\* A step of a search is a step of the cache's callers, or none.
LEMMA SearchStepIsCacheStep == [SearchNext]_allVars => [Next]_vars
<1> SUFFICES ASSUME [SearchNext]_allVars PROVE [Next]_vars
  OBVIOUS
<1>1. ASSUME NEW c \in Callers, TakeSlot(c) \/ InCache(Skip(c) \/ Wait(c)) PROVE Next
  BY <1>1 DEF TakeSlot, InCache, Next
<1>2. ASSUME NEW f \in DOMAIN fetches, InCache(Fetch(f)) PROVE Next
  BY <1>2 DEF InCache, Next
<1>3. ASSUME NEW s \in Searches, BudgetEnds(s) PROVE Next
  <2>1. Lookups(s) \in SUBSET Callers
    BY DEF Lookups
  <2>2. QED
    BY <1>3, <2>1 DEF BudgetEnds, Next
<1>4. ASSUME NEW s \in Searches, Done(s) \/ \E r \in Repos : Emit(s, r)
      PROVE  UNCHANGED vars
  BY <1>4 DEF Done, Emit
<1>5. CASE InCache(Age)
  BY <1>5 DEF InCache, Next
<1>6. CASE UNCHANGED allVars
  BY <1>6 DEF allVars
<1>7. QED
  BY <1>1, <1>2, <1>3, <1>4, <1>5, <1>6 DEF SearchNext

-----------------------------------------------------------------------------
(* The cache's theorems *)

LEMMA CacheAlways == Spec => []CacheInv
<1>1. QED
  BY CacheInit, CacheStep, PTL DEF Spec

\* A search uses the cache as any callers may: every theorem about the cache is
\* one about searches.
THEOREM SearchUsesCache == SearchSpec => Spec
<1>1. SearchInit => Init
  BY DEF SearchInit
<1>2. QED
  BY <1>1, SearchStepIsCacheStep, PTL DEF SearchSpec, Spec

\* The cache's entries, recency list, failures, running fetches and callers keep
\* their types.
THEOREM TypeCorrect == SearchSpec => []TypeOK
<1>1. CacheInv => TypeOK
  BY DEF CacheInv
<1>2. QED
  BY <1>1, CacheAlways, SearchUsesCache, PTL

\* However lookups, failures and evictions interleave, an index has one running
\* fetch at most, and none while it has a fresh copy or a failure to remember.
THEOREM OneFetch == SearchSpec => []OneFetchPerIndex
<1>1. CacheInv => OneFetchPerIndex
  BY FetchIsOne DEF CacheInv, InflightInv, OneFetchPerIndex
<1>2. QED
  BY <1>1, CacheAlways, SearchUsesCache, PTL

\* A caller that is told of a cancellation is cancelled itself, whoever shares the
\* fetch it waited for.
THEOREM OwnCancelOnly == SearchSpec => []NoForeignCancel
<1>1. CacheInv => NoForeignCancel
  BY DEF CacheInv
<1>2. QED
  BY <1>1, CacheAlways, SearchUsesCache, PTL

\* Callers of one index share its fetch, and none fails for another's leaving.
THEOREM FetchesAreShared == SearchSpec => []SharedFetches
<1>1. OneFetchPerIndex /\ NoForeignCancel => SharedFetches
  BY DEF SharedFetches
<1>2. QED
  BY <1>1, OneFetch, OwnCancelOnly, PTL

\* The index that was just fetched survives the eviction its arrival causes, even
\* when it alone passes the caps.
THEOREM LastStays == SearchSpec => LastIndexStays
<1>1. ASSUME CacheInv, [Next]_vars, NEW f \in DOMAIN fetches,
             fetches[f].state = "loaded", fetches[f].result = "ok",
             fetches'[f].state = "over"
      PROVE  entries'[fetches[f].key].age = "fresh"
  <2>0. /\ fetches \in Seq([key : Keys, state : {"loading", "loaded", "over"},
                            result : {"none", "ok", "error", "cancelled"}])
        /\ order \in Seq(Keys)
        /\ entries \in [Keys -> [age : {"none", "fresh", "stale"}, size : Nat]]
    BY <1>1 DEF CacheInv, TypeOK
  <2>1. ASSUME NEW g \in DOMAIN fetches, NEW size \in Sizes, PublishIndex(g, size)
        PROVE  entries'[fetches[f].key].age = "fresh"
    <3> DEFINE k == fetches[g].key
               loaded == [entries EXCEPT ![k] = [age |-> "fresh", size |-> size]]
               sizes == [x \in Keys |-> loaded[x].size]
               kept == Kept(Touched(order, k), sizes)
    <3>1. fetches' = [fetches EXCEPT ![g].state = "over"]
      BY <2>1 DEF PublishIndex, Publish
    <3>2. f = g
      BY <1>1, <2>0, <3>1
    <3>3. entries' = [x \in Keys |-> IF x \in ToSet(kept) THEN loaded[x] ELSE NoEntry]
      BY <2>1 DEF PublishIndex
    <3>4. k \in Keys
      BY <1>1, FetchIsOne DEF CacheInv
    <3>5. loaded[k].age = "fresh"
      BY <2>0, <3>4
    <3>6. /\ Touched(order, k) \in Seq(Keys) /\ Len(Touched(order, k)) > 0
          /\ Touched(order, k)[Len(Touched(order, k))] = k
      BY <2>0, <3>4, TouchedType
    <3>7. k \in ToSet(kept)
      <4> HIDE DEF sizes
      <4> QED BY <3>6, KeptLast
    <3> HIDE DEF kept, loaded
    <3>8. QED
      BY <3>2, <3>3, <3>4, <3>5, <3>7
  <2>2. ASSUME NEW g \in DOMAIN fetches,
               Load(g, "ok") \/ Load(g, "error") \/ PublishFailure(g)
        PROVE  FALSE
    <3>1. CASE Load(g, "ok") \/ Load(g, "error")
      BY <1>1, <2>0, <3>1 DEF Load
    <3>2. CASE PublishFailure(g)
      BY <1>1, <2>0, <3>2 DEF PublishFailure, Publish
    <3>3. QED
      BY <2>2, <3>1, <3>2
  <2>3. ASSUME NEW c \in Callers, Skip(c) \/ Lookup(c) \/ Wait(c)
        PROVE  fetches'[f] = fetches[f]
    <3>1. CASE StartFetch(c)
      BY <2>0, <3>1 DEF StartFetch
    <3>2. CASE ~StartFetch(c)
      BY <2>3, <3>2 DEF Skip, Lookup, Wait, Hit, RememberedFailure, Join, Answered, Abandon
    <3>3. QED
      BY <3>1, <3>2
  <2>4. CASE Age \/ UNCHANGED vars \/ \E C \in SUBSET Callers : Cancel(C)
    BY <1>1, <2>4 DEF Age, EntryAges, FailureAges, Cancel, vars
  <2>5. QED
    BY <1>1, <2>1, <2>2, <2>3, <2>4 DEF Next, Fetch
<1>2. CacheInv /\ [Next]_vars =>
        [\A f \in DOMAIN fetches :
           fetches[f].state = "loaded" /\ fetches[f].result = "ok"
             /\ fetches'[f].state = "over" => entries'[fetches[f].key].age = "fresh"]_vars
  BY <1>1
<1>3. QED
  BY <1>2, CacheAlways, SearchUsesCache, PTL DEF LastIndexStays, Spec

-----------------------------------------------------------------------------
(* The search *)

\* The context of a search is that of all its lookups, a lookup that is back has
\* an answer, and what was emitted stands for lookups that are back.
SearchInv ==
  /\ SearchTypeOK
  /\ \A c \in Callers : caller[c].pc = "returned" =>
       caller[c].got \in {"entries", "error", "cancelled"}
  /\ \A c, d \in Callers : SearchOf[c] = SearchOf[d] /\ c \in cancelled => d \in cancelled
  /\ \A s \in Searches, r \in Repos : batch[s][r] # "pending" => Settled(s, r)
  /\ \A s \in Searches, r \in Repos : batch[s][r] = "hits" =>
       \A c \in LookupsOf(s, r) : caller[c].got \in {"entries", "error"}
  /\ \A s \in Searches, r \in Repos : batch[s][r] = "repoError" =>
       \A c \in LookupsOf(s, r) : caller[c].got = "error"
  /\ \A s \in Searches : answer[s] = "complete" =>
       \A r \in Planned(s) : batch[s][r] \in {"hits", "repoError"}

LEMMA SearchStart == SearchInit => SearchInv
<1> SUFFICES ASSUME SearchInit PROVE SearchInv
  OBVIOUS
<1>1. SearchTypeOK
  BY DEF SearchInit, SearchTypeOK
<1>2. QED
  BY <1>1 DEF SearchInit, SearchInv, Init

\* A lookup that comes back has an answer.
LEMMA BackWithAnswer ==
  ASSUME CacheInv, SearchInv, [Next]_vars, NEW c \in Callers, caller'[c].pc = "returned"
  PROVE  caller'[c].got \in {"entries", "error", "cancelled"}
<1> USE DEF CacheInv, TypeOK
<1>1. CASE caller[c].pc = "returned"
  BY <1>1, Returned DEF SearchInv
<1>2. ASSUME caller[c].pc # "returned", NEW d \in Callers, Skip(d) \/ Lookup(d) \/ Abandon(d)
      PROVE  caller'[c].got \in {"entries", "error", "cancelled"}
  <2>1. CASE Skip(d) \/ Abandon(d) \/ Hit(d) \/ RememberedFailure(d)
    <3>1. PICK g \in {"entries", "error", "cancelled"} :
            caller' = [caller EXCEPT ![d].pc = "returned", ![d].got = g]
      BY <2>1 DEF Skip, Abandon, Hit, RememberedFailure, Return
    <3>2. d # c => caller'[c] = caller[c]
      BY <3>1
    <3>3. d = c /\ caller[c] \in [pc : {"idle", "waiting", "returned"}, on : Nat,
                                 got : {"nothing", "entries", "error", "cancelled"}]
      BY <1>2, <3>2
    <3>4. caller' = [caller EXCEPT ![d] = [caller[d] EXCEPT !.pc = "returned", !.got = g]]
      BY <3>1
    <3>5. caller'[c].got = g
      BY <3>3, <3>4
    <3>6. QED
      BY <3>5
  <2>2. CASE Join(d) \/ StartFetch(d)
    <3>1. \E n : caller' = [caller EXCEPT ![d].pc = "waiting", ![d].on = n]
      BY <2>2 DEF Join, StartFetch, WaitFor
    <3>2. caller'[c].pc # "returned"
      BY <1>2, <3>1
    <3>3. QED
      BY <3>2
  <2>3. QED
    BY <1>2, <2>1, <2>2 DEF Lookup
<1>3. ASSUME caller[c].pc # "returned", NEW d \in Callers, Answered(d)
      PROVE  caller'[c].got \in {"entries", "error", "cancelled"}
  <2>1. fetches[caller[d].on].result \in {"ok", "error"}
    BY <1>3 DEF Answered, WaitInv
  <2>2. QED
    BY <1>3, <2>1 DEF Answered, Return
<1>4. ASSUME caller' = caller PROVE caller'[c].got \in {"entries", "error", "cancelled"}
  BY <1>4 DEF SearchInv
<1>5. ASSUME NEW f \in DOMAIN fetches, Fetch(f) PROVE caller' = caller
  BY <1>5 DEF Fetch, Load, PublishFailure, PublishIndex, Publish
<1>6. CASE Age \/ UNCHANGED vars \/ \E C \in SUBSET Callers : Cancel(C)
  BY <1>4, <1>6 DEF Age, EntryAges, FailureAges, Cancel, vars
<1> HIDE DEF CacheInv, TypeOK
<1>7. QED
  BY <1>1, <1>2, <1>3, <1>4, <1>5, <1>6 DEF Next, Wait

\* A step of the cache under which nothing is emitted.
LEMMA CacheStepInSearch ==
  ASSUME CacheInv, SearchInv, [Next]_vars, UNCHANGED searchVars,
         \A c, d \in Callers : SearchOf[c] = SearchOf[d] /\ c \in cancelled' => d \in cancelled'
  PROVE  SearchInv'
<1>1. SearchTypeOK'
  BY DEF SearchInv, SearchTypeOK, searchVars
<1>2. \A c \in Callers : caller[c].pc = "returned" => caller'[c] = caller[c]
  BY Returned DEF CacheInv
<1>3. \A s \in Searches, r \in Repos : LookupsOf(s, r) \subseteq Callers
  BY DEF LookupsOf, Lookups
<1>4. \A c \in Callers : caller'[c].pc = "returned" =>
        caller'[c].got \in {"entries", "error", "cancelled"}
  BY BackWithAnswer
<1>5. \A s \in Searches, r \in Repos : Settled(s, r) =>
        \A c \in LookupsOf(s, r) : caller'[c] = caller[c] /\ caller[c].pc = "returned"
  BY <1>2, <1>3 DEF Settled
<1>6. \A s \in Searches, r \in Repos : batch'[s][r] # "pending" => Settled(s, r)'
  BY <1>5 DEF Settled, SearchInv, searchVars
<1>7. \A s \in Searches, r \in Repos : batch'[s][r] = "hits" =>
        \A c \in LookupsOf(s, r) : caller'[c].got \in {"entries", "error"}
  BY <1>5 DEF SearchInv, searchVars
<1>8. \A s \in Searches, r \in Repos : batch'[s][r] = "repoError" =>
        \A c \in LookupsOf(s, r) : caller'[c].got = "error"
  BY <1>5 DEF SearchInv, searchVars
<1>9. \A s \in Searches : answer'[s] = "complete" =>
        \A r \in Planned(s) : batch'[s][r] \in {"hits", "repoError"}
  BY DEF SearchInv, searchVars
<1>10. QED
  BY <1>1, <1>4, <1>6, <1>7, <1>8, <1>9 DEF SearchInv

LEMMA SearchStep == CacheInv /\ SearchInv /\ [SearchNext]_allVars => SearchInv'
<1> SUFFICES ASSUME CacheInv, SearchInv, [SearchNext]_allVars PROVE SearchInv'
  OBVIOUS
<1>0. [Next]_vars
  BY SearchStepIsCacheStep
<1>1. ASSUME UNCHANGED searchVars, cancelled' = cancelled PROVE SearchInv'
  <2>1. \A c, d \in Callers : SearchOf[c] = SearchOf[d] /\ c \in cancelled' => d \in cancelled'
    BY <1>1 DEF SearchInv
  <2>2. QED
    BY <1>0, <1>1, <2>1, CacheStepInSearch
<1>2. ASSUME NEW c \in Callers, TakeSlot(c) \/ InCache(Skip(c) \/ Wait(c)) PROVE SearchInv'
  BY <1>1, <1>2, NobodyCancelled DEF TakeSlot, InCache
<1>3. ASSUME NEW f \in DOMAIN fetches, InCache(Fetch(f)) PROVE SearchInv'
  <2>1. UNCHANGED searchVars /\ cancelled' = cancelled
    BY <1>3 DEF InCache, Fetch, Load, PublishFailure, PublishIndex, Publish
  <2>2. QED
    BY <1>1, <2>1
<1>4. CASE InCache(Age)
  <2>1. UNCHANGED searchVars /\ cancelled' = cancelled
    BY <1>4 DEF InCache, Age, EntryAges, FailureAges
  <2>2. QED
    BY <1>1, <2>1
<1>5. ASSUME NEW s \in Searches, BudgetEnds(s) PROVE SearchInv'
  <2>1. \A c, d \in Callers : SearchOf[c] = SearchOf[d] /\ c \in cancelled' => d \in cancelled'
    BY <1>5 DEF BudgetEnds, Cancel, Lookups, SearchInv
  <2>2. QED
    BY <1>0, <1>5, <2>1, CacheStepInSearch DEF BudgetEnds
<1>6. ASSUME NEW s \in Searches, NEW r \in Repos, Emit(s, r) PROVE SearchInv'
  <2> DEFINE b == IF Over(s) THEN "dropped" ELSE BatchOf(s, r)
  <2>1. /\ r \in Planned(s) /\ batch[s][r] = "pending" /\ Settled(s, r)
        /\ batch' = [batch EXCEPT ![s][r] = b]
        /\ UNCHANGED vars /\ UNCHANGED answer
    BY <1>6 DEF Emit
  <2>2. b \in {"hits", "repoError", "dropped"}
    BY DEF BatchOf
  <2>3. LookupsOf(s, r) \subseteq Callers /\ Lookups(s) \subseteq Callers
    BY DEF LookupsOf, Lookups
  <2>4. ASSUME b # "dropped", NEW c \in LookupsOf(s, r)
        PROVE  caller[c].got \in {"entries", "error"}
    <3>1. PICK d \in Lookups(s) : d \notin cancelled
      BY <2>4 DEF Over
    <3>2. c \notin cancelled
      BY <2>3, <3>1 DEF SearchInv, Lookups, LookupsOf
    <3>3. QED
      BY <2>1, <2>3, <3>2 DEF Settled, SearchInv, CacheInv, NoForeignCancel
  <2>5. ASSUME b = "repoError", NEW c \in LookupsOf(s, r) PROVE caller[c].got = "error"
    BY <2>4, <2>5 DEF BatchOf
  <2> HIDE DEF b
  <2>6. \A s1 \in Searches, r1 \in Repos :
          batch'[s1][r1] = IF s1 = s /\ r1 = r THEN b ELSE batch[s1][r1]
    BY <2>1 DEF SearchInv, SearchTypeOK
  <2>7. SearchTypeOK'
    BY <2>1, <2>2 DEF SearchInv, SearchTypeOK
  <2>8. caller' = caller /\ cancelled' = cancelled /\ answer' = answer
    BY <2>1 DEF vars
  <2>9. \A s1 \in Searches, r1 \in Repos : batch'[s1][r1] # "pending" => Settled(s1, r1)'
    BY <2>1, <2>6, <2>8 DEF SearchInv, Settled
  <2>10. \A s1 \in Searches, r1 \in Repos : batch'[s1][r1] = "hits" =>
           \A c \in LookupsOf(s1, r1) : caller'[c].got \in {"entries", "error"}
    BY <2>2, <2>4, <2>6, <2>8 DEF SearchInv
  <2>11. \A s1 \in Searches, r1 \in Repos : batch'[s1][r1] = "repoError" =>
           \A c \in LookupsOf(s1, r1) : caller'[c].got = "error"
    BY <2>5, <2>6, <2>8 DEF SearchInv
  <2>12. \A s1 \in Searches : answer'[s1] = "complete" =>
           \A r1 \in Planned(s1) : batch'[s1][r1] \in {"hits", "repoError"}
    <3>1. \A s1 \in Searches : \A r1 \in Planned(s1) : r1 \in Repos
      BY SearchAssumption DEF Planned, Lookups
    <3>2. QED
      BY <2>1, <2>6, <2>8, <3>1 DEF SearchInv
  <2>13. QED
    BY <2>7, <2>8, <2>9, <2>10, <2>11, <2>12 DEF SearchInv
<1>7. ASSUME NEW s \in Searches, Done(s) PROVE SearchInv'
  <2>1. /\ UNCHANGED vars /\ batch' = batch
        /\ \A r \in Planned(s) : batch[s][r] # "pending"
        /\ answer' = [answer EXCEPT ![s] =
             IF \E r \in Planned(s) : batch[s][r] = "dropped" THEN "truncated" ELSE "complete"]
    BY <1>7 DEF Done
  <2>2. SearchTypeOK'
    BY <2>1 DEF SearchInv, SearchTypeOK
  <2>3. caller' = caller /\ cancelled' = cancelled
    BY <2>1 DEF vars
  <2>4. \A t \in Searches : answer'[t] = "complete" =>
           \A r \in Planned(t) : batch'[t][r] \in {"hits", "repoError"}
    <3>1. \A r \in Planned(s) : batch[s][r] \in {"pending", "hits", "repoError", "dropped"}
      BY SearchAssumption DEF Planned, Lookups, SearchInv, SearchTypeOK
    <3>2. \A t \in Searches : t # s => answer'[t] = answer[t]
      BY <2>1 DEF SearchInv, SearchTypeOK
    <3>3. answer'[s] = "complete" => \A r \in Planned(s) : batch[s][r] # "dropped"
      BY <2>1 DEF SearchInv, SearchTypeOK
    <3>4. QED
      BY <2>1, <3>1, <3>2, <3>3 DEF SearchInv
  <2>5. QED
    BY <2>1, <2>2, <2>3, <2>4 DEF SearchInv, Settled
<1>8. CASE UNCHANGED allVars
  BY <1>1, <1>8 DEF allVars, vars
<1>9. QED
  BY <1>2, <1>3, <1>4, <1>5, <1>6, <1>7, <1>8 DEF SearchNext

\* What is emitted for a repository, and how a stream ends, keep their types.
THEOREM SearchTypeCorrect == SearchSpec => []SearchTypeOK
<1>1. SearchInv => SearchTypeOK
  BY DEF SearchInv
<1>2. QED
  BY <1>1, SearchStart, SearchStep, CacheAlways, SearchUsesCache, PTL DEF SearchSpec

\* A repository is reported as failed only when each of its indexes failed, and a
\* complete stream has the answer of every lookup, however the budget, the emits and
\* the fetches that other searches share interleave.
THEOREM HonestStream == SearchSpec => []StreamIsHonest
<1>1. SearchInv => StreamIsHonest
  <2> SUFFICES ASSUME SearchInv, NEW s \in Searches
               PROVE  /\ \A r \in Planned(s) : batch[s][r] = "repoError" =>
                           \A c \in LookupsOf(s, r) : caller[c].got = "error"
                      /\ answer[s] = "complete" => \A c \in Lookups(s) :
                           /\ caller[c].got \in {"entries", "error"}
                           /\ caller[c].got = "entries" => batch[s][RepoOf[c]] = "hits"
    BY DEF StreamIsHonest
  <2>1. \A r \in Planned(s) : r \in Repos
    BY SearchAssumption DEF Planned, Lookups
  <2>2. \A c \in Lookups(s) : RepoOf[c] \in Planned(s) /\ c \in LookupsOf(s, RepoOf[c])
    BY DEF Planned, LookupsOf
  <2>3. ASSUME answer[s] = "complete", NEW c \in Lookups(s)
        PROVE  /\ caller[c].got \in {"entries", "error"}
               /\ caller[c].got = "entries" => batch[s][RepoOf[c]] = "hits"
    <3>1. batch[s][RepoOf[c]] \in {"hits", "repoError"}
      BY <2>2, <2>3 DEF SearchInv
    <3>2. QED
      BY <2>1, <2>2, <3>1 DEF SearchInv
  <2>4. QED
    BY <2>1, <2>3 DEF SearchInv
<1>2. QED
  BY <1>1, SearchStart, SearchStep, CacheAlways, SearchUsesCache, PTL DEF SearchSpec

-----------------------------------------------------------------------------
(* The build slot: its inductive invariant *)

USE NoBuildAssumption


\* Before tracker.add nobody can cancel or conclude a build.
Untracked(b) ==
  b \notin tracker => /\ outcome[b] = "none"
                      /\ watchdog[b] = "off"

\* The goroutine exists only once it was launched, and only for a tracked build.
LaunchedOnce(b) ==
  /\ starter[b] \notin {"spawned", "returned"} => runner[b] = "none"
  /\ runner[b] # "none" => b \in tracker
  /\ starter[b] = "tracked" => b \in tracker
  /\ starter[b] \in {"idle", "decoding", "refused", "preparing", "bailed"} =>
       b \notin tracker

\* The watchdog is past its verdict only for a build it concluded.
VerdictFirst(b) == watchdog[b] \in {"releasing", "closing"} => outcome[b] = "stalled"

\* A goroutine past closeDone has closed done.
ClosedOnReturn(b) == runner[b] \in {"closing", "ended"} => b \in done

\* A setup channel exists, open or closed, only for a start that claimed the slot.
ChannelsAreClaimed(b) ==
  starter[b] \in {"idle", "decoding", "refused"} => b # setupDone /\ b \notin closedChans

\* The channel of a start that is preparing is the current one or is closed.
WindowOpenOrStolen(b) ==
  starter[b] = "preparing" => b = setupDone \/ b \in closedChans

\* Shutdown waits for the channel of a start that is preparing, unless closed.
ShutdownWatchesWindow(b) ==
  /\ server = "settling" /\ starter[b] = "preparing" => b = pending \/ b \in closedChans
  /\ Snapshotted /\ ~setupTimedOut /\ starter[b] = "preparing" => b \in closedChans

AdmissionClosedAtShutdown == server # "serving" => admissionClosed

BuildInv(b) ==
  /\ Untracked(b)
  /\ LaunchedOnce(b)
  /\ VerdictFirst(b)
  /\ ClosedOnReturn(b)
  /\ ChannelsAreClaimed(b)
  /\ WindowOpenOrStolen(b)
  /\ ShutdownWatchesWindow(b)
  /\ Building(b) => activeBuildID = b

SlotInv ==
  /\ AdmissionClosedAtShutdown
  /\ NoDoubleClose
  /\ \A b \in Builds : BuildInv(b)

-----------------------------------------------------------------------------
(* Type correctness *)

LEMMA TypeInit == ServiceInit => ServiceTypeOK
<1> SUFFICES ASSUME ServiceInit PROVE ServiceTypeOK
  OBVIOUS
<1>1. starter \in [Builds -> Starter] /\ runner \in [Builds -> Runner]
  BY DEF ServiceInit, Starter, Runner
<1>2. child \in [Builds -> Child] /\ outcome \in [Builds -> Outcome]
  BY DEF ServiceInit, Child, Outcome
<1>3. watchdog \in [Builds -> Watchdog] /\ cancelRequested \in [Builds -> BOOLEAN]
  BY DEF ServiceInit, Watchdog
<1>4. server \in Phase
  BY DEF ServiceInit, Phase
<1>5. QED
  BY <1>1, <1>2, <1>3, <1>4 DEF ServiceInit, ServiceTypeOK

LEMMA TypeStep == ServiceTypeOK /\ [ServiceNext]_serviceVars => ServiceTypeOK'
<1> SUFFICES ASSUME ServiceTypeOK, [ServiceNext]_serviceVars PROVE ServiceTypeOK'
  OBVIOUS
<1> USE DEF ServiceTypeOK, startVars, slotVars, runVars, stopVars, downVars,
            Starter, Runner, Child, Outcome, Watchdog, Phase
<1>1. ASSUME NEW b \in Builds, Arrive(b) PROVE ServiceTypeOK'
  BY <1>1 DEF Arrive
<1>2. ASSUME NEW b \in Builds, AcquireBuildSlot(b) PROVE ServiceTypeOK'
  BY <1>2 DEF AcquireBuildSlot
<1>3. ASSUME NEW b \in Builds, RefuseStart(b) PROVE ServiceTypeOK'
  BY <1>3 DEF RefuseStart
<1>4. ASSUME NEW b \in Builds, PrepareFails(b) PROVE ServiceTypeOK'
  BY <1>4 DEF PrepareFails, SlotAfterRelease
<1>5. ASSUME NEW b \in Builds, Track(b) PROVE ServiceTypeOK'
  BY <1>5 DEF Track
<1>6. ASSUME NEW b \in Builds, Spawn(b) PROVE ServiceTypeOK'
  BY <1>6 DEF Spawn
<1>7. ASSUME NEW b \in Builds, EndBuildSetup(b) PROVE ServiceTypeOK'
  BY <1>7 DEF EndBuildSetup
<1>8. ASSUME NEW b \in Builds, StartFails(b) PROVE ServiceTypeOK'
  BY <1>8 DEF StartFails, Finish
<1>9. ASSUME NEW b \in Builds, ChildStarts(b) PROVE ServiceTypeOK'
  BY <1>9 DEF ChildStarts
<1>10. ASSUME NEW b \in Builds, ChildExits(b) PROVE ServiceTypeOK'
  BY <1>10 DEF ChildExits
<1>11. ASSUME NEW b \in Builds, Reap(b) PROVE ServiceTypeOK'
  BY <1>11 DEF Reap, Finish
<1>12. ASSUME NEW b \in Builds, CloseDone(b) PROVE ServiceTypeOK'
  BY <1>12 DEF CloseDone
<1>13. ASSUME NEW b \in Builds, ReleaseBuildSlot(b) PROVE ServiceTypeOK'
  BY <1>13 DEF ReleaseBuildSlot, SlotAfterRelease
<1>14. ASSUME NEW b \in Builds, CancelBuild(b) PROVE ServiceTypeOK'
  BY <1>14 DEF CancelBuild, Cancellable
<1>15. ASSUME NEW b \in Builds, WatchdogSeesDone(b) PROVE ServiceTypeOK'
  BY <1>15 DEF WatchdogSeesDone
<1>16. ASSUME NEW b \in Builds, DeadlineFires(b) PROVE ServiceTypeOK'
  BY <1>16 DEF DeadlineFires, Finish
<1>17. ASSUME NEW b \in Builds, WatchdogReleasesSlot(b) PROVE ServiceTypeOK'
  BY <1>17 DEF WatchdogReleasesSlot, SlotAfterRelease
<1>18. ASSUME NEW b \in Builds, WatchdogClosesDone(b) PROVE ServiceTypeOK'
  BY <1>18 DEF WatchdogClosesDone
<1>19. ASSUME NEW b \in Builds, CancelInFlight(b) PROVE ServiceTypeOK'
  BY <1>19 DEF CancelInFlight, Cancellable
<1>20. ASSUME NEW b \in Builds, AwaitDone(b) PROVE ServiceTypeOK'
  BY <1>20 DEF AwaitDone
<1>21. CASE CloseBuildAdmission
  BY <1>21 DEF CloseBuildAdmission
<1>22. CASE HTTPShutdown
  BY <1>22 DEF HTTPShutdown
<1>23. CASE ReadSetupDone
  BY <1>23 DEF ReadSetupDone
<1>24. CASE SetupSettled
  BY <1>24 DEF SetupSettled
<1>25. CASE SetupGraceExpires
  BY <1>25 DEF SetupGraceExpires
<1>26. CASE BeginAwait
  BY <1>26 DEF BeginAwait
<1>27. CASE Exit
  BY <1>27 DEF Exit
<1>28. CASE UNCHANGED serviceVars
  BY <1>28 DEF serviceVars
<1> HIDE DEF ServiceTypeOK, startVars, slotVars, runVars, stopVars, downVars,
             Starter, Runner, Child, Outcome, Watchdog, Phase
<1>29. QED
  BY <1>1, <1>2, <1>3, <1>4, <1>5, <1>6, <1>7, <1>8, <1>9, <1>10, <1>11,
     <1>12, <1>13, <1>14, <1>15, <1>16, <1>17, <1>18, <1>19, <1>20,
     <1>21, <1>22, <1>23, <1>24, <1>25, <1>26, <1>27, <1>28
  DEF ServiceNext, StartStep, RunStep, WatchStep, ShutdownStep

\* Every variable of the slot and its builds keeps its type, for any requests.
THEOREM ServiceTypeCorrect == ServiceSpec => []ServiceTypeOK
  BY TypeInit, TypeStep, PTL DEF ServiceSpec

-----------------------------------------------------------------------------
(* The slot *)

LEMMA SlotInit == ServiceInit => SlotInv
<1> SUFFICES ASSUME ServiceInit PROVE SlotInv
  OBVIOUS
<1>1. AdmissionClosedAtShutdown /\ NoDoubleClose
  BY DEF ServiceInit, AdmissionClosedAtShutdown, NoDoubleClose
<1>2. ASSUME NEW b \in Builds PROVE BuildInv(b)
  <2>1. /\ starter[b] = "idle" /\ runner[b] = "none" /\ watchdog[b] = "off"
        /\ outcome[b] = "none" /\ b \notin tracker /\ server = "serving"
    BY DEF ServiceInit
  <2>2. b # setupDone /\ b \notin closedChans
    BY DEF ServiceInit
  <2>3. QED
    BY <2>1, <2>2
    DEF BuildInv, Untracked, LaunchedOnce, VerdictFirst, ClosedOnReturn,
        ChannelsAreClaimed, WindowOpenOrStolen, ShutdownWatchesWindow,
        Snapshotted, Building
<1>3. QED
  BY <1>1, <1>2 DEF SlotInv

LEMMA SlotStep == ServiceTypeOK /\ SlotInv /\ [ServiceNext]_serviceVars => SlotInv'
<1> SUFFICES ASSUME ServiceTypeOK, SlotInv, [ServiceNext]_serviceVars PROVE SlotInv'
  OBVIOUS
<1> USE DEF ServiceTypeOK, startVars, slotVars, runVars, stopVars, downVars,
            Starter, Runner, Child, Outcome, Watchdog, Phase,
            SlotInv, AdmissionClosedAtShutdown, NoDoubleClose, BuildInv,
            Untracked, LaunchedOnce, VerdictFirst, ClosedOnReturn,
            ChannelsAreClaimed, WindowOpenOrStolen, ShutdownWatchesWindow,
            Snapshotted, Building, Up
<1>1. ASSUME NEW b \in Builds, Arrive(b) PROVE SlotInv'
  BY <1>1 DEF Arrive
<1>2. ASSUME NEW b \in Builds, AcquireBuildSlot(b) PROVE SlotInv'
  BY <1>2 DEF AcquireBuildSlot
<1>3. ASSUME NEW b \in Builds, RefuseStart(b) PROVE SlotInv'
  BY <1>3 DEF RefuseStart
<1>4. ASSUME NEW b \in Builds, PrepareFails(b) PROVE SlotInv'
  BY <1>4 DEF PrepareFails, SlotAfterRelease
<1>5. ASSUME NEW b \in Builds, Track(b) PROVE SlotInv'
  BY <1>5 DEF Track
<1>6. ASSUME NEW b \in Builds, Spawn(b) PROVE SlotInv'
  BY <1>6 DEF Spawn
<1>7. ASSUME NEW b \in Builds, EndBuildSetup(b) PROVE SlotInv'
  BY <1>7 DEF EndBuildSetup
<1>8. ASSUME NEW b \in Builds, StartFails(b) PROVE SlotInv'
  BY <1>8 DEF StartFails, Finish
<1>9. ASSUME NEW b \in Builds, ChildStarts(b) PROVE SlotInv'
  BY <1>9 DEF ChildStarts
<1>10. ASSUME NEW b \in Builds, ChildExits(b) PROVE SlotInv'
  BY <1>10 DEF ChildExits
<1>11. ASSUME NEW b \in Builds, Reap(b) PROVE SlotInv'
  BY <1>11 DEF Reap, Finish
<1>12. ASSUME NEW b \in Builds, CloseDone(b) PROVE SlotInv'
  BY <1>12 DEF CloseDone
<1>13. ASSUME NEW b \in Builds, ReleaseBuildSlot(b) PROVE SlotInv'
  BY <1>13 DEF ReleaseBuildSlot, SlotAfterRelease
<1>14. ASSUME NEW b \in Builds, CancelBuild(b) PROVE SlotInv'
  BY <1>14 DEF CancelBuild, Cancellable
<1>15. ASSUME NEW b \in Builds, WatchdogSeesDone(b) PROVE SlotInv'
  BY <1>15 DEF WatchdogSeesDone
<1>16. ASSUME NEW b \in Builds, DeadlineFires(b) PROVE SlotInv'
  BY <1>16 DEF DeadlineFires, Finish
<1>17. ASSUME NEW b \in Builds, WatchdogReleasesSlot(b) PROVE SlotInv'
  BY <1>17 DEF WatchdogReleasesSlot, SlotAfterRelease
<1>18. ASSUME NEW b \in Builds, WatchdogClosesDone(b) PROVE SlotInv'
  BY <1>18 DEF WatchdogClosesDone
<1>19. ASSUME NEW b \in Builds, CancelInFlight(b) PROVE SlotInv'
  BY <1>19 DEF CancelInFlight, Cancellable
<1>20. ASSUME NEW b \in Builds, AwaitDone(b) PROVE SlotInv'
  BY <1>20 DEF AwaitDone
<1>21. CASE CloseBuildAdmission
  BY <1>21 DEF CloseBuildAdmission
<1>22. CASE HTTPShutdown
  BY <1>22 DEF HTTPShutdown
<1>23. CASE ReadSetupDone
  BY <1>23 DEF ReadSetupDone
<1>24. CASE SetupSettled
  BY <1>24 DEF SetupSettled
<1>25. CASE SetupGraceExpires
  BY <1>25 DEF SetupGraceExpires
<1>26. CASE BeginAwait
  BY <1>26 DEF BeginAwait
<1>27. CASE Exit
  BY <1>27 DEF Exit
<1>28. CASE UNCHANGED serviceVars
  BY <1>28 DEF serviceVars
<1> HIDE DEF ServiceTypeOK, startVars, slotVars, runVars, stopVars, downVars,
             Starter, Runner, Child, Outcome, Watchdog, Phase,
             SlotInv, AdmissionClosedAtShutdown, NoDoubleClose, BuildInv,
             Untracked, LaunchedOnce, VerdictFirst, ClosedOnReturn,
             ChannelsAreClaimed, WindowOpenOrStolen, ShutdownWatchesWindow,
             Snapshotted, Building, Up
<1>29. QED
  BY <1>1, <1>2, <1>3, <1>4, <1>5, <1>6, <1>7, <1>8, <1>9, <1>10, <1>11,
     <1>12, <1>13, <1>14, <1>15, <1>16, <1>17, <1>18, <1>19, <1>20,
     <1>21, <1>22, <1>23, <1>24, <1>25, <1>26, <1>27, <1>28
  DEF ServiceNext, StartStep, RunStep, WatchStep, ShutdownStep

LEMMA SlotInvariant == ServiceSpec => []SlotInv
  BY TypeInit, TypeStep, SlotInit, SlotStep, PTL DEF ServiceSpec

\* No two builds that are still building share the host: one that has not been
\* abandoned by the watchdog holds the slot (StartBuild, runBuild).
THEOREM SlotIsHeld == ServiceSpec => []SlotHeldWhileBuilding
<1>1. SlotInv => SlotHeldWhileBuilding
  BY DEF SlotInv, BuildInv, SlotHeldWhileBuilding
<1>2. QED
  BY <1>1, SlotInvariant, PTL

\* endBuildSetup never closes a channel that is closed.
THEOREM ChannelsCloseOnce == ServiceSpec => []NoDoubleClose
<1>1. SlotInv => NoDoubleClose
  BY DEF SlotInv
<1>2. QED
  BY <1>1, SlotInvariant, PTL

\* runBuild's deferred calls: whoever finds the slot free finds done closed.
THEOREM DoneComesFirst == ServiceSpec => []DoneBeforeRelease
<1>1. ServiceTypeOK /\ SlotInv => DoneBeforeRelease
  BY DEF ServiceTypeOK, Runner, SlotInv, BuildInv, ClosedOnReturn, Building,
         DoneBeforeRelease
<1>2. QED
  BY <1>1, ServiceTypeCorrect, SlotInvariant, PTL

\* A start the shutdown snapshot missed, with its grace not expired, is one
\* whose setup window another start closed.
THEOREM ShutdownMisses == ServiceSpec => []ShutdownMissesOnlyStolenWindows
<1>1. SlotInv => ShutdownMissesOnlyStolenWindows
  BY DEF SlotInv, BuildInv, ShutdownWatchesWindow,
     ShutdownMissesOnlyStolenWindows
<1>2. QED
  BY <1>1, SlotInvariant, PTL
=============================================================================
