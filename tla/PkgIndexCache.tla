---------------------------- MODULE PkgIndexCache ----------------------------
(***************************************************************************)
(* The package index cache (internal/api/service/pkgindex/pkgindex.go):    *)
(* concurrent lookups of one index share a fetch that no caller's context  *)
(* can stop, results and failures are remembered for a while, and the      *)
(* least recently used indexes go when the caps are passed.  mu makes a    *)
(* lookup one step, and the end of a fetch two: the result is announced    *)
(* before the lock that publishes it is taken.                             *)
(***************************************************************************)
EXTENDS Naturals, SequencesExt

CONSTANTS
  Keys,        \* index keys: type, URL, suite, component, arch, keyring
  Callers,     \* calls of Lookup
  Wants,       \* [Callers -> Keys]
  Sizes,       \* how many packages an index can hold
  MaxRepos, MaxEntries \* the caps of Config

ASSUME CacheAssumption ==
  /\ Wants \in [Callers -> Keys]
  /\ Sizes \subseteq Nat
  /\ MaxRepos \in Nat \ {0} /\ MaxEntries \in Nat

VARIABLES
  entries,   \* [key -> the cached index: its age and its size]
  order,     \* keys of cached indexes, least recently used first
  failures,  \* keys of failures younger than FailureTTL; an older one is as none
  inflight,  \* [key -> its running fetch, or 0]
  fetches,   \* every fetch begun: its key, where it is, what it loaded
  caller,    \* [caller -> where it is, the fetch it waits for, what it got]
  cancelled  \* callers whose context is done

cacheVars == <<entries, order, failures, inflight>>
vars == <<cacheVars, fetches, caller, cancelled>>

NoEntry == [age |-> "none", size |-> 0]
Cached(k) == entries[k].age # "none"

TypeOK ==
  /\ entries \in [Keys -> [age : {"none", "fresh", "stale"}, size : Nat]]
  /\ order \in Seq(Keys)
  /\ failures \subseteq Keys
  /\ inflight \in [Keys -> Nat]
  /\ fetches \in Seq([key : Keys, state : {"loading", "loaded", "over"},
                      result : {"none", "ok", "error", "cancelled"}])
  /\ caller \in [Callers -> [pc : {"idle", "waiting", "returned"},
                             on : Nat,
                             got : {"nothing", "entries", "error", "cancelled"}]]
  /\ cancelled \subseteq Callers

Init ==
  /\ entries = [k \in Keys |-> NoEntry]
  /\ order = <<>>
  /\ failures = {}
  /\ inflight = [k \in Keys |-> 0]
  /\ fetches = <<>>
  /\ caller = [c \in Callers |-> [pc |-> "idle", on |-> 0, got |-> "nothing"]]
  /\ cancelled = {}

-----------------------------------------------------------------------------
(* Recency and eviction *)

\* touchLocked: k becomes the most recently used key.
Touched(o, k) == Append(RemoveFirst(o, k), k)

Weight(o, size) == FoldLeft(LAMBDA sum, k : sum + size[k], 0, o)

WithinCaps(o, size) == Len(o) <= MaxRepos /\ Weight(o, size) <= MaxEntries

\* evictLocked drops from the front until the caps hold or one index is left.
Kept(o, size) ==
  LET Rest(n) == SubSeq(o, n + 1, Len(o))
      Stop(n) == n = Len(o) - 1 \/ WithinCaps(Rest(n), size)
  IN  Rest(CHOOSE n \in 0..(Len(o) - 1) : Stop(n) /\ \A m \in 0..(n - 1) : ~Stop(m))

-----------------------------------------------------------------------------
(* Lookup *)

\* A caller whose context ends before its turn never looks anything up.
Skip(c) ==
  /\ caller[c].pc = "idle"
  /\ c \in cancelled
  /\ caller' = [caller EXCEPT ![c].pc = "returned", ![c].got = "cancelled"]
  /\ UNCHANGED <<cacheVars, fetches, cancelled>>

Return(c, got) == caller' = [caller EXCEPT ![c].pc = "returned", ![c].got = got]

Hit(c) ==
  /\ caller[c].pc = "idle"
  /\ entries[Wants[c]].age = "fresh"
  /\ order' = Touched(order, Wants[c])
  /\ Return(c, "entries")
  /\ UNCHANGED <<entries, failures, inflight, fetches, cancelled>>

RememberedFailure(c) ==
  /\ caller[c].pc = "idle"
  /\ entries[Wants[c]].age # "fresh"
  /\ Wants[c] \in failures
  /\ Return(c, "error")
  /\ UNCHANGED <<cacheVars, fetches, cancelled>>

\* Neither a fresh entry nor a failure to remember.
Miss(c) ==
  /\ caller[c].pc = "idle"
  /\ entries[Wants[c]].age # "fresh"
  /\ Wants[c] \notin failures

WaitFor(c, f) == caller' = [caller EXCEPT ![c].pc = "waiting", ![c].on = f]

\* Another lookup's fetch of the same index is running: share it.
Join(c) ==
  /\ Miss(c)
  /\ inflight[Wants[c]] # 0
  /\ WaitFor(c, inflight[Wants[c]])
  /\ UNCHANGED <<cacheVars, fetches, cancelled>>

StartFetch(c) ==
  /\ Miss(c)
  /\ inflight[Wants[c]] = 0
  /\ fetches' = Append(fetches, [key |-> Wants[c], state |-> "loading",
                                 result |-> "none"])
  /\ inflight' = [inflight EXCEPT ![Wants[c]] = Len(fetches) + 1]
  /\ WaitFor(c, Len(fetches) + 1)
  /\ UNCHANGED <<entries, order, failures, cancelled>>

\* fetch.wait: the shared fetch is over; a caller whose context is done as well
\* may see either.
Answered(c) ==
  LET f == fetches[caller[c].on]
  IN  /\ caller[c].pc = "waiting"
      /\ f.state # "loading"
      /\ Return(c, IF f.result = "ok" THEN "entries" ELSE f.result)
      /\ UNCHANGED <<cacheVars, fetches, cancelled>>

Abandon(c) ==
  /\ caller[c].pc = "waiting"
  /\ c \in cancelled
  /\ Return(c, "cancelled")
  /\ UNCHANGED <<cacheVars, fetches, cancelled>>

-----------------------------------------------------------------------------
(* The fetch's goroutine *)

\* Mutation of Load: the fetch runs under the context of a caller.
LoadForCaller(f, result) ==
  /\ f \in DOMAIN fetches /\ fetches[f].state = "loading"
  /\ fetches' = [fetches EXCEPT ![f].state = "loaded", ![f].result =
                   IF \E c \in cancelled : caller[c].on = f THEN "cancelled" ELSE result]
  /\ UNCHANGED <<cacheVars, caller, cancelled>>

\* load, under FetchTimeout alone; then done is closed.
Load(f, result) ==
  /\ f \in DOMAIN fetches /\ fetches[f].state = "loading"
  /\ fetches' = [fetches EXCEPT ![f].state = "loaded", ![f].result = result]
  /\ UNCHANGED <<cacheVars, caller, cancelled>>

\* Under mu, the fetch is no longer in flight ...
Publish(f, result) ==
  /\ f \in DOMAIN fetches /\ fetches[f].state = "loaded" /\ fetches[f].result = result
  /\ fetches' = [fetches EXCEPT ![f].state = "over"]
  /\ inflight' = [inflight EXCEPT ![fetches[f].key] = 0]
  /\ UNCHANGED <<caller, cancelled>>

\* ... and its failure is remembered, ...
PublishFailure(f) ==
  /\ \E result \in {"error", "cancelled"} : Publish(f, result)
  /\ failures' = failures \cup {fetches[f].key}
  /\ UNCHANGED <<entries, order>>

\* ... or its index, of some size, becomes the most recently used one.
PublishIndex(f, size) ==
  LET k == fetches[f].key
      loaded == [entries EXCEPT ![k] = [age |-> "fresh", size |-> size]]
      kept == Kept(Touched(order, k), [x \in Keys |-> loaded[x].size])
  IN  /\ Publish(f, "ok")
      /\ order' = kept
      /\ entries' = [x \in Keys |-> IF x \in ToSet(kept) THEN loaded[x] ELSE NoEntry]
      /\ UNCHANGED failures

-----------------------------------------------------------------------------
(* Time, and callers' contexts *)

EntryAges(k) ==
  /\ entries[k].age = "fresh"
  /\ entries' = [entries EXCEPT ![k].age = "stale"]
  /\ UNCHANGED <<order, failures, inflight, fetches, caller, cancelled>>

FailureAges(k) ==
  /\ k \in failures
  /\ failures' = failures \ {k}
  /\ UNCHANGED <<entries, order, inflight, fetches, caller, cancelled>>

Cancel(C) ==
  /\ ~(C \subseteq cancelled)
  /\ cancelled' = cancelled \cup C
  /\ UNCHANGED <<cacheVars, fetches, caller>>

-----------------------------------------------------------------------------
Lookup(c) == Hit(c) \/ RememberedFailure(c) \/ Join(c) \/ StartFetch(c)
Wait(c) == Answered(c) \/ Abandon(c)
Fetch(f) ==
  \/ Load(f, "ok") \/ Load(f, "error")
  \/ PublishFailure(f) \/ \E size \in Sizes : PublishIndex(f, size)
Age == \E k \in Keys : EntryAges(k) \/ FailureAges(k)

Next ==
  \/ \E c \in Callers : Skip(c) \/ Lookup(c) \/ Wait(c)
  \/ \E f \in DOMAIN fetches : Fetch(f)
  \/ Age
  \/ \E C \in SUBSET Callers : Cancel(C)

Spec == Init /\ [][Next]_vars

-----------------------------------------------------------------------------
(* Properties *)

Running(f) == fetches[f].state # "over"

\* Concurrent lookups of one index never fetch it twice, and a fetch is only
\* made when there is no fresh copy and no failure to remember.
OneFetchPerIndex ==
  \A f \in DOMAIN fetches : Running(f) =>
    /\ \A g \in DOMAIN fetches : Running(g) /\ fetches[g].key = fetches[f].key => g = f
    /\ entries[fetches[f].key].age # "fresh"
    /\ fetches[f].key \notin failures

\* A caller is told its context is done only when it is: abandoning a search on
\* a keystroke never fails the lookups of another one.
NoForeignCancel ==
  \A c \in Callers : caller[c].got = "cancelled" => c \in cancelled

\* Concurrent lookups share one fetch, and none of them is told of the
\* cancellation of another (the comments on Cache.Lookup and fetch).
SharedFetches == OneFetchPerIndex /\ NoForeignCancel

\* An index that was fetched for a caller that gave up serves the next one: what
\* was published last is still there until time or another publication.
LastIndexStays ==
  [][\A f \in DOMAIN fetches :
       fetches[f].state = "loaded" /\ fetches[f].result = "ok"
         /\ fetches'[f].state = "over" => entries'[fetches[f].key].age = "fresh"]_vars
=============================================================================
