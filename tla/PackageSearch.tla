---------------------------- MODULE PackageSearch ----------------------------
(***************************************************************************)
(* The streaming package search (internal/api/packagesearch_sse.go,        *)
(* internal/api/service/packages.go) over the package index cache.  Each   *)
(* search has a goroutine per repository and one per index of it; these    *)
(* draw slots from the search's semaphore, and a repository is emitted     *)
(* when its own lookups are in, unless the stream's budget ran out.        *)
(***************************************************************************)
EXTENDS PkgIndexCache, FiniteSets

CONSTANTS
  Searches,  \* streams
  Repos,     \* catalog repositories
  SearchOf, RepoOf, \* [Callers -> ...]: which search, for which repository
  Slots      \* maxConcurrentStreamLookups

ASSUME SearchAssumption ==
  /\ SearchOf \in [Callers -> Searches] /\ RepoOf \in [Callers -> Repos]
  /\ Slots \in Nat \ {0}

VARIABLES
  batch,   \* [search -> [repository -> what was emitted for it]]
  answer   \* [search -> the stream's final event]

searchVars == <<batch, answer>>
allVars == <<vars, searchVars>>

Lookups(s) == {c \in Callers : SearchOf[c] = s}
LookupsOf(s, r) == {c \in Lookups(s) : RepoOf[c] = r}
Planned(s) == {RepoOf[c] : c \in Lookups(s)}

SearchTypeOK ==
  /\ batch \in [Searches -> [Repos -> {"pending", "hits", "repoError", "dropped"}]]
  /\ answer \in [Searches -> {"open", "complete", "truncated"}]

SearchInit ==
  /\ Init
  /\ batch = [s \in Searches |-> [r \in Repos |-> "pending"]]
  /\ answer = [s \in Searches |-> "open"]

-----------------------------------------------------------------------------
(* lookupRepo: one goroutine per index *)

\* Mutation of HoldsSlot: a lookup that failed keeps its slot.
HoldsSlotOnError(c) ==
  caller[c].pc = "waiting" \/ (caller[c].pc = "returned" /\ caller[c].got = "error")

\* A slot is held for as long as the lookup lasts.
HoldsSlot(c) == caller[c].pc = "waiting"

\* A slot is free: the index is looked up.
TakeSlot(c) ==
  /\ Cardinality({d \in Lookups(SearchOf[c]) : HoldsSlot(d)}) < Slots
  /\ Lookup(c)
  /\ UNCHANGED searchVars

-----------------------------------------------------------------------------
(* SearchPackagesStream: one goroutine per repository *)

\* Every lookup of the repository is back.
Settled(s, r) == \A c \in LookupsOf(s, r) : caller[c].pc = "returned"

\* Only a repository whose every index failed is reported as failed.
BatchOf(s, r) ==
  IF \A c \in LookupsOf(s, r) : caller[c].got # "entries" THEN "repoError" ELSE "hits"

\* The search's context is done.
Over(s) == Lookups(s) \subseteq cancelled

\* Mutation of Emit: the context is not looked at again under emitMu.
EmitLate(s, r) ==
  /\ r \in Planned(s) /\ batch[s][r] = "pending" /\ Settled(s, r)
  /\ batch' = [batch EXCEPT ![s][r] = BatchOf(s, r)]
  /\ UNCHANGED <<vars, answer>>

\* Under emitMu: the batch is written, unless nobody listens any more.
Emit(s, r) ==
  /\ r \in Planned(s) /\ batch[s][r] = "pending" /\ Settled(s, r)
  /\ batch' = [batch EXCEPT ![s][r] = IF Over(s) THEN "dropped" ELSE BatchOf(s, r)]
  /\ UNCHANGED <<vars, answer>>

\* handleSearchPackageStream's last event, once every goroutine is back.
Done(s) ==
  /\ answer[s] = "open"
  /\ \A r \in Planned(s) : batch[s][r] # "pending"
  /\ answer' = [answer EXCEPT ![s] =
       IF \E r \in Planned(s) : batch[s][r] = "dropped" THEN "truncated" ELSE "complete"]
  /\ UNCHANGED <<vars, batch>>

\* searchStreamBudget passes, or the client is gone.
BudgetEnds(s) ==
  /\ answer[s] = "open"
  /\ Cancel(Lookups(s))
  /\ UNCHANGED searchVars

-----------------------------------------------------------------------------
InCache(A) == A /\ UNCHANGED searchVars

SearchNext ==
  \/ \E c \in Callers : TakeSlot(c) \/ InCache(Skip(c) \/ Wait(c))
  \/ \E f \in DOMAIN fetches : InCache(Fetch(f))
  \/ \E s \in Searches : Done(s) \/ BudgetEnds(s) \/ \E r \in Repos : Emit(s, r)
  \/ InCache(Age)

(***************************************************************************)
(* Fairness: goroutines run, and FetchTimeout ends every fetch.  Neither   *)
(* the budget nor the TTLs are relied on.  A search takes finitely many of *)
(* each of these steps, so one condition for all of a kind is enough.      *)
(***************************************************************************)
SearchFairness ==
  /\ \A s \in Searches : WF_allVars(\E c \in Lookups(s) : TakeSlot(c))
  /\ WF_allVars(\E c \in Callers : InCache(Skip(c) \/ Wait(c)))
  /\ WF_allVars(\E f \in DOMAIN fetches : InCache(Fetch(f)))
  /\ WF_allVars(\E s \in Searches : Done(s) \/ \E r \in Repos : Emit(s, r))

SearchSpec == SearchInit /\ [][SearchNext]_allVars
FairSearchSpec == SearchSpec /\ SearchFairness

-----------------------------------------------------------------------------
(* Properties *)

\* A repository is reported as failed only when its indexes failed, never
\* because the budget ran out; and a stream that says it is complete has heard
\* from every index.
StreamIsHonest ==
  \A s \in Searches :
    /\ \A r \in Planned(s) : batch[s][r] = "repoError" =>
         \A c \in LookupsOf(s, r) : caller[c].got = "error"
    /\ answer[s] = "complete" =>
         /\ \A c \in Lookups(s) : caller[c].got \in {"entries", "error"}
         /\ \A c \in Lookups(s) : caller[c].got = "entries" => batch[s][RepoOf[c]] = "hits"

\* A search ends even if its budget never passes: every lookup gets a slot, and
\* every fetch it waits for ends.
SearchEnds == \A s \in Searches : <>(answer[s] # "open")
=============================================================================
