----------------------------- MODULE ShellContext -----------------------------
(***************************************************************************)
(* What a CLI build and everything it calls share: the ambient context     *)
(* every spawned command observes (internal/utils/shell/shell.go,          *)
(* internal/utils/runctx/runctx.go, cmd/image-composer-tool/main.go) and   *)
(* the cleanup coordinator.                                                *)
(*                                                                         *)
(* One goroutine runs the build.  Its shell layer is bound to the build's  *)
(* own context, which the first SIGINT or SIGTERM cancels, or, while a     *)
(* cleanup runs after such a signal, to a detached context with a budget.  *)
(* A step of the build stands for one command, or for a row of commands    *)
(* that fail together, and ends in one of four ways:                       *)
(*   ok       it did all it should                                         *)
(*   fail     it failed on its own                                         *)
(*   cut      its context ended while it ran: it reports an error and may  *)
(*            have done its work, part of it or nothing                    *)
(*   refused  its context had ended before: nothing was spawned            *)
(***************************************************************************)
EXTENDS Naturals

VARIABLES
  pc,         \* what the build does next
  ctx,        \* the bound context: "build", or the detached "cleanup" one
  live,       \* the bound context is not done
  signalled,  \* parentCtx.Err() # nil: the first signal has arrived
  entries,    \* Coordinator.entries: the labels registered
  fired       \* Coordinator.fired

contextVars == <<ctx, live, signalled>>
coordinatorVars == <<entries, fired>>

\* The run is over: executeBuild returned, or the process was killed.
Ended == {"exited", "killed"}

Endings == {"ok", "fail", "cut", "refused"}

\* A process starts: nothing is bound but the build's own context.
ContextInit ==
  /\ pc = "load" /\ ctx = "build" /\ live = TRUE /\ signalled = FALSE
  /\ entries = {} /\ fired = FALSE

ContextForget(p) ==
  /\ pc' = p /\ ctx' = "build" /\ live' = TRUE /\ signalled' = FALSE
  /\ entries' = {} /\ fired' = FALSE

\* Spawning commands under the bound context (execCmdWithRetry, applyExecAttrs).
Shell(how) ==
  /\ how \in IF live THEN {"ok", "fail", "cut"} ELSE {"refused"}
  /\ live' = (live /\ how # "cut")
  /\ signalled' = (signalled \/ (how = "cut" /\ ctx = "build"))
  /\ UNCHANGED ctx

\* A step made of commands, and where the build goes on after it.
Command(from, how, next, onError) ==
  /\ pc = from
  /\ Shell(how)
  /\ pc' = IF how = "ok" THEN next ELSE onError

\* A step that spawns nothing.
Goto(from, next) == pc = from /\ pc' = next /\ UNCHANGED contextVars

\* What may be left of a set that is `now`, when the commands that were to make
\* it `goal` element by element ended like this.
Reached(how, now, goal) ==
  CASE how = "ok" -> {goal}
    [] how = "refused" -> {now}
    [] OTHER -> {s \in SUBSET (now \cup goal) : now \cap goal \subseteq s}

\* shell.SetContext and runctx.SetContext: a detached context is not done when
\* it is bound, the build's own one is once a signal has arrived.
Bind(c) == ctx' = c /\ live' = (c = "cleanup" \/ ~signalled) /\ UNCHANGED signalled

\* Coordinator.Register: nothing is registered once Run has fired.
Register(label) == entries' = (IF fired THEN entries ELSE entries \cup {label})

\* The first SIGINT or SIGTERM, between two commands.
SignalArrives ==
  /\ pc \notin Ended /\ ~signalled
  /\ signalled' = TRUE
  /\ live' = (live /\ ctx # "build")
  /\ UNCHANGED <<pc, ctx>>
=============================================================================
