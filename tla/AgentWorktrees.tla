------------------------------ MODULE AgentWorktrees ------------------------------
(***************************************************************************)
(* The checkout in which the agents of one dispatch work: it is made when  *)
(* an agent is placed, and removed by whoever comes to the end of the      *)
(* dispatch - the teardown of a failed or an abandoned dispatch, the       *)
(* reaper of what that teardown left behind (the failure handoffs), the    *)
(* release of a completed dispatch, and the sweep of a starting process.   *)
(* Each of them must know that no agent works in the checkout any more,    *)
(* and the last two keep what exists only there.                           *)
(*                                                                         *)
(* tree is the checkout: "absent", "clean" or with "local" work (changes   *)
(* or commits that no remote has).  worker holds the agents whose          *)
(* processes run, placed those whose placement Factory knows.  job is what *)
(* drives the dispatch, reap the reaper of handoffs.                       *)
(***************************************************************************)
EXTENDS FiniteSets, Naturals

CONSTANTS Agent,
          Overlaps,   \* a dispatch may be retried while handoffs of it are left
          Slow,       \* a placement may hang: it is given up and may yet take effect
          MaxTries,   \* bound on dispatch attempts
          MaxFaults,  \* bound on failures
          MaxCrashes  \* bound on restarts

VARIABLES phase, tree, merged, worker, placed, landing, handoffs, registry, job, reap,
          up, tries, faults, crashes

worktreeVars == <<phase, tree, merged, worker, placed, landing, handoffs, registry, job, reap,
                  up, tries, faults, crashes>>

Phases == {"ready", "dispatching", "running", "retryable", "abandoning", "releasing",
           "complete", "abandoned"}
Terminal == {"complete", "abandoned"}
NoJob == [at |-> "idle", todo |-> {}, failed |-> FALSE, ends |-> FALSE]
NoReap == [todo |-> {}, ready |-> {}, all |-> {}]

TypeOK ==
    /\ phase \in Phases /\ tree \in {"absent", "clean", "local"} /\ merged \in BOOLEAN
    /\ (worker \cup placed \cup landing \cup handoffs \cup registry) \subseteq Agent
    /\ job.at \in {"idle", "spawn", "failed", "release", "clean", "settle", "inspect", "remove", "scan"}
    /\ (job.todo \cup reap.todo \cup reap.ready \cup reap.all) \subseteq Agent
    /\ up \in BOOLEAN /\ tries \in 0..MaxTries
    /\ faults \in 0..MaxFaults /\ crashes \in 0..MaxCrashes

WorktreeInit ==
    /\ phase = "ready" /\ tree = "absent" /\ merged = FALSE
    /\ worker = {} /\ placed = {} /\ landing = {} /\ handoffs = {} /\ registry = {}
    /\ job = NoJob /\ reap = NoReap /\ up = TRUE /\ tries = 0 /\ faults = 0 /\ crashes = 0

Fails == faults < MaxFaults /\ faults' = faults + 1
Fine == UNCHANGED faults
Works == UNCHANGED <<up, tries, crashes, merged>>
At(at) == up /\ job.at = at
Goes(at) == job' = [job EXCEPT !.at = at]
Registered == registry' = handoffs' \cup IF phase' \in Terminal \cup {"ready", "retryable"} THEN {} ELSE placed'

-----------------------------------------------------------------------------
(* Dispatching *)

Quiet == Overlaps \/ (handoffs = {} /\ reap = NoReap)

Dispatch ==
    /\ At("idle") /\ phase \in {"ready", "retryable"} /\ Quiet /\ tries < MaxTries
    /\ tries' = tries + 1 /\ phase' = "dispatching"
    /\ job' = [NoJob EXCEPT !.at = "spawn", !.todo = Agent]
    /\ Fine /\ UNCHANGED <<tree, merged, worker, placed, landing, handoffs, registry, reap, up, crashes>>

\* #spawnAgent: an agent Factory knows is not placed again, one on the roster
\* is adopted; for a new one the checkout is prepared first.  The placement
\* is refused, its answer is lost, or it is still under way when it is given up.
Spawn(a) ==
    /\ At("spawn") /\ a \in job.todo
    /\ \/ /\ a \in placed \cup worker
          /\ placed' = placed \cup {a} /\ job' = [job EXCEPT !.todo = @ \ {a}]
          /\ Fine /\ UNCHANGED <<tree, worker, landing>>
       \/ /\ a \notin placed \cup worker
          /\ tree' = IF tree = "absent" THEN "clean" ELSE tree
          /\ \/ /\ worker' = worker \cup {a} /\ placed' = placed \cup {a}
                /\ job' = [job EXCEPT !.todo = @ \ {a}] /\ Fine /\ UNCHANGED landing
             \/ /\ worker' \in {worker, worker \cup {a}} /\ Goes("failed") /\ Fails
                /\ UNCHANGED <<placed, landing>>
             \/ /\ Slow /\ landing' = landing \cup {a} /\ Goes("failed") /\ Fails
                /\ UNCHANGED <<placed, worker>>
    /\ Works /\ UNCHANGED <<phase, handoffs, reap>> /\ Registered

Runs ==
    /\ At("spawn") /\ job.todo = {}
    /\ phase' = "running" /\ job' = NoJob
    /\ Fine /\ Works /\ UNCHANGED <<tree, worker, placed, landing, handoffs, reap>> /\ Registered

\* A placement that was given up lands; if its dispatch is over by then it is
\* released again, unless that fails.
Lands(a) ==
    /\ a \in landing /\ landing' = landing \ {a}
    /\ \/ phase \in {"dispatching", "running"} /\ worker' = worker \cup {a} /\ Fine
       \/ phase \notin {"dispatching", "running"} /\ worker' = worker \cup {a} /\ Fails
       \/ phase \notin {"dispatching", "running"} /\ UNCHANGED worker /\ Fine
    /\ Works /\ UNCHANGED <<phase, tree, placed, handoffs, registry, job, reap>>

-----------------------------------------------------------------------------
(* The teardown of a dispatch that failed or is abandoned *)

\* #dispatchFailureHandoffs: every planned agent of the checkout.
HandsOff == Agent

\* The handoffs are recorded, unless writing the registry fails.  The last
\* attempt makes the dispatch terminal.
Failed ==
    /\ At("failed")
    /\ \/ handoffs' = HandsOff /\ Fine
       \/ handoffs' = handoffs \ HandsOff /\ Fails
    /\ \E last \in {tries = MaxTries, TRUE} :
          /\ phase' = IF last THEN "abandoning" ELSE phase
          /\ job' = [at |-> "release", todo |-> HandsOff, failed |-> FALSE, ends |-> last]
    /\ Works /\ UNCHANGED <<tree, worker, placed, landing, reap>> /\ Registered

\* A dispatch that is stuck is abandoned; one that never placed an agent has
\* no agents to release.
Abandon ==
    /\ \/ At("idle") /\ phase \in {"running", "abandoning"}
       \/ At("spawn") /\ placed = {} /\ Slow
    /\ LET names == IF job.at = "spawn" THEN placed ELSE HandsOff
       IN job' = [at |-> "release", todo |-> names, failed |-> FALSE, ends |-> TRUE]
    /\ phase' = "abandoning"
    /\ \/ handoffs' = HandsOff /\ Fine
       \/ handoffs' = handoffs \ HandsOff /\ Fails
    /\ Works /\ UNCHANGED <<tree, worker, placed, landing, reap>> /\ Registered

\* #releaseAndTerminateAgents: an agent the fleet does not know is gone.
Release(a) ==
    /\ At("release") /\ a \in job.todo
    /\ \/ /\ worker' = worker \ {a} /\ placed' = placed \ {a}
          /\ job' = [job EXCEPT !.todo = @ \ {a}] /\ Fine
       \/ /\ worker' \in {worker, worker \ {a}} /\ UNCHANGED placed
          /\ job' = [job EXCEPT !.todo = @ \ {a}, !.failed = TRUE] /\ Fails
    /\ Works /\ UNCHANGED <<phase, tree, landing, handoffs, registry, reap>>

\* #teardownFailedDispatchWorktrees: the checkout goes when every release was
\* confirmed.
TearDown ==
    /\ At("release") /\ job.todo = {} /\ phase # "releasing"
    /\ \/ ~job.failed /\ tree' = "absent" /\ handoffs' = {} /\ Fine
       \/ ~job.failed /\ UNCHANGED <<tree, handoffs>> /\ Fails
       \/ job.failed /\ UNCHANGED <<tree, handoffs>> /\ Fine
    /\ Goes("settle")
    /\ Works /\ UNCHANGED <<phase, worker, placed, landing, registry, reap>>

\* The dispatch becomes retryable or ends.  An abandoned one whose teardown
\* failed is torn down again, until its budget is spent.
Settle ==
    /\ At("settle") /\ job' = NoJob
    /\ \/ ~job.ends /\ phase' = "retryable"
       \/ job.ends /\ phase' = "abandoned"
       \/ job.ends /\ job.failed /\ UNCHANGED phase
    /\ Fine /\ Works /\ UNCHANGED <<tree, worker, placed, landing, handoffs, reap>> /\ Registered

-----------------------------------------------------------------------------
(* The reaper of handoffs, run after the failure of any dispatch *)

ReapBegins ==
    /\ up /\ reap = NoReap /\ handoffs # {}
    /\ reap' = [todo |-> handoffs, ready |-> {}, all |-> handoffs]
    /\ Fine /\ Works /\ UNCHANGED <<phase, tree, worker, placed, landing, handoffs, registry, job>>

\* The processes of the handoff's name are killed and the agent is released.
\* A release that fails keeps the handoff; so does the answer that no such
\* agent is known.
Reap(a) ==
    /\ up /\ a \in reap.todo
    /\ \/ /\ worker' = worker \ {a} /\ Fine
          /\ reap' = [reap EXCEPT !.todo = @ \ {a}, !.ready = @ \cup {a}]
       \/ /\ worker' \in {worker, worker \ {a}} /\ reap' = [reap EXCEPT !.todo = @ \ {a}]
          /\ IF a \in worker THEN Fails ELSE Fine
    /\ Works /\ UNCHANGED <<phase, tree, placed, landing, handoffs, registry, job>>

\* Have all the handoffs of the checkout been dealt with?
Whole(r) == r.ready = r.all

ReapEnds ==
    /\ up /\ reap # NoReap /\ reap.todo = {} /\ reap' = NoReap
    /\ \/ Whole(reap) /\ tree' = "absent" /\ handoffs' = handoffs \ reap.all /\ Fine
       \/ Whole(reap) /\ UNCHANGED <<tree, handoffs>> /\ Fails
       \/ ~Whole(reap) /\ UNCHANGED <<tree, handoffs>> /\ Fine
    /\ Works /\ UNCHANGED <<phase, worker, placed, landing, job>> /\ Registered

-----------------------------------------------------------------------------
(* The release of a completed dispatch *)

Completes ==
    /\ At("idle") /\ phase \in {"running", "releasing"}
    /\ phase' = "releasing" /\ job' = [NoJob EXCEPT !.at = "release", !.todo = placed]
    /\ Fine /\ Works /\ UNCHANGED <<tree, worker, placed, landing, handoffs, registry, reap>>

\* When a release failed the whole is tried again.
Inspect ==
    /\ At("release") /\ job.todo = {} /\ phase = "releasing"
    /\ IF job.failed THEN job' = NoJob ELSE Goes("inspect")
    /\ Fine /\ Works /\ UNCHANGED <<phase, tree, worker, placed, landing, handoffs, registry, reap>>

\* Retention: without a merge that was seen, what exists only here is kept.
Disposable(observed) == tree = "clean" \/ (tree = "local" /\ observed)

\* #cleanupAgentWorktrees: merge and checkout are looked at; the removal is
\* a step of its own, and best effort.
Retains ==
    /\ At("inspect")
    /\ \E observed \in {FALSE, merged} :
          IF Disposable(observed) THEN Goes("remove") ELSE Goes("clean")
    /\ Fine /\ Works /\ UNCHANGED <<phase, tree, worker, placed, landing, handoffs, registry, reap>>

Remove ==
    /\ At("remove")
    /\ \/ tree' = "absent" /\ Fine
       \/ UNCHANGED tree /\ Fails
    /\ IF phase = "releasing" THEN Goes("clean") ELSE job' = NoJob
    /\ Works /\ UNCHANGED <<phase, worker, placed, landing, handoffs, registry, reap>>

Complete ==
    /\ At("clean") /\ phase' = "complete" /\ job' = NoJob
    /\ Fine /\ Works /\ UNCHANGED <<tree, worker, placed, landing, handoffs, reap>> /\ Registered

-----------------------------------------------------------------------------
(* Restarts: only the row, the registry, the checkout and the agents stay *)

Crash ==
    /\ up /\ crashes < MaxCrashes /\ crashes' = crashes + 1
    /\ up' = FALSE /\ job' = NoJob /\ reap' = NoReap /\ handoffs' = {} /\ landing' = {}
    /\ worker' \in {worker, worker \cup landing}
    /\ Fine /\ UNCHANGED <<phase, tree, merged, placed, registry, tries>>

\* The starting process sweeps the checkouts of issues that have no open row
\* and no agent online that the last registry names.
Starts ==
    /\ ~up /\ up' = TRUE
    /\ job' = [NoJob EXCEPT !.at = IF phase \in Terminal /\ tree # "absent" /\ registry \cap worker = {}
                                     THEN "scan" ELSE "idle"]
    /\ phase' = IF phase = "dispatching" THEN "retryable" ELSE phase
    /\ UNCHANGED <<tree, merged, worker, placed, landing, handoffs, reap, tries, crashes>>
    /\ Fine /\ Registered

Scan ==
    /\ At("scan") /\ IF Disposable(FALSE) THEN Goes("remove") ELSE job' = NoJob
    /\ Fine /\ Works /\ UNCHANGED <<phase, tree, worker, placed, landing, handoffs, registry, reap>>

-----------------------------------------------------------------------------
(* The agents and the pull request *)

AgentActs(a) ==
    /\ a \in worker
    /\ \/ tree = "clean" /\ tree' = "local" /\ UNCHANGED worker
       \/ tree = "local" /\ tree' = "clean" /\ UNCHANGED worker
       \/ worker' = worker \ {a} /\ UNCHANGED tree
    /\ Fine /\ Works /\ UNCHANGED <<phase, placed, landing, handoffs, registry, job, reap>>

Merges ==
    /\ phase = "running" /\ ~merged /\ merged' = TRUE
    /\ Fine /\ UNCHANGED <<phase, tree, worker, placed, landing, handoffs, registry, job, reap, up, tries, crashes>>

WorktreeNext ==
    \/ Dispatch \/ Runs \/ Failed \/ Abandon \/ TearDown \/ Settle
    \/ ReapBegins \/ ReapEnds \/ Completes \/ Inspect \/ Retains \/ Remove \/ Complete
    \/ Crash \/ Starts \/ Scan \/ Merges
    \/ \E a \in Agent : Spawn(a) \/ Lands(a) \/ Release(a) \/ Reap(a) \/ AgentActs(a)

-----------------------------------------------------------------------------
Removed == tree # "absent" /\ tree' = "absent"

\* A checkout is removed only when no agent works in it, whoever removes it:
\* teardown, handoff reaper, completion or the sweep of a starting process.
RemovesIdle == Removed => worker = {}

\* Work that exists only in the checkout goes with it only when its dispatch
\* failed or was abandoned, or its pull request was merged: never because a
\* dispatch completed or a process started.
LocalWorkKept ==
    Removed /\ tree = "local" =>
        \/ merged
        \/ reap # NoReap /\ reap' = NoReap
        \/ phase \in {"dispatching", "abandoning"}

===================================================================================
