--------------------------- MODULE VerificationRuns ---------------------------
(***************************************************************************)
(* The live verification gate: VerificationPipeline.verify of one process  *)
(* and what it leaves in the cluster, with the expiry reaper that runs in  *)
(* another process.  A run resolves the stack and checks the head of the   *)
(* checkout, waits for a slot, creates its namespace, deploys, runs the    *)
(* tests and the load, and tears the namespace down on every return.       *)
(*                                                                         *)
(* Every await is bounded, and a bound that passes abandons the operation  *)
(* without stopping it: withinTimeout goes on while the deployment it      *)
(* raced is still at work, and a killed `kubectl create` may still land.   *)
(*                                                                         *)
(* Namespaces are named for their run.  Faults counts the commands that    *)
(* fail and the crash of the gate process.                                 *)
(***************************************************************************)
EXTENDS Naturals, FiniteSets, Sequences, SequencesExt

CONSTANTS Run,        \* calls of verify
          Capacity,   \* maxConcurrentEnvironments, also maxActiveEnvironments
          Moves,      \* whether the checkout's head can move during a run
          MaxFaults   \* bound on commands that fail and on crashes

VARIABLES stage, ok, verdict, aborted, active, waiters, ns, expired, landing,
          deploy, handle, tunnels, head, tested, up, sweep, faults

gateVars == <<stage, ok, verdict, aborted, active, waiters>>
clusterVars == <<ns, expired, landing>>
deployVars == <<deploy, handle, tunnels>>
runVars == <<gateVars, clusterVars, deployVars, head, tested, up, sweep, faults>>

Holding == {"list", "create", "guard", "undo", "deploy", "e2e", "testing",
            "load", "measured", "dispose", "teardown", "waiting"}

TypeOK ==
    /\ stage \in [Run -> Holding \cup {"idle", "resolve", "admit", "queued", "done", "dead"}]
    /\ ok \in [Run -> BOOLEAN]
    /\ verdict \in [Run -> {"none", "pass", "fail"}]
    /\ aborted \in [Run -> BOOLEAN]
    /\ active \in 0..Capacity
    /\ waiters \in Seq(Run)
    /\ ns \in [Run -> {"absent", "live", "terminating"}]
    /\ expired \in [Run -> BOOLEAN]
    /\ landing \subseteq Run
    /\ deploy \in [Run -> {"none", "applying", "waiting", "seeding", "exposing", "ready", "failed"}]
    /\ handle \subseteq Run /\ tunnels \subseteq Run
    /\ head \in [Run -> {"reviewed", "other"}]
    /\ tested \in [Run -> {"none", "reviewed", "other"}]
    /\ up \in BOOLEAN /\ sweep \subseteq Run /\ faults \in 0..MaxFaults

RunInit ==
    /\ stage = [r \in Run |-> "idle"]
    /\ ok = [r \in Run |-> FALSE]
    /\ verdict = [r \in Run |-> "none"]
    /\ aborted = [r \in Run |-> FALSE]
    /\ active = 0 /\ waiters = <<>>
    /\ ns = [r \in Run |-> "absent"]
    /\ expired = [r \in Run |-> FALSE]
    /\ landing = {}
    /\ deploy = [r \in Run |-> "none"]
    /\ handle = {} /\ tunnels = {}
    /\ head = [r \in Run |-> "reviewed"]
    /\ tested = [r \in Run |-> "none"]
    /\ up = TRUE /\ sweep = {} /\ faults = 0

(***************************************************************************)
(* Moves of one run.                                                       *)
(***************************************************************************)
At(r, s) == up /\ stage[r] = s

Goto(r, s) == /\ stage' = [stage EXCEPT ![r] = s]
              /\ UNCHANGED <<verdict, active, waiters>>

Fault == faults < MaxFaults /\ faults' = faults + 1
NoFault == UNCHANGED faults

\* #finish, and the finally of verify that releases the slot: a slot that a
\* run held goes to the first waiter, if there is one.
Finish(r, passed) ==
    /\ verdict' = [verdict EXCEPT ![r] = IF passed THEN "pass" ELSE "fail"]
    /\ IF stage[r] \notin Holding
         THEN /\ stage' = [stage EXCEPT ![r] = "done"]
              /\ UNCHANGED <<active, waiters>>
         ELSE IF waiters = <<>>
           THEN /\ stage' = [stage EXCEPT ![r] = "done"]
                /\ active' = active - 1 /\ UNCHANGED waiters
           ELSE /\ stage' = [stage EXCEPT ![r] = "done", ![Head(waiters)] = "list"]
                /\ waiters' = Tail(waiters) /\ UNCHANGED active

\* The loop of the call starts and arms the overall timer.
Start(r) ==
    /\ At(r, "idle") /\ Goto(r, "resolve")
    /\ UNCHANGED <<ok, aborted, clusterVars, deployVars, head, tested, up, sweep, faults>>

\* The overall timer aborts the signal every stage was given; a run that waits
\* for a slot leaves the queue and fails at once.
Abort(r) ==
    /\ up /\ stage[r] \notin {"idle", "done", "dead"} /\ ~aborted[r]
    /\ aborted' = [aborted EXCEPT ![r] = TRUE]
    /\ IF stage[r] = "queued"
         THEN /\ stage' = [stage EXCEPT ![r] = "done"]
              /\ verdict' = [verdict EXCEPT ![r] = "fail"]
              /\ waiters' = Remove(waiters, r) /\ UNCHANGED active
         ELSE UNCHANGED <<stage, verdict, waiters, active>>
    /\ UNCHANGED <<ok, clusterVars, deployVars, head, tested, up, sweep, faults>>

\* The descriptor is read and the head of the checkout compared, once.
Resolve(r) ==
    /\ At(r, "resolve")
    /\ IF aborted[r] \/ head[r] # "reviewed" THEN Finish(r, FALSE) ELSE Goto(r, "admit")
    /\ UNCHANGED <<ok, aborted, clusterVars, deployVars, head, tested, up, sweep, faults>>

\* Semaphore.acquire.
Acquire(r) ==
    /\ At(r, "admit")
    /\ \/ aborted[r] /\ Finish(r, FALSE)
       \/ /\ ~aborted[r] /\ active < Capacity
          /\ active' = active + 1
          /\ stage' = [stage EXCEPT ![r] = "list"]
          /\ UNCHANGED <<verdict, waiters>>
       \/ /\ ~aborted[r] /\ active >= Capacity
          /\ waiters' = Append(waiters, r)
          /\ stage' = [stage EXCEPT ![r] = "queued"]
          /\ UNCHANGED <<verdict, active>>
    /\ UNCHANGED <<ok, aborted, clusterVars, deployVars, head, tested, up, sweep, faults>>

(***************************************************************************)
(* KubectlEnvironmentProvider.provision: the inventory, the create that    *)
(* must not meet an existing namespace, the guardrails, and the delete     *)
(* that answers a failure of the last two.                                 *)
(***************************************************************************)
ListNamespaces(r) ==
    /\ At(r, "list")
    /\ \/ /\ ~aborted[r] /\ NoFault
          /\ IF Cardinality({n \in Run : ns[n] = "live"}) >= Capacity
               THEN Finish(r, FALSE)
               ELSE Goto(r, "create")
       \/ aborted[r] /\ NoFault /\ Finish(r, FALSE)
       \/ Fault /\ Finish(r, FALSE)
    /\ UNCHANGED <<ok, aborted, clusterVars, deployVars, head, tested, up, sweep>>

\* A create that is killed by the signal, or whose answer is lost, may have
\* landed, or may land later.
CreateNamespace(r) ==
    /\ At(r, "create")
    /\ \/ /\ ~aborted[r] /\ NoFault
          /\ ns' = [ns EXCEPT ![r] = "live"]
          /\ Goto(r, "guard") /\ UNCHANGED landing
       \/ /\ aborted[r] /\ NoFault /\ Goto(r, "undo")
          /\ landing' \in {landing, landing \cup {r}} /\ UNCHANGED ns
       \/ /\ Fault /\ Goto(r, "undo")
          /\ ns' \in {ns, [ns EXCEPT ![r] = "live"]} /\ UNCHANGED landing
    /\ UNCHANGED <<ok, aborted, expired, deployVars, head, tested, up, sweep>>

ApplyGuardrails(r) ==
    /\ At(r, "guard")
    /\ \/ /\ ~aborted[r] /\ NoFault /\ Goto(r, "deploy")
          /\ deploy' = [deploy EXCEPT ![r] = "applying"]
       \/ ((aborted[r] /\ NoFault) \/ Fault) /\ Goto(r, "undo") /\ UNCHANGED deploy
    /\ UNCHANGED <<ok, aborted, clusterVars, handle, tunnels, head, tested, up, sweep>>

Deleted(n) == IF ns[n] = "live" THEN [ns EXCEPT ![n] = "terminating"] ELSE ns

\* The compensating delete, whose own failure is swallowed.  The run has no
\* environment to tear down.
UndoNamespace(r) ==
    /\ At(r, "undo")
    /\ \/ NoFault /\ ns' = Deleted(r)
       \/ Fault /\ UNCHANGED ns
    /\ Finish(r, FALSE)
    /\ UNCHANGED <<ok, aborted, expired, landing, deployVars, head, tested, up, sweep>>

(***************************************************************************)
(* The deployment runs by itself; the pipeline waits for it no longer than *)
(* the signal allows.                                                      *)
(***************************************************************************)
Deploying(r, phase) == up /\ deploy[r] = phase

Reaches(r, phase) == /\ deploy' = [deploy EXCEPT ![r] = phase]
                     /\ UNCHANGED <<gateVars, clusterVars, handle, head, tested, up, sweep, faults>>

\* References and source are applied by commands that carry the signal.
ApplySource(r) ==
    /\ Deploying(r, "applying") /\ ns[r] = "live" /\ ~aborted[r]
    /\ Reaches(r, "waiting") /\ UNCHANGED tunnels

\* A probe opens the tunnel of its service; the connection it then makes
\* through the tunnel does not look at the signal.
OpenTunnel(r) ==
    /\ Deploying(r, "waiting") /\ r \notin tunnels /\ ns[r] = "live" /\ ~aborted[r]
    /\ tunnels' = tunnels \cup {r} /\ Reaches(r, "waiting")

WaitForService(r) ==
    /\ Deploying(r, "waiting") /\ r \in tunnels
    /\ Reaches(r, "seeding") /\ UNCHANGED tunnels

\* A stack may have no seeds.
RunSeeds(r) ==
    /\ Deploying(r, "seeding")
    /\ Reaches(r, "exposing") /\ UNCHANGED tunnels

\* An endpoint whose tunnel is open already takes it as it is.
ExposeEndpoints(r) ==
    /\ Deploying(r, "exposing") /\ r \in tunnels
    /\ Reaches(r, "ready") /\ UNCHANGED tunnels

\* A deployment that fails closes the tunnels it opened.
DeployFails(r) ==
    /\ up /\ deploy[r] \in {"applying", "waiting", "seeding", "exposing"}
    /\ ((aborted[r] \/ ns[r] # "live") /\ NoFault) \/ Fault
    /\ deploy' = [deploy EXCEPT ![r] = "failed"] /\ tunnels' = tunnels \ {r}
    /\ UNCHANGED <<gateVars, clusterVars, handle, head, tested, up, sweep>>

DeployStage(r) ==
    /\ At(r, "deploy")
    /\ \/ deploy[r] = "ready" /\ handle' = handle \cup {r} /\ Goto(r, "e2e")
       \/ (deploy[r] = "failed" \/ aborted[r]) /\ UNCHANGED handle /\ Goto(r, "dispose")
    /\ UNCHANGED <<ok, aborted, clusterVars, deploy, tunnels, head, tested, up, sweep, faults>>

\* runE2eCommand archives the head the checkout has now, copies it into a pod
\* and runs the command there; a pass needs the namespace to be there still.
E2eArchive(r) ==
    /\ At(r, "e2e")
    /\ IF aborted[r]
         THEN Goto(r, "dispose") /\ UNCHANGED tested
         ELSE Goto(r, "testing") /\ tested' = [tested EXCEPT ![r] = head[r]]
    /\ UNCHANGED <<ok, aborted, clusterVars, deployVars, head, up, sweep, faults>>

E2eStage(r) ==
    /\ At(r, "testing")
    /\ \/ ns[r] = "live" /\ ~aborted[r] /\ Goto(r, "load")
       \/ Goto(r, "dispose")
    /\ UNCHANGED <<ok, aborted, clusterVars, deployVars, head, tested, up, sweep, faults>>

\* runLoad applies its job and waits for it to complete.
LoadJob(r) ==
    /\ At(r, "load")
    /\ \/ ns[r] = "live" /\ ~aborted[r] /\ Goto(r, "measured")
       \/ Goto(r, "dispose")
    /\ UNCHANGED <<ok, aborted, clusterVars, deployVars, head, tested, up, sweep, faults>>

\* The evidence in its logs, if it is there and well formed, meets the
\* thresholds or does not.
LoadSlo(r) ==
    /\ At(r, "measured")
    /\ ok' \in {ok, [ok EXCEPT ![r] = TRUE]}
    /\ Goto(r, "dispose")
    /\ UNCHANGED <<aborted, clusterVars, deployVars, head, tested, up, sweep, faults>>

(***************************************************************************)
(* #finishWithTeardown: the tunnels of the deployment, if the run has it,  *)
(* then the namespace; an error of either makes the verdict a failure.     *)
(***************************************************************************)
Dispose(r) ==
    /\ At(r, "dispose") /\ Goto(r, "teardown")
    /\ \/ /\ NoFault /\ UNCHANGED ok
          /\ tunnels' = IF r \in handle THEN tunnels \ {r} ELSE tunnels
       \/ /\ r \in handle /\ Fault
          /\ ok' = [ok EXCEPT ![r] = FALSE] /\ UNCHANGED tunnels
    /\ UNCHANGED <<aborted, clusterVars, deploy, handle, head, tested, up, sweep>>

TeardownFails(r) == Finish(r, FALSE)

Teardown(r) ==
    /\ At(r, "teardown")
    /\ \/ NoFault /\ ns' = Deleted(r) /\ Goto(r, "waiting")
       \/ Fault /\ UNCHANGED ns /\ TeardownFails(r)
    /\ UNCHANGED <<ok, aborted, expired, landing, deployVars, head, tested, up, sweep>>

\* `kubectl delete --wait` returns when the namespace is gone, or the teardown
\* bound passes first.
TeardownWait(r) ==
    /\ At(r, "waiting")
    /\ IF ns[r] = "absent" THEN Finish(r, ok[r]) ELSE TeardownFails(r)
    /\ UNCHANGED <<ok, aborted, clusterVars, deployVars, head, tested, up, sweep, faults>>

(***************************************************************************)
(* The cluster, the checkout, the process and the reaper.                  *)
(***************************************************************************)
Lands(r) ==
    /\ r \in landing /\ landing' = landing \ {r}
    /\ ns' = [ns EXCEPT ![r] = "live"]
    /\ UNCHANGED <<gateVars, expired, deployVars, head, tested, up, sweep, faults>>

NamespaceGone(r) ==
    /\ ns[r] = "terminating" /\ ns' = [ns EXCEPT ![r] = "absent"]
    /\ UNCHANGED <<gateVars, expired, landing, deployVars, head, tested, up, sweep, faults>>

LeaseExpires(r) ==
    /\ ns[r] = "live" /\ ~expired[r] /\ expired' = [expired EXCEPT ![r] = TRUE]
    /\ UNCHANGED <<gateVars, ns, landing, deployVars, head, tested, up, sweep, faults>>

Commit(r) ==
    /\ Moves /\ head[r] = "reviewed" /\ head' = [head EXCEPT ![r] = "other"]
    /\ UNCHANGED <<gateVars, clusterVars, deployVars, tested, up, sweep, faults>>

Crash ==
    /\ up /\ Fault /\ up' = FALSE
    /\ stage' = [r \in Run |-> IF stage[r] = "done" THEN "done" ELSE "dead"]
    /\ landing' = landing \cup {r \in Run : stage[r] = "create"}
    /\ UNCHANGED <<ok, verdict, aborted, active, waiters, ns, expired, deployVars, head, tested, sweep>>

\* reapFactoryEnvironmentsOnce: the inventory, then one delete per namespace
\* whose lease had passed; a delete that fails is left to the next tick.
Expired == {n \in Run : ns[n] # "absent" /\ expired[n]}

ReaperLists ==
    /\ sweep = {} /\ Expired # {} /\ sweep' = Expired
    /\ UNCHANGED <<gateVars, clusterVars, deployVars, head, tested, up, faults>>

ReaperDeletes(n) ==
    /\ n \in sweep /\ sweep' = sweep \ {n}
    /\ \/ NoFault /\ ns' = Deleted(n)
       \/ Fault /\ UNCHANGED ns
    /\ UNCHANGED <<gateVars, expired, landing, deployVars, head, tested, up>>

(***************************************************************************)
(* Specification.                                                          *)
(***************************************************************************)
RunStep(r) ==
    \/ Resolve(r) \/ Acquire(r) \/ ListNamespaces(r) \/ CreateNamespace(r)
    \/ ApplyGuardrails(r) \/ UndoNamespace(r) \/ DeployStage(r) \/ E2eArchive(r)
    \/ E2eStage(r) \/ LoadJob(r) \/ LoadSlo(r) \/ Dispose(r) \/ Teardown(r) \/ TeardownWait(r)

DeployStep(r) ==
    \/ ApplySource(r) \/ OpenTunnel(r) \/ WaitForService(r) \/ RunSeeds(r)
    \/ ExposeEndpoints(r) \/ DeployFails(r)

RunNext ==
    \/ \E r \in Run : \/ Start(r) \/ Abort(r) \/ RunStep(r) \/ DeployStep(r)
                      \/ Lands(r) \/ NamespaceGone(r) \/ LeaseExpires(r) \/ Commit(r)
                      \/ ReaperDeletes(r)
    \/ ReaperLists \/ Crash

Spec == RunInit /\ [][RunNext]_runVars

\* Every await of the pipeline is bounded, the cluster finishes what it was
\* asked to delete, time passes, and the reaper is scheduled again after every
\* tick, whatever became of it.
(***************************************************************************)
(* Properties.                                                             *)
(***************************************************************************)
\* A verdict that passes leaves nothing behind: the namespace of the run is
\* gone, no create of it is still on its way and its tunnels are closed, so
\* the merge it allows does not run beside what it measured
\* (#finishWithTeardown folds every cleanup error into the verdict).
PassLeavesNothing ==
    \A r \in Run : verdict[r] = "pass" => ns[r] = "absent" /\ r \notin landing \cup tunnels

\* Whatever becomes of a run -- a failed create, a lost compensation, a
\* teardown that timed out, a killed process -- the namespace it made goes
\* away: by the teardown or when its lease has passed.
EnvironmentsGone == \A r \in Run : ns[r] = "absent"

===============================================================================
