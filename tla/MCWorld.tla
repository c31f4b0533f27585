------------------------------ MODULE MCWorld -------------------------------
(***************************************************************************)
(* The world around the factory on small instances for TLC: what it reads  *)
(* and writes at providers (pull requests and their issues, Notion pages,  *)
(* the outbox of events, labels and their lagging copies, the mirror, the  *)
(* publication of a team), and what it runs on machines (hosted            *)
(* invocations, placements, the circuit of the control plane, the broker's *)
(* agents, verification environments, previews, checkouts, the reaper).    *)
(* The components share no state, and each has parts of its own: "part" is *)
(* the one that a behaviour is about, the others stay in an initial state. *)
(* The components something is proved of are extended, the others are      *)
(* instances, one for each way that they are bounded.                      *)
(***************************************************************************)
EXTENDS NotionIntake, MergeClosure, TeamPublication, HostedLoop, KubernetesEnvironments,
        CloudEvents

CONSTANTS Parts,  \* the parts to check
          p1, p2, m1, m2, w1, w2, a1, a2, r1, r2, o1, o2, c1, c2, h1, h2, e1, e2, e3, i1, i2,
          q1, q2, l1, l2, n1, n2, x, y, person, Retry, Asked, Unnamed, Free, Other,
          NoAgent, Human

VARIABLE part

VARIABLES labels, log, receiptCall, receiptEdits
VARIABLES versions, shown, anchor, claim, request, claims, projectionEdits, trusted
VARIABLES mountAsked, root, file, alive, mountHeld, denied, watched, due, mountTimer, degraded,
          auth, heard, mountOp, disposed, mountFaults
VARIABLES spawns, sandbox, placement, placementLate, placementWorker, placementTracked,
          placementReleases, strays, placementTroubles
VARIABLES failures, cooling, opened, cached, refresh, current, probes, evidence, mutations,
          circuitUp, outages
VARIABLES brokerCall, brokerAsked, named, brokerWorker, since, brokerActive, brokerTracked,
          latch, brokerSeen, missed, letGo, brokerReleases, listing, owns, linked, disposal
VARIABLES stage, ok, verdict, aborted, runActive, waiters, runNs, runExpired, runLanding,
          deploy, handle, tunnels, head, tested, runUp, runSweep, runFaults
VARIABLES born, pending, previewActive, young, route, public, running, squat, previewOp,
          previewSweep, dispatched, previewHeld, previewLate, previewFaults, humans
VARIABLES worktreePhase, tree, merged, worktreeWorker, placed, worktreeLanding, handoffs,
          worktreeRegistry, worktreeJob, worktreeReap, worktreeUp, tries, worktreeFaults,
          worktreeCrashes
VARIABLES factory, beat, reaperRegistry, reaperTracked, os, reaperReap, others, returns,
          reaperFaults

Base ==
    [github |-> TRUE, review |-> FALSE, gated |-> TRUE, babysat |-> FALSE, labelled |-> FALSE]
GateSetups ==
    {Base, [Base EXCEPT !.github = FALSE], [Base EXCEPT !.babysat = TRUE],
     [Base EXCEPT !.review = TRUE]}

CrowdedBox == INSTANCE CloudEvents WITH MaxEvents <- 1, MaxEventFaults <- 1
FilledBox ==
    INSTANCE CloudEvents WITH
      Proc <- {p1}, Event <- {e1, e2, e3}, MaxEvents <- 2, MaxEventFaults <- 2
Writers ==
    INSTANCE StatusReceipts WITH
      Writer <- {w1, w2}, Person <- person, SameLogin <- FALSE, MaxEdits <- 0,
      call <- receiptCall, edits <- receiptEdits
Hands ==
    INSTANCE StatusReceipts WITH
      Writer <- {w1}, Person <- person, SameLogin <- FALSE, MaxEdits <- 2, call <- receiptCall,
      edits <- receiptEdits
Projections ==
    INSTANCE ClaimProjections WITH
      MaxClaims <- 1, MaxEdits <- 3, edits <- projectionEdits
Mounts ==
    INSTANCE LocalMounts WITH
      Elsewhere <- FALSE, Revokes <- TRUE, MaxFaults <- 3, asked <- mountAsked,
      held <- mountHeld, timer <- mountTimer, op <- mountOp, faults <- mountFaults
MovedMounts ==
    INSTANCE LocalMounts WITH
      Elsewhere <- TRUE, Revokes <- FALSE, MaxFaults <- 3, asked <- mountAsked,
      held <- mountHeld, timer <- mountTimer, op <- mountOp, faults <- mountFaults
Solo ==
    INSTANCE TeamPublication WITH
      Impl <- {i1}, Reporting <- {i1}, SelfOpening <- {i1}, Remote <- {},
      MaxPublishAttempts <- 1, MaxSaveFaults <- 1, MaxCrashes <- 0
Alone ==
    INSTANCE TeamPublication WITH
      Impl <- {i1}, Reporting <- {i1}, SelfOpening <- {i1}, Remote <- {},
      MaxPublishAttempts <- 1, MaxSaveFaults <- 0, MaxCrashes <- 1
Retried ==
    INSTANCE TeamPublication WITH
      Reporting <- {i1}, SelfOpening <- {}, Remote <- {i1, i2}, MaxPublishAttempts <- 1,
      MaxSaveFaults <- 0, MaxCrashes <- 0
Refused ==
    INSTANCE TeamPublication WITH
      Reporting <- {}, SelfOpening <- {i1}, MaxPublishAttempts <- 1, MaxSaveFaults <- 1,
      MaxCrashes <- 0
Resumed ==
    INSTANCE TeamPublication WITH
      Reporting <- {}, SelfOpening <- {i1}, Remote <- {i1, i2}, MaxPublishAttempts <- 0,
      MaxSaveFaults <- 0, MaxCrashes <- 1
Locals ==
    INSTANCE TeamPublication WITH
      Reporting <- {}, SelfOpening <- {i1}, Remote <- {}, MaxPublishAttempts <- 1,
      MaxSaveFaults <- 0, MaxCrashes <- 0
Hosted == INSTANCE HostedLoop WITH Inv <- {i1}
Placements ==
    INSTANCE FleetPlacements WITH
      Call <- {c1, c2}, Overlaps <- FALSE, Troubles <- 4, late <- placementLate,
      worker <- placementWorker, tracked <- placementTracked, releases <- placementReleases,
      troubles <- placementTroubles
Circuit ==
    INSTANCE ControlPlaneCircuit WITH
      Probe <- {q1, q2}, Mutation <- {m1, m2}, Threshold <- 2, Outages <- 1, Openings <- 2,
      up <- circuitUp
Broker ==
    INSTANCE BrokerAgents WITH
      Life <- {l1, l2}, Name <- {n1, n2}, Races <- FALSE, call <- brokerCall,
      asked <- brokerAsked, worker <- brokerWorker, active <- brokerActive,
      tracked <- brokerTracked, seen <- brokerSeen, releases <- brokerReleases
Queue ==
    INSTANCE VerificationRuns WITH
      Run <- {r1, r2}, Capacity <- 1, Moves <- FALSE, MaxFaults <- 0, active <- runActive,
      ns <- runNs, expired <- runExpired, landing <- runLanding, up <- runUp, sweep <- runSweep,
      faults <- runFaults
Faulty ==
    INSTANCE VerificationRuns WITH
      Run <- {r1}, Capacity <- 1, Moves <- TRUE, MaxFaults <- 2, active <- runActive,
      ns <- runNs, expired <- runExpired, landing <- runLanding, up <- runUp, sweep <- runSweep,
      faults <- runFaults
Reclaims == INSTANCE KubernetesEnvironments WITH Env <- {e1}, Res <- {x}, MaxCommandFaults <- 2
Calm == INSTANCE KubernetesEnvironments WITH MaxCommandFaults <- 0
Sweeps ==
    INSTANCE PreviewRoutes WITH
      Owner <- {o1}, Port <- {1, 2}, MaxIds <- 2, Races <- FALSE, Late <- FALSE, MaxFaults <- 2,
      MaxHuman <- 1, active <- previewActive, op <- previewOp, sweep <- previewSweep,
      held <- previewHeld, late <- previewLate, faults <- previewFaults
Previews ==
    INSTANCE PreviewRoutes WITH
      Owner <- {o1, o2}, Port <- {1, 2}, MaxIds <- 2, Races <- FALSE, Late <- FALSE,
      MaxFaults <- 1, MaxHuman <- 1, active <- previewActive, op <- previewOp,
      sweep <- previewSweep, held <- previewHeld, late <- previewLate, faults <- previewFaults
LatePreviews ==
    INSTANCE PreviewRoutes WITH
      Owner <- {o1}, Port <- {1, 2}, MaxIds <- 1, Races <- FALSE, Late <- TRUE, MaxFaults <- 1,
      MaxHuman <- 0, active <- previewActive, op <- previewOp, sweep <- previewSweep,
      held <- previewHeld, late <- previewLate, faults <- previewFaults
Worktrees ==
    INSTANCE AgentWorktrees WITH
      Agent <- {a1, a2}, Overlaps <- FALSE, Slow <- FALSE, MaxTries <- 2, MaxFaults <- 1,
      MaxCrashes <- 1, phase <- worktreePhase, worker <- worktreeWorker,
      landing <- worktreeLanding, registry <- worktreeRegistry, job <- worktreeJob,
      reap <- worktreeReap, up <- worktreeUp, faults <- worktreeFaults,
      crashes <- worktreeCrashes
SlowWorktrees ==
    INSTANCE AgentWorktrees WITH
      Agent <- {a1, a2}, Overlaps <- FALSE, Slow <- TRUE, MaxTries <- 2, MaxFaults <- 1,
      MaxCrashes <- 0, phase <- worktreePhase, worker <- worktreeWorker,
      landing <- worktreeLanding, registry <- worktreeRegistry, job <- worktreeJob,
      reap <- worktreeReap, up <- worktreeUp, faults <- worktreeFaults,
      crashes <- worktreeCrashes
Reaper ==
    INSTANCE CrashReaper WITH
      Agent <- {a1}, Pid <- {1, 2}, Races <- FALSE, MaxOthers <- 1, MaxReturns <- 1,
      MaxFaults <- 1, registry <- reaperRegistry, tracked <- reaperTracked, reap <- reaperReap,
      faults <- reaperFaults

receiptVars == <<labels, log, receiptCall, receiptEdits>>
projectionVars == <<versions, shown, anchor, claim, request, claims, projectionEdits, trusted>>
mountVars == <<mountAsked, root, file, alive, mountHeld, denied, watched, due, mountTimer, degraded, auth,
    heard, mountOp, disposed, mountFaults>>
placementVars == <<spawns, sandbox, placement, placementLate, placementWorker, placementTracked,
    placementReleases, strays, placementTroubles>>
circuitVars == <<failures, cooling, opened, cached, refresh, current, probes, evidence, mutations, circuitUp,
    outages>>
brokerVars == <<brokerCall, brokerAsked, named, brokerWorker, since, brokerActive, brokerTracked, latch,
    brokerSeen, missed, letGo, brokerReleases, listing, owns, linked, disposal>>
runVars == <<stage, ok, verdict, aborted, runActive, waiters, runNs, runExpired, runLanding, deploy,
    handle, tunnels, head, tested, runUp, runSweep, runFaults>>
previewVars == <<born, pending, previewActive, young, route, public, running, squat, previewOp, previewSweep,
    dispatched, previewHeld, previewLate, previewFaults, humans>>
worktreeVars == <<worktreePhase, tree, merged, worktreeWorker, placed, worktreeLanding, handoffs,
    worktreeRegistry, worktreeJob, worktreeReap, worktreeUp, tries, worktreeFaults,
    worktreeCrashes>>
reaperVars == <<factory, beat, reaperRegistry, reaperTracked, os, reaperReap, others, returns, reaperFaults>>

vars ==
    <<part, closureVars, intakeVars, eventVars, receiptVars, projectionVars, mountVars,
      publicationVars, hostedVars, placementVars, circuitVars, brokerVars, runVars,
      environmentVars, previewVars, worktreeVars, reaperVars>>

Init ==
    /\ part \in Parts
    /\ ClosureInit
    /\ part = "merges" \/ (setup = Base /\ pull[p1].says = "closes")
    /\ IntakeInit
    /\ part = "notion" \/ ~channel["repo"].made
    /\ IF part = "filled" THEN FilledBox!EventInit ELSE EventInit
    /\ IF part = "writers" THEN Writers!ReceiptInit ELSE Hands!ReceiptInit
    /\ part \in {"writers", "hands"} \/ labels = {}
    /\ Projections!ProjectionInit
    /\ IF part = "mounts" THEN Mounts!MountInit ELSE MovedMounts!MountInit
    /\ IF part \in {"solo", "alone"} THEN Solo!PublicationInit ELSE PublicationInit
    /\ IF part = "hosted" THEN Hosted!HostedInit ELSE HostedInit
    /\ Placements!Init
    /\ Circuit!Init
    /\ Broker!Init
    /\ part = "broker" \/ owns
    /\ IF part = "queue" THEN Queue!RunInit ELSE Faulty!RunInit
    /\ IF part = "reclaims" THEN Reclaims!EnvironmentInit ELSE EnvironmentInit
    /\ part \in {"calm", "reclaims"} \/ (part = "environments" <=> \E z \in Res : owner[z] = Customer)
    /\ IF part = "sweeps" THEN Sweeps!PreviewInit ELSE IF part = "previews" THEN
       Previews!PreviewInit ELSE LatePreviews!PreviewInit
    /\ IF part = "worktrees" THEN Worktrees!WorktreeInit ELSE SlowWorktrees!WorktreeInit
    /\ Reaper!ReaperInit

Next ==
    \/ /\ part = "merges" /\ ClosureNext
       /\ UNCHANGED <<part, intakeVars, eventVars, receiptVars, projectionVars, mountVars,
                     publicationVars, hostedVars, placementVars, circuitVars, brokerVars,
                     runVars, environmentVars, previewVars, worktreeVars, reaperVars>>
    \/ /\ part = "notion" /\ IntakeNext
       /\ UNCHANGED <<part, closureVars, eventVars, receiptVars, projectionVars, mountVars,
                     publicationVars, hostedVars, placementVars, circuitVars, brokerVars,
                     runVars, environmentVars, previewVars, worktreeVars, reaperVars>>
    \/ /\ part = "shared" /\ EventNext
       /\ UNCHANGED <<part, closureVars, intakeVars, receiptVars, projectionVars, mountVars,
                     publicationVars, hostedVars, placementVars, circuitVars, brokerVars,
                     runVars, environmentVars, previewVars, worktreeVars, reaperVars>>
    \/ /\ part = "crowded" /\ CrowdedBox!EventNext
       /\ UNCHANGED <<part, closureVars, intakeVars, receiptVars, projectionVars, mountVars,
                     publicationVars, hostedVars, placementVars, circuitVars, brokerVars,
                     runVars, environmentVars, previewVars, worktreeVars, reaperVars>>
    \/ /\ part = "filled" /\ FilledBox!EventNext
       /\ UNCHANGED <<part, closureVars, intakeVars, receiptVars, projectionVars, mountVars,
                     publicationVars, hostedVars, placementVars, circuitVars, brokerVars,
                     runVars, environmentVars, previewVars, worktreeVars, reaperVars>>
    \/ /\ part = "writers" /\ Writers!ReceiptNext
       /\ UNCHANGED <<part, closureVars, intakeVars, eventVars, projectionVars, mountVars,
                     publicationVars, hostedVars, placementVars, circuitVars, brokerVars,
                     runVars, environmentVars, previewVars, worktreeVars, reaperVars>>
    \/ /\ part = "hands" /\ Hands!ReceiptNext
       /\ UNCHANGED <<part, closureVars, intakeVars, eventVars, projectionVars, mountVars,
                     publicationVars, hostedVars, placementVars, circuitVars, brokerVars,
                     runVars, environmentVars, previewVars, worktreeVars, reaperVars>>
    \/ /\ part = "projections" /\ Projections!ProjectionNext
       /\ UNCHANGED <<part, closureVars, intakeVars, eventVars, receiptVars, mountVars,
                     publicationVars, hostedVars, placementVars, circuitVars, brokerVars,
                     runVars, environmentVars, previewVars, worktreeVars, reaperVars>>
    \/ /\ part = "mounts" /\ Mounts!MountNext
       /\ UNCHANGED <<part, closureVars, intakeVars, eventVars, receiptVars, projectionVars,
                     publicationVars, hostedVars, placementVars, circuitVars, brokerVars,
                     runVars, environmentVars, previewVars, worktreeVars, reaperVars>>
    \/ /\ part = "moved" /\ MovedMounts!MountNext
       /\ UNCHANGED <<part, closureVars, intakeVars, eventVars, receiptVars, projectionVars,
                     publicationVars, hostedVars, placementVars, circuitVars, brokerVars,
                     runVars, environmentVars, previewVars, worktreeVars, reaperVars>>
    \/ /\ part = "solo" /\ Solo!PublicationNext
       /\ UNCHANGED <<part, closureVars, intakeVars, eventVars, receiptVars, projectionVars,
                      mountVars,
                     hostedVars, placementVars, circuitVars, brokerVars, runVars,
                     environmentVars, previewVars, worktreeVars, reaperVars>>
    \/ /\ part = "alone" /\ Alone!PublicationNext
       /\ UNCHANGED <<part, closureVars, intakeVars, eventVars, receiptVars, projectionVars,
                      mountVars,
                     hostedVars, placementVars, circuitVars, brokerVars, runVars,
                     environmentVars, previewVars, worktreeVars, reaperVars>>
    \/ /\ part = "team" /\ PublicationNext
       /\ UNCHANGED <<part, closureVars, intakeVars, eventVars, receiptVars, projectionVars,
                      mountVars,
                     hostedVars, placementVars, circuitVars, brokerVars, runVars,
                     environmentVars, previewVars, worktreeVars, reaperVars>>
    \/ /\ part = "retried" /\ Retried!PublicationNext
       /\ UNCHANGED <<part, closureVars, intakeVars, eventVars, receiptVars, projectionVars,
                      mountVars,
                     hostedVars, placementVars, circuitVars, brokerVars, runVars,
                     environmentVars, previewVars, worktreeVars, reaperVars>>
    \/ /\ part = "local" /\ Locals!PublicationNext
       /\ UNCHANGED <<part, closureVars, intakeVars, eventVars, receiptVars, projectionVars,
                      mountVars,
                     hostedVars, placementVars, circuitVars, brokerVars, runVars,
                     environmentVars, previewVars, worktreeVars, reaperVars>>
    \/ /\ part = "resumed" /\ Resumed!PublicationNext
       /\ UNCHANGED <<part, closureVars, intakeVars, eventVars, receiptVars, projectionVars,
                      mountVars,
                     hostedVars, placementVars, circuitVars, brokerVars, runVars,
                     environmentVars, previewVars, worktreeVars, reaperVars>>
    \/ /\ part = "refused" /\ Refused!PublicationNext
       /\ UNCHANGED <<part, closureVars, intakeVars, eventVars, receiptVars, projectionVars,
                      mountVars,
                     hostedVars, placementVars, circuitVars, brokerVars, runVars,
                     environmentVars, previewVars, worktreeVars, reaperVars>>
    \/ /\ part = "hosted" /\ Hosted!HostedNext
       /\ UNCHANGED <<part, closureVars, intakeVars, eventVars, receiptVars, projectionVars,
                      mountVars,
                     publicationVars, placementVars, circuitVars, brokerVars, runVars,
                     environmentVars, previewVars, worktreeVars, reaperVars>>
    \/ /\ part = "invocations" /\ HostedNext
       /\ UNCHANGED <<part, closureVars, intakeVars, eventVars, receiptVars, projectionVars,
                      mountVars,
                     publicationVars, placementVars, circuitVars, brokerVars, runVars,
                     environmentVars, previewVars, worktreeVars, reaperVars>>
    \/ /\ part = "placements" /\ Placements!PlacementNext
       /\ UNCHANGED <<part, closureVars, intakeVars, eventVars, receiptVars, projectionVars,
                      mountVars,
                     publicationVars, hostedVars, circuitVars, brokerVars, runVars,
                     environmentVars, previewVars, worktreeVars, reaperVars>>
    \/ /\ part = "circuit" /\ Circuit!CircuitNext
       /\ UNCHANGED <<part, closureVars, intakeVars, eventVars, receiptVars, projectionVars,
                      mountVars,
                     publicationVars, hostedVars, placementVars, brokerVars, runVars,
                     environmentVars, previewVars, worktreeVars, reaperVars>>
    \/ /\ part = "broker" /\ Broker!BrokerNext
       /\ UNCHANGED <<part, closureVars, intakeVars, eventVars, receiptVars, projectionVars,
                      mountVars,
                     publicationVars, hostedVars, placementVars, circuitVars, runVars,
                     environmentVars, previewVars, worktreeVars, reaperVars>>
    \/ /\ part = "queue" /\ Queue!RunNext
       /\ UNCHANGED <<part, closureVars, intakeVars, eventVars, receiptVars, projectionVars,
                      mountVars,
                     publicationVars, hostedVars, placementVars, circuitVars, brokerVars,
                     environmentVars, previewVars, worktreeVars, reaperVars>>
    \/ /\ part = "faults" /\ Faulty!RunNext
       /\ UNCHANGED <<part, closureVars, intakeVars, eventVars, receiptVars, projectionVars,
                      mountVars,
                     publicationVars, hostedVars, placementVars, circuitVars, brokerVars,
                     environmentVars, previewVars, worktreeVars, reaperVars>>
    \/ /\ part = "environments" /\ EnvironmentNext
       /\ UNCHANGED <<part, closureVars, intakeVars, eventVars, receiptVars, projectionVars,
                      mountVars,
                     publicationVars, hostedVars, placementVars, circuitVars, brokerVars,
                     runVars, previewVars, worktreeVars, reaperVars>>
    \/ /\ part = "reclaims" /\ Reclaims!EnvironmentNext
       /\ UNCHANGED <<part, closureVars, intakeVars, eventVars, receiptVars, projectionVars,
                      mountVars,
                     publicationVars, hostedVars, placementVars, circuitVars, brokerVars,
                     runVars, previewVars, worktreeVars, reaperVars>>
    \/ /\ part = "calm" /\ Calm!EnvironmentNext
       /\ UNCHANGED <<part, closureVars, intakeVars, eventVars, receiptVars, projectionVars,
                      mountVars,
                     publicationVars, hostedVars, placementVars, circuitVars, brokerVars,
                     runVars, previewVars, worktreeVars, reaperVars>>
    \/ /\ part = "sweeps" /\ Sweeps!PreviewNext
       /\ UNCHANGED <<part, closureVars, intakeVars, eventVars, receiptVars, projectionVars,
                      mountVars,
                     publicationVars, hostedVars, placementVars, circuitVars, brokerVars,
                     runVars, environmentVars, worktreeVars, reaperVars>>
    \/ /\ part = "previews" /\ Previews!PreviewNext
       /\ UNCHANGED <<part, closureVars, intakeVars, eventVars, receiptVars, projectionVars,
                      mountVars,
                     publicationVars, hostedVars, placementVars, circuitVars, brokerVars,
                     runVars, environmentVars, worktreeVars, reaperVars>>
    \/ /\ part = "late" /\ LatePreviews!PreviewNext
       /\ UNCHANGED <<part, closureVars, intakeVars, eventVars, receiptVars, projectionVars,
                      mountVars,
                     publicationVars, hostedVars, placementVars, circuitVars, brokerVars,
                     runVars, environmentVars, worktreeVars, reaperVars>>
    \/ /\ part = "worktrees" /\ Worktrees!WorktreeNext
       /\ UNCHANGED <<part, closureVars, intakeVars, eventVars, receiptVars, projectionVars,
                      mountVars,
                     publicationVars, hostedVars, placementVars, circuitVars, brokerVars,
                     runVars, environmentVars, previewVars, reaperVars>>
    \/ /\ part = "slow" /\ SlowWorktrees!WorktreeNext
       /\ UNCHANGED <<part, closureVars, intakeVars, eventVars, receiptVars, projectionVars,
                      mountVars,
                     publicationVars, hostedVars, placementVars, circuitVars, brokerVars,
                     runVars, environmentVars, previewVars, reaperVars>>
    \/ /\ part = "reaper" /\ Reaper!ReaperNext
       /\ UNCHANGED <<part, closureVars, intakeVars, eventVars, receiptVars, projectionVars,
                      mountVars,
                     publicationVars, hostedVars, placementVars, circuitVars, brokerVars,
                     runVars, environmentVars, previewVars, worktreeVars>>

Spec == Init /\ [][Next]_vars

(* What the code and its scheduling justify, for each part: The timer of   *)
(* every process flushes, and a flush gets on. Timers fire, the supervisor *)
(* goes round, and calls return. Awaits return, timers fire, a session     *)
(* does not last for ever, and what GitHub has reaches the mount. Sweeps   *)
(* are started again and again, an operation that runs gets on, leases run *)
(* out and agents end; nobody has to clarify or to report. Calls are       *)
(* answered, and the loop of releases goes round. Sweeps go on reading the *)
(* roster, reads end by their timeout, and the control plane comes up      *)
(* again. Commands return or time out, leases pass, and the reaper goes    *)
(* round. Commands return, time passes, the cluster deletes what it was    *)
(* asked to, and the reaper goes round. A sweep begins on every tick and   *)
(* gets on to its end. The reaper is run again and again, and what it      *)
(* waits for passes.                                                       *)
Fairness ==
    /\ \A p \in Proc : WF_eventVars(part = "shared" /\ FlushStep(p))
    /\ WF_eventVars(part = "filled" /\ FilledBox!FlushStep(p1))
    /\ \A d \in Mounts!Dir :
         /\ WF_mountVars(part = "mounts" /\ Mounts!Reconciles(d))
         /\ WF_mountVars(part = "mounts" /\ Mounts!Stales(d))
         /\ WF_mountVars(part = "mounts" /\ Mounts!Supervise(d))
    /\ WF_mountVars(part = "mounts" /\ Mounts!Operation)
    /\ \A i \in {i1} :
        /\ WF_publicationVars(part = "solo" /\ Solo!Exits(i))
        /\ WF_publicationVars(part = "solo" /\ Solo!MountShows(i))
        /\ \A k \in Kind : WF_publicationVars(part = "solo" /\ Solo!Handles(i, k))
    /\ WF_publicationVars(part = "solo" /\ Solo!DriveStep)
    /\ WF_publicationVars(part = "solo" /\ Solo!PeriodicSweep)
    /\ WF_publicationVars(part = "solo" /\ (Solo!CompletionWrites \/ Solo!CompletionEnds))
    /\ WF_publicationVars(part = "solo" /\ (Solo!AbandonMarks \/ Solo!AbandonEnds))
    /\ \A i \in {i1} :
        /\ WF_publicationVars(part = "alone" /\ Alone!Exits(i))
        /\ WF_publicationVars(part = "alone" /\ Alone!MountShows(i))
        /\ \A k \in Kind : WF_publicationVars(part = "alone" /\ Alone!Handles(i, k))
    /\ WF_publicationVars(part = "alone" /\ Alone!DriveStep)
    /\ WF_publicationVars(part = "alone" /\ Alone!PeriodicSweep)
    /\ WF_publicationVars(part = "alone" /\ (Alone!CompletionWrites \/ Alone!CompletionEnds))
    /\ WF_publicationVars(part = "alone" /\ (Alone!AbandonMarks \/ Alone!AbandonEnds))
    /\ \A i \in Impl :
        /\ WF_publicationVars(part = "team" /\ Exits(i))
        /\ WF_publicationVars(part = "team" /\ MountShows(i))
        /\ \A k \in Kind : WF_publicationVars(part = "team" /\ Handles(i, k))
    /\ WF_publicationVars(part = "team" /\ DriveStep)
    /\ WF_publicationVars(part = "team" /\ PeriodicSweep)
    /\ WF_publicationVars(part = "team" /\ (CompletionWrites \/ CompletionEnds))
    /\ WF_publicationVars(part = "team" /\ (AbandonMarks \/ AbandonEnds))
    /\ \A i \in Impl :
        /\ WF_publicationVars(part = "local" /\ Locals!Exits(i))
        /\ WF_publicationVars(part = "local" /\ Locals!MountShows(i))
        /\ \A k \in Kind : WF_publicationVars(part = "local" /\ Locals!Handles(i, k))
    /\ WF_publicationVars(part = "local" /\ Locals!DriveStep)
    /\ WF_publicationVars(part = "local" /\ Locals!PeriodicSweep)
    /\ WF_publicationVars(part = "local" /\ (Locals!CompletionWrites \/ Locals!CompletionEnds))
    /\ WF_publicationVars(part = "local" /\ (Locals!AbandonMarks \/ Locals!AbandonEnds))
    /\ \A o \in Slot : WF_hostedVars(part = "hosted" /\ Hosted!Step(o))
    /\ SF_hostedVars(part = "hosted" /\ (\E o \in Slot : Hosted!BeginSweep(o)))
    /\ WF_hostedVars(part = "hosted" /\ Hosted!Expires)
    /\ \A i \in {i1} : WF_hostedVars(part = "hosted" /\ Hosted!AgentEnds(i))
    /\ \A c \in {c1, c2} : WF_placementVars(part = "placements" /\ (Placements!ClientStep(c)
                                                                  \/ Placements!Accepts(c)
                                                                  \/ Placements!Launches(c)))
    /\ \A o \in Placements!Origin : WF_placementVars(part = "placements" /\ (Placements!TearsDown(o)
                                                                           \/ Placements!ReleaseConfirmed(o)))
    /\ WF_placementVars(part = "placements" /\ Placements!Retries)
    /\ WF_circuitVars(part = "circuit" /\ (\E q \in {q1, q2} : Circuit!ReadBegins(q)))
    /\ \A q \in {q1, q2} : WF_circuitVars(part = "circuit" /\ (Circuit!ProbeAnswered(q)
                                                             \/ Circuit!ProbeFails(q)))
    /\ \A m \in {m1, m2} : WF_circuitVars(part = "circuit" /\ (Circuit!Succeeds(m)
                                                             \/ Circuit!Fails(m)))
    /\ WF_circuitVars(part = "circuit" /\ Circuit!CoolsDown)
    /\ WF_circuitVars(part = "circuit" /\ Circuit!ComesUp)
    /\ \A r \in {r1} :
            /\ WF_runVars(part = "faults" /\ Faulty!RunStep(r))
            /\ WF_runVars(part = "faults" /\ Faulty!DeployStep(r))
            /\ WF_runVars(part = "faults" /\ Faulty!Lands(r))
            /\ WF_runVars(part = "faults" /\ Faulty!NamespaceGone(r))
            /\ WF_runVars(part = "faults" /\ Faulty!LeaseExpires(r))
            /\ WF_runVars(part = "faults" /\ Faulty!ReaperDeletes(r))
    /\ WF_runVars(part = "faults" /\ Faulty!ReaperLists)
    /\ \A e \in {e1} :
         /\ WF_environmentVars(part = "reclaims" /\ Reclaims!ProvisionStep(e))
         /\ \A a \in Actor : WF_environmentVars(part = "reclaims" /\ Reclaims!DeleteStep(a, e))
         /\ WF_environmentVars(part = "reclaims" /\ Reclaims!LeaseEnds(e))
         /\ WF_environmentVars(part = "reclaims" /\ Reclaims!NamespaceGone(e))
         /\ WF_environmentVars(part = "reclaims" /\ Reclaims!Reap(e))
    /\ \A e \in Env :
         /\ WF_environmentVars(part = "calm" /\ Calm!ProvisionStep(e))
         /\ \A a \in Actor : WF_environmentVars(part = "calm" /\ Calm!DeleteStep(a, e))
         /\ WF_environmentVars(part = "calm" /\ Calm!LeaseEnds(e))
         /\ WF_environmentVars(part = "calm" /\ Calm!NamespaceGone(e))
         /\ WF_environmentVars(part = "calm" /\ Calm!Reap(e))
    /\ WF_previewVars(part = "sweeps" /\ Sweeps!Works)
    /\ WF_previewVars(part = "sweeps" /\ Sweeps!Snapshot)
    /\ WF_previewVars(part = "sweeps" /\ Sweeps!SweepBegins)
    /\ WF_reaperVars(part = "reaper" /\ Reaper!Reaps)
    /\ WF_reaperVars(part = "reaper" /\ Reaper!Ages)

LiveSpec == Spec /\ Fairness

-----------------------------------------------------------------------------
(* Every component keeps its types.                                        *)
TypeOK ==
    /\ part = "merges" => ClosureTypes
    /\ part = "notion" => IntakeTypes
    /\ part \in {"retried", "refused", "resumed"} => PublicationTypes
    /\ part = "invocations" => HostedTypes
    /\ part \in {"environments", "calm"} => EnvironmentTypes
    /\ part = "shared" => EventTypes
    /\ part = "crowded" => CrowdedBox!EventTypes
    /\ part = "writers" => Writers!TypeOK
    /\ part = "hands" => Hands!TypeOK
    /\ part = "projections" => Projections!TypeOK
    /\ part = "mounts" => Mounts!TypeOK
    /\ part = "moved" => MovedMounts!TypeOK
    /\ part = "placements" => Placements!TypeOK
    /\ part = "circuit" => Circuit!TypeOK
    /\ part = "broker" => Broker!TypeOK
    /\ part = "queue" => Queue!TypeOK
    /\ part = "faults" => Faulty!TypeOK
    /\ part = "sweeps" => Sweeps!TypeOK
    /\ part = "previews" => Previews!TypeOK
    /\ part = "late" => LatePreviews!TypeOK
    /\ part = "worktrees" => Worktrees!TypeOK
    /\ part = "slow" => SlowWorktrees!TypeOK
    /\ part = "reaper" => Reaper!TypeOK

(* A writer takes a transition for its own, or a claim for gone, only on   *)
(* evidence that it is; what was said of the mirror's health is so; no     *)
(* mount outlives the client that started it; and a verification that      *)
(* passed has left nothing behind.                                         *)
EvidenceIsReal ==
    /\ part = "writers" => Writers!ReceiptIsOwn
    /\ part = "hands" => Hands!ReceiptIsOwn
    /\ part = "projections" => Projections!FreshReadyIsReal
    /\ part \in {"mounts", "moved"} => Mounts!NoMountLeft
    /\ part = "mounts" => Mounts!HealthIsHeard
    /\ part = "queue" => Queue!PassLeavesNothing
    /\ part = "faults" => Faulty!PassLeavesNothing

(* Routes of people stay, a checkout is removed only when nobody works in  *)
(* it and nothing would be lost, only the factory's own orphans are        *)
(* signalled, a sandbox stays while its worker lives, and the broker is    *)
(* shut down after the agents it waited for.                               *)
OnlyOwnIsRemoved ==
    /\ [](part = "placements" => Placements!WorkerKeepsSandbox)
    /\ [](part = "broker" => Broker!ShutdownWaits /\ Broker!WaitsForTheLiving)
    /\ [][(part \in {"previews", "late"}) => Previews!HumanRouteStands]_vars
    /\ [][part = "worktrees" => Worktrees!RemovesIdle]_vars
    /\ [][(part \in {"worktrees", "slow"}) => Worktrees!LocalWorkKept]_vars
    /\ [](part = "reaper" => Reaper!NoStrangerSignalled)

(* An open outbox empties, a mirror that is asked for is fresh again while *)
(* its scope lasts, and the publication of a team comes to an end.         *)
WritesSettle ==
    /\ []<>(part = "shared" => EventsSettled)
    /\ []<>(part = "filled" => FilledBox!EventsSettled)
    /\ []<>(part = "mounts" => Mounts!MirrorHealed)
    /\ []<>(part \in {"solo", "alone", "team", "local"} => PublicationOver)

(* A hosted dispatch ends, a placement that failed leaves no worker, and   *)
(* the circuit of the control plane closes again.                          *)
InvocationsEnd ==
    /\ []<>(part = "hosted" => Hosted!DispatchOver)
    /\ []<>(part = "placements" => Placements!NoFailedWorker)
    /\ []<>(part = "circuit" => Circuit!CircuitRecovered)

(* Environments go away, the preview of a dispatch that has ended goes     *)
(* with its route, and an orphan of a factory that died does not live on.  *)
MachinesAreCleared ==
    /\ []<>(part = "faults" => Faulty!EnvironmentsGone)
    /\ []<>(part = "reclaims" => Reclaims!Reclaimed)
    /\ []<>(part = "calm" => Reclaimed)
    /\ \A o \in {o1} : <>[](o \notin dispatched) => <>[](part = "sweeps" => Sweeps!PreviewGone(o))
    /\ []<>(part = "reaper" => Reaper!NoOrphanRuns)

=============================================================================
