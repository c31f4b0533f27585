------------------------------- MODULE MCWork -------------------------------
(***************************************************************************)
(* The work of the factory on small instances for TLC: its conversations   *)
(* with people and agents (threads, wakes and generations of babysitters,  *)
(* questions, the feature guardian), and what surrounds the dispatch       *)
(* lifecycle (claims, reopened issues, orphans, parked issues, the places  *)
(* of agents, stored documents and keys). The components share no state,   *)
(* and each has parts of its own: "part" is the one that a behaviour is    *)
(* about, the others stay in an initial state.  The documents of the       *)
(* store, the generations of babysitters, the feature guardian, the         *)
(* migration of keys and the recovery of orphans are extended and not      *)
(* instantiated: their properties, that are proved in a module of their    *)
(* own, are those checked here.                                            *)
(***************************************************************************)
EXTENDS StateDocuments, BabysitterGenerations, GuardianTurns, LifecycleKeys, OrphanRecovery

CONSTANTS Parts,  \* the parts to check
          p1, p2, m1, m2, d1, d2, w1, w2, a1, a2, r1, r2, t1, t2, b1, o1, k1, k2, c1, c2,
          canonical, None

VARIABLE part

VARIABLES unit, life, records, candidate, conv, heard, watcher, turnFence, reading, turnRoute,
          turnSeen, turnQueue, turn, bind, retire, delivered, told, turnMishaps
VARIABLES service, session, wakeOwner, wake, flight, wakeRoute, asks, ends, wakeAgent,
          submitted, human, closing, wakeFaults
VARIABLES ask, answer, teammateClaim, wait, mail, injecting, failing, failed
VARIABLES comments, questionEvents, questionQueue, questionStep, memory, stored, asked,
          clarification, team, questionAgent, exit, up, rejects, questionCrashes
VARIABLES manifest, cycleDoc, ticks, changes, stops
VARIABLES claimIssue, claimD, claimSeen, tries, landed, claimed, verdict, claimFence, obs,
          claimC, wb, claimConfirmed, mark, block, claimRow, stop, drains, abandon, lease,
          claimBatch, agents, claimFaults
VARIABLES reopenSurface, reopenStale, canon, reopenAttempts, reopenRow, observer, reopenOwner,
          reopenRuns, people, failures, reopenCrashes
VARIABLES parkIssue, closed, merged, parkEvents, index, ended, probe, fresh, parked, memo,
          parkStep, parkTodo, found, walk, park, notices, sweeping, parkSeen, returns, reopens,
          parkFaults
VARIABLES holdRow, holdAgent, age, at, holdTodo, holdBatch, names, signalled, tracked, observed,
          holdExits, armed, respawns, holdFaults, holdCrashes

Thread ==
    INSTANCE ConversationTurns WITH
      Proc <- {p1, p2}, Msg <- {m1, m2}, Scenario <- {"ends", "babysitter"}, MaxFaults <- 1,
      fence <- turnFence, route <- turnRoute, seen <- turnSeen, queue <- turnQueue,
      mishaps <- turnMishaps
Crashing ==
    INSTANCE ConversationTurns WITH
      Proc <- {p1, p2}, Msg <- {m1}, Scenario <- {"ends", "babysitter", "crash"},
      MaxFaults <- 2, fence <- turnFence, route <- turnRoute, seen <- turnSeen,
      queue <- turnQueue, mishaps <- turnMishaps
Takeover ==
    INSTANCE ConversationTurns WITH
      Proc <- {p1, p2}, Msg <- {m1, m2}, Scenario <- {"overlap"}, MaxFaults <- 1,
      fence <- turnFence, route <- turnRoute, seen <- turnSeen, queue <- turnQueue,
      mishaps <- turnMishaps
Wakes ==
    INSTANCE BabysitterWakes WITH
      Delivery <- {d1, d2}, Overlaps <- FALSE, Faults <- 1, owner <- wakeOwner,
      route <- wakeRoute, agent <- wakeAgent, faults <- wakeFaults
FaultyWakes ==
    INSTANCE BabysitterWakes WITH
      Delivery <- {d1, d2}, Overlaps <- FALSE, Faults <- 2, owner <- wakeOwner,
      route <- wakeRoute, agent <- wakeAgent, faults <- wakeFaults
Asks ==
    INSTANCE TeammateAsks WITH
      Ask <- {a1, a2}, Lossy <- FALSE, Ambiguous <- FALSE, claim <- teammateClaim
LossyAsks ==
    INSTANCE TeammateAsks WITH
      Ask <- {a1}, Lossy <- TRUE, Ambiguous <- TRUE, claim <- teammateClaim
Questions ==
    INSTANCE GithubQuestions WITH
      MaxComments <- 3, MaxRejects <- 1, MaxCrashes <- 2, Torn <- FALSE, Reorders <- FALSE,
      events <- questionEvents, queue <- questionQueue, step <- questionStep,
      agent <- questionAgent, crashes <- questionCrashes
Cycle ==
    INSTANCE GuardianCycle WITH
      Tick <- {t1, t2}, Features <- 2, MaxChanges <- 2, MaxStops <- 1, doc <- cycleDoc
Manifests ==
    INSTANCE GuardianCycle WITH
      Tick <- {t1, t2}, Features <- 3, MaxChanges <- 2, MaxStops <- 0, doc <- cycleDoc
Claims ==
    INSTANCE DispatchClaim WITH
      Durable <- TRUE, Attempts <- 2, MaxFaults <- 1, issue <- claimIssue, d <- claimD,
      seen <- claimSeen, fence <- claimFence, c <- claimC, confirmed <- claimConfirmed,
      row <- claimRow, batch <- claimBatch, faults <- claimFaults
FaultyClaims ==
    INSTANCE DispatchClaim WITH
      Durable <- TRUE, Attempts <- 2, MaxFaults <- 2, issue <- claimIssue, d <- claimD,
      seen <- claimSeen, fence <- claimFence, c <- claimC, confirmed <- claimConfirmed,
      row <- claimRow, batch <- claimBatch, faults <- claimFaults
Reopens ==
    INSTANCE DispatchReopen WITH
      Proc <- {p1, p2}, Overlaps <- FALSE, MaxRuns <- 2, MaxAttempts <- 2, MaxHuman <- 1,
      MaxFailures <- 0, MaxCrashes <- 0, surface <- reopenSurface, stale <- reopenStale,
      attempts <- reopenAttempts, row <- reopenRow, owner <- reopenOwner, runs <- reopenRuns,
      crashes <- reopenCrashes
Repairs ==
    INSTANCE DispatchReopen WITH
      Proc <- {p1, p2}, Overlaps <- TRUE, MaxRuns <- 2, MaxAttempts <- 2, MaxHuman <- 1,
      MaxFailures <- 0, MaxCrashes <- 0, surface <- reopenSurface, stale <- reopenStale,
      attempts <- reopenAttempts, row <- reopenRow, owner <- reopenOwner, runs <- reopenRuns,
      crashes <- reopenCrashes
Reruns ==
    INSTANCE DispatchReopen WITH
      Proc <- {p1, p2}, Overlaps <- FALSE, MaxRuns <- 1, MaxAttempts <- 2, MaxHuman <- 0,
      MaxFailures <- 1, MaxCrashes <- 1, surface <- reopenSurface, stale <- reopenStale,
      attempts <- reopenAttempts, row <- reopenRow, owner <- reopenOwner, runs <- reopenRuns,
      crashes <- reopenCrashes
Orphans ==
    INSTANCE OrphanRecovery WITH
      Peer <- {p1, p2}, RecoveryRaces <- FALSE, MaxOrphanRuns <- 1, MaxOrphanExits <- 1,
      MaxOrphanPulls <- 0, MaxOrphanFaults <- 1
PulledOrphans ==
    INSTANCE OrphanRecovery WITH
      Peer <- {p1, p2}, RecoveryRaces <- FALSE, MaxOrphanRuns <- 1, MaxOrphanExits <- 1,
      MaxOrphanPulls <- 1, MaxOrphanFaults <- 0
Parks ==
    INSTANCE DependencyParks WITH
      Blocker <- {b1}, MaxReturns <- 1, MaxReopens <- 1, MaxFaults <- 1, issue <- parkIssue,
      events <- parkEvents, step <- parkStep, todo <- parkTodo, seen <- parkSeen,
      faults <- parkFaults
FaultyParks ==
    INSTANCE DependencyParks WITH
      Blocker <- {b1}, MaxReturns <- 1, MaxReopens <- 1, MaxFaults <- 2, issue <- parkIssue,
      events <- parkEvents, step <- parkStep, todo <- parkTodo, seen <- parkSeen,
      faults <- parkFaults
Holds ==
    INSTANCE AgentHolds WITH
      Row <- {r1, r2}, Tracks <- TRUE, MaxRespawns <- 1, MaxFaults <- 2, MaxCrashes <- 1,
      row <- holdRow, agent <- holdAgent, todo <- holdTodo, batch <- holdBatch,
      exits <- holdExits, faults <- holdFaults, crashes <- holdCrashes

turnVars == <<unit, life, records, candidate, conv, heard, watcher, turnFence, reading, turnRoute,
    turnSeen, turnQueue, turn, bind, retire, delivered, told, turnMishaps>>
wakeVars == <<service, session, wakeOwner, wake, flight, wakeRoute, asks, ends, wakeAgent, submitted,
    human, closing, wakeFaults>>
teammateVars == <<ask, answer, teammateClaim, wait, mail, injecting, failing, failed>>
questionVars == <<comments, questionEvents, questionQueue, questionStep, memory, stored, asked, clarification,
    team, questionAgent, exit, up, rejects, questionCrashes>>
cycleVars == <<manifest, cycleDoc, ticks, changes, stops>>
claimVars == <<claimIssue, claimD, claimSeen, tries, landed, claimed, verdict, claimFence, obs, claimC, wb,
    claimConfirmed, mark, block, claimRow, stop, drains, abandon, lease, claimBatch, agents,
    claimFaults>>
reopenVars == <<reopenSurface, reopenStale, canon, reopenAttempts, reopenRow, observer, reopenOwner,
    reopenRuns, people, failures, reopenCrashes>>
parkVars == <<parkIssue, closed, merged, parkEvents, index, ended, probe, fresh, parked, memo, parkStep,
    parkTodo, found, walk, park, notices, sweeping, parkSeen, returns, reopens, parkFaults>>
holdVars == <<holdRow, holdAgent, age, at, holdTodo, holdBatch, names, signalled, tracked, observed,
    holdExits, armed, respawns, holdFaults, holdCrashes>>

vars ==
    <<part, turnVars, wakeVars, generationVars, teammateVars, questionVars, guardianVars, cycleVars,
      claimVars, reopenVars, orphanVars, parkVars, holdVars, keyVars, documentVars>>

Init ==
    /\ part \in Parts
    /\ IF part = "thread" THEN Thread!Init ELSE IF part = "crashes" THEN Crashing!Init ELSE
       Takeover!Init
    /\ IF part = "wakes" THEN Wakes!Init ELSE FaultyWakes!Init
    /\ GenerationInit
    /\ IF part = "asks" THEN Asks!Init ELSE LossyAsks!Init
    /\ Questions!QuestionInit
    /\ GuardianInit
    /\ IF part = "cycle" THEN Cycle!Init ELSE Manifests!Init
    /\ part \in {"cycle", "manifest"} \/ manifest = {1}
    /\ IF part = "claims" THEN Claims!Init ELSE FaultyClaims!Init
    /\ IF part = "reopens" THEN Reopens!ReopenInit ELSE IF part = "repairs" THEN
       Repairs!ReopenInit ELSE Reruns!ReopenInit
    /\ IF part = "orphans" THEN Orphans!OrphanInit ELSE IF part = "pulls" THEN
       PulledOrphans!OrphanInit ELSE OrphanInit
    /\ part \in {"orphans", "pulls", "recoveries"} \/ surface = "ready"
    /\ IF part = "parks" THEN Parks!ParkInit ELSE FaultyParks!ParkInit
    /\ Holds!HoldInit
    /\ part = "holds" \/ holdRow = [r \in {r1, r2} |-> "dispatching"]
    /\ KeyInit
    /\ DocumentInit
    /\ part = "documents" \/ version = 1

Next ==
    \/ /\ part = "thread" /\ Thread!TurnNext
       /\ UNCHANGED <<part, wakeVars, generationVars, teammateVars, questionVars, guardianVars,
                     cycleVars, claimVars, reopenVars, orphanVars, parkVars, holdVars, keyVars,
                     documentVars>>
    \/ /\ part = "crashes" /\ Crashing!TurnNext
       /\ UNCHANGED <<part, wakeVars, generationVars, teammateVars, questionVars, guardianVars,
                     cycleVars, claimVars, reopenVars, orphanVars, parkVars, holdVars, keyVars,
                     documentVars>>
    \/ /\ part = "takeover" /\ Takeover!TurnNext
       /\ UNCHANGED <<part, wakeVars, generationVars, teammateVars, questionVars, guardianVars,
                     cycleVars, claimVars, reopenVars, orphanVars, parkVars, holdVars, keyVars,
                     documentVars>>
    \/ /\ part = "wakes" /\ Wakes!WakeNext
       /\ UNCHANGED <<part, turnVars, generationVars, teammateVars, questionVars, guardianVars,
                     cycleVars, claimVars, reopenVars, orphanVars, parkVars, holdVars, keyVars,
                     documentVars>>
    \/ /\ part = "wakefaults" /\ FaultyWakes!WakeNext
       /\ UNCHANGED <<part, turnVars, generationVars, teammateVars, questionVars, guardianVars,
                     cycleVars, claimVars, reopenVars, orphanVars, parkVars, holdVars, keyVars,
                     documentVars>>
    \/ /\ part = "generations" /\ GenerationNext
       /\ UNCHANGED <<part, turnVars, wakeVars, teammateVars, questionVars, guardianVars, cycleVars,
                     claimVars, reopenVars, orphanVars, parkVars, holdVars, keyVars,
                     documentVars>>
    \/ /\ part = "asks" /\ Asks!TeammateNext
       /\ UNCHANGED <<part, turnVars, wakeVars, generationVars, questionVars, guardianVars, cycleVars,
                     claimVars, reopenVars, orphanVars, parkVars, holdVars, keyVars,
                     documentVars>>
    \/ /\ part = "lossy" /\ LossyAsks!TeammateNext
       /\ UNCHANGED <<part, turnVars, wakeVars, generationVars, questionVars, guardianVars, cycleVars,
                     claimVars, reopenVars, orphanVars, parkVars, holdVars, keyVars,
                     documentVars>>
    \/ /\ part = "questions" /\ Questions!QuestionNext
       /\ UNCHANGED <<part, turnVars, wakeVars, generationVars, teammateVars, guardianVars, cycleVars,
                     claimVars, reopenVars, orphanVars, parkVars, holdVars, keyVars,
                     documentVars>>
    \/ /\ part = "guardian" /\ GuardianNext
       /\ UNCHANGED <<part, turnVars, wakeVars, generationVars, teammateVars, questionVars, cycleVars,
                     claimVars, reopenVars, orphanVars, parkVars, holdVars, keyVars,
                     documentVars>>
    \/ /\ part = "cycle" /\ Cycle!CycleNext
       /\ UNCHANGED <<part, turnVars, wakeVars, generationVars, teammateVars, questionVars,
                     guardianVars, claimVars, reopenVars, orphanVars, parkVars, holdVars,
                     keyVars, documentVars>>
    \/ /\ part = "manifest" /\ Manifests!CycleNext
       /\ UNCHANGED <<part, turnVars, wakeVars, generationVars, teammateVars, questionVars,
                     guardianVars, claimVars, reopenVars, orphanVars, parkVars, holdVars,
                     keyVars, documentVars>>
    \/ /\ part = "claims" /\ Claims!ClaimNext
       /\ UNCHANGED <<part, turnVars, wakeVars, generationVars, teammateVars, questionVars,
                     guardianVars, cycleVars, reopenVars, orphanVars, parkVars, holdVars,
                     keyVars, documentVars>>
    \/ /\ part = "claimfaults" /\ FaultyClaims!ClaimNext
       /\ UNCHANGED <<part, turnVars, wakeVars, generationVars, teammateVars, questionVars,
                     guardianVars, cycleVars, reopenVars, orphanVars, parkVars, holdVars,
                     keyVars, documentVars>>
    \/ /\ part = "reopens" /\ Reopens!ReopenNext
       /\ UNCHANGED <<part, turnVars, wakeVars, generationVars, teammateVars, questionVars,
                     guardianVars, cycleVars, claimVars, orphanVars, parkVars, holdVars,
                     keyVars, documentVars>>
    \/ /\ part = "repairs" /\ Repairs!ReopenNext
       /\ UNCHANGED <<part, turnVars, wakeVars, generationVars, teammateVars, questionVars,
                     guardianVars, cycleVars, claimVars, orphanVars, parkVars, holdVars,
                     keyVars, documentVars>>
    \/ /\ part = "restarts" /\ Reruns!ReopenNext
       /\ UNCHANGED <<part, turnVars, wakeVars, generationVars, teammateVars, questionVars,
                     guardianVars, cycleVars, claimVars, orphanVars, parkVars, holdVars,
                     keyVars, documentVars>>
    \/ /\ part = "orphans" /\ Orphans!OrphanNext
       /\ UNCHANGED <<part, turnVars, wakeVars, generationVars, teammateVars, questionVars,
                     guardianVars, cycleVars, claimVars, reopenVars, parkVars, holdVars,
                     keyVars, documentVars>>
    \/ /\ part = "pulls" /\ PulledOrphans!OrphanNext
       /\ UNCHANGED <<part, turnVars, wakeVars, generationVars, teammateVars, questionVars,
                     guardianVars, cycleVars, claimVars, reopenVars, parkVars, holdVars,
                     keyVars, documentVars>>
    \/ /\ part = "recoveries" /\ OrphanNext
       /\ UNCHANGED <<part, turnVars, wakeVars, generationVars, teammateVars, questionVars,
                     guardianVars, cycleVars, claimVars, reopenVars, parkVars, holdVars,
                     keyVars, documentVars>>
    \/ /\ part = "parks" /\ Parks!ParkNext
       /\ UNCHANGED <<part, turnVars, wakeVars, generationVars, teammateVars, questionVars,
                     guardianVars, cycleVars, claimVars, reopenVars, orphanVars, holdVars,
                     keyVars, documentVars>>
    \/ /\ part = "parkfaults" /\ FaultyParks!ParkNext
       /\ UNCHANGED <<part, turnVars, wakeVars, generationVars, teammateVars, questionVars,
                     guardianVars, cycleVars, claimVars, reopenVars, orphanVars, holdVars,
                     keyVars, documentVars>>
    \/ /\ part = "holds" /\ Holds!HoldNext
       /\ UNCHANGED <<part, turnVars, wakeVars, generationVars, teammateVars, questionVars,
                     guardianVars, cycleVars, claimVars, reopenVars, orphanVars, parkVars,
                     keyVars, documentVars>>
    \/ /\ part = "keys" /\ KeyNext
       /\ UNCHANGED <<part, turnVars, wakeVars, generationVars, teammateVars, questionVars,
                     guardianVars, cycleVars, claimVars, reopenVars, orphanVars, parkVars,
                     holdVars, documentVars>>
    \/ /\ part = "documents" /\ DocumentNext
       /\ UNCHANGED <<part, turnVars, wakeVars, generationVars, teammateVars, questionVars,
                     guardianVars, cycleVars, claimVars, reopenVars, orphanVars, parkVars,
                     holdVars, keyVars>>

Spec == Init /\ [][Next]_vars

(* What the code and its scheduling justify, for each part: A running      *)
(* process gets on with what it began; the human, the agents and the end   *)
(* of the work unit owe nothing. What a wake began goes on, and a delivery *)
(* that is due is offered again; nobody has to end a critical section or   *)
(* to answer. Deliveries are handled, the sweep dispatches, and the        *)
(* process is restarted. The schedule ticks, and a tick that is not        *)
(* stopped goes on. Every call returns but a spawn, which has no timeout.  *)
(* Sweeps look at the issue, runs get on, leases run out and the mount     *)
(* catches up. The sweep goes round, a dispatch that began gets on, leases *)
(* run out and the mount catches up. The sweep goes round, a park gets on, *)
(* and time passes. A start gets on to its end, the sweep looks at every   *)
(* row, and time passes.                                                   *)
Fairness ==
    /\ \A p \in {p1, p2} :
           /\ WF_turnVars(part = "thread" /\ p \in Thread!up /\ Thread!RouteStep(p))
           /\ WF_turnVars(part = "thread" /\ p \in Thread!up /\ Thread!TurnStep(p))
           /\ WF_turnVars(part = "thread" /\ p \in Thread!up /\ Thread!Rebinds(p))
           /\ WF_turnVars(part = "thread" /\ p \in Thread!up /\ Thread!RetireStep(p))
           /\ \A m \in {m1, m2} :
                 WF_turnVars(part = "thread" /\ p \in Thread!up /\ Thread!Handle(p, m))
    /\ \A p \in {p1, p2} :
           /\ WF_turnVars(part = "crashes" /\ p \in Crashing!up /\ Crashing!RouteStep(p))
           /\ WF_turnVars(part = "crashes" /\ p \in Crashing!up /\ Crashing!TurnStep(p))
           /\ WF_turnVars(part = "crashes" /\ p \in Crashing!up /\ Crashing!Rebinds(p))
           /\ WF_turnVars(part = "crashes" /\ p \in Crashing!up /\ Crashing!RetireStep(p))
           /\ \A m \in {m1} :
                 WF_turnVars(part = "crashes" /\ p \in Crashing!up /\ Crashing!Handle(p, m))
    /\ \A d \in {d1, d2} : WF_wakeVars(part = "wakes" /\ Wakes!RouteClaims(d))
    /\ WF_wakeVars(part = "wakes" /\ (Wakes!RoutePersists \/ Wakes!RouteArms \/ Wakes!RouteHolds
                                    \/ Wakes!RouteAccepts \/ Wakes!RouteAccepted))
    /\ WF_wakeVars(part = "wakes" /\ (Wakes!FlushFires \/ Wakes!Injected \/ Wakes!FlushSettles))
    /\ WF_wakeVars(part = "wakes" /\ (Wakes!AskArrives \/ Wakes!AskPersists
                                    \/ Wakes!AskAcknowledged))
    /\ WF_wakeVars(part = "wakes" /\ (Wakes!EndArrives \/ Wakes!EndClears \/ Wakes!EndPersists
                                    \/ Wakes!EndSubmits \/ Wakes!EndSettles))
    /\ WF_wakeVars(part = "wakes" /\ (Wakes!CancelEnds \/ Wakes!Restores
                                    \/ Wakes!RestoresClosed))
    /\ WF_questionVars(part = "questions" /\ Questions!Deliver)
    /\ WF_questionVars(part = "questions" /\ Questions!Handle)
    /\ WF_questionVars(part = "questions" /\ Questions!Dispatch)
    /\ WF_questionVars(part = "questions" /\ Questions!Restart)
    /\ \A t \in {t1, t2} :
           /\ WF_cycleVars(part = "cycle" /\ Cycle!Begins(t))
           /\ WF_cycleVars(part = "cycle" /\ Cycle!Step(t))
    /\ WF_claimVars(part = "claims" /\ Claims!DispatchStep)
    /\ WF_claimVars(part = "claims" /\ Claims!CompletionStep)
    /\ WF_claimVars(part = "claims" /\ Claims!StopStep)
    /\ WF_claimVars(part = "claims" /\ Claims!AbandonStep)
    /\ WF_reopenVars(part = "reopens" /\ Reopens!Lapse)
    /\ \A p \in {p1, p2} :
            /\ WF_reopenVars(part = "reopens" /\ Reopens!Observation(p))
            /\ WF_reopenVars(part = "reopens" /\ Reopens!Running(p))
            /\ WF_reopenVars(part = "reopens" /\ Reopens!Takeover(p))
            /\ WF_reopenVars(part = "reopens" /\ Reopens!MountSyncs(p))
    /\ WF_orphanVars(part = "orphans" /\ Orphans!Sweep)
    /\ WF_orphanVars(part = "orphans" /\ (\E p \in {p1, p2} : Orphans!Begin(p)))
    /\ WF_orphanVars(part = "orphans" /\ Orphans!Lapse)
    /\ WF_orphanVars(part = "orphans" /\ Orphans!MountSyncs)
    /\ \A p \in {p1, p2} : WF_orphanVars(part = "orphans" /\ Orphans!Running(p))
    /\ WF_orphanVars(part = "pulls" /\ PulledOrphans!Sweep)
    /\ WF_orphanVars(part = "pulls" /\ (\E p \in {p1, p2} : PulledOrphans!Begin(p)))
    /\ WF_orphanVars(part = "pulls" /\ PulledOrphans!Lapse)
    /\ WF_orphanVars(part = "pulls" /\ PulledOrphans!MountSyncs)
    /\ \A p \in {p1, p2} : WF_orphanVars(part = "pulls" /\ PulledOrphans!Running(p))
    /\ WF_parkVars(part = "parks" /\ Parks!ParkSteps)
    /\ WF_parkVars(part = "parks" /\ Parks!Sweep)
    /\ WF_parkVars(part = "parks" /\ Parks!Tick)
    /\ WF_holdVars(part = "holds" /\ (Holds!Start \/ Holds!Hydrate \/ Holds!Reconcile
                                    \/ Holds!List))
    /\ \A r \in {r1, r2} :
            /\ WF_holdVars(part = "holds" /\ Holds!Restore(r))
            /\ WF_holdVars(part = "holds" /\ Holds!Sweep(r))
            /\ WF_holdVars(part = "holds" /\ Holds!Passes(r))

LiveSpec == Spec /\ Fairness

-----------------------------------------------------------------------------
(* Every component keeps its types.                                        *)
TypeOK ==
    /\ part = "thread" => Thread!TypeOK
    /\ part = "crashes" => Crashing!TypeOK
    /\ part = "takeover" => Takeover!TypeOK
    /\ part = "wakes" => Wakes!TypeOK
    /\ part = "wakefaults" => FaultyWakes!TypeOK
    /\ part = "generations" => GenerationTypes
    /\ part = "asks" => Asks!TypeOK
    /\ part = "lossy" => LossyAsks!TypeOK
    /\ part = "questions" => Questions!TypeOK
    /\ part = "guardian" => GuardianTypes
    /\ part = "cycle" => Cycle!TypeOK
    /\ part = "manifest" => Manifests!TypeOK
    /\ part = "claims" => Claims!TypeOK
    /\ part = "claimfaults" => FaultyClaims!TypeOK
    /\ part = "reopens" => Reopens!TypeOK
    /\ part = "repairs" => Repairs!TypeOK
    /\ part = "restarts" => Reruns!TypeOK
    /\ part = "orphans" => Orphans!OrphanTypes
    /\ part = "pulls" => PulledOrphans!OrphanTypes
    /\ part = "recoveries" => OrphanTypes
    /\ part = "parks" => Parks!TypeOK
    /\ part = "parkfaults" => FaultyParks!TypeOK
    /\ part = "holds" => Holds!TypeOK
    /\ part = "keys" => KeyTypes
    /\ part = "documents" => DocumentTypes

(* What an agent was given is what its history says, a conversation that   *)
(* ends drops no reply unsaid, an accepted delivery is kept until it has   *)
(* woken the babysitter, an answer of a teammate is that of the question   *)
(* it is given for, and an agent that asks on its issue is not taken to be *)
(* done.                                                                   *)
RepliesAreKept ==
    /\ [](part = "takeover" => Takeover!HistoryWasDelivered)
    /\ [][(part \in {"thread", "crashes"}) => Thread!DropsNothing]_vars
    /\ [](part = "wakefaults" => FaultyWakes!AcceptedWakeKept)
    /\ [](part = "asks" => Asks!AnswerIsOwn)
    /\ [](part = "questions" => Questions!AskingIsNotDone)

(* A claim that a dispatch cannot undo leaves a fence behind it; the fence *)
(* survives a stop, and repairs of other processes; a completion that it   *)
(* covers is not undone; an issue is claimed when its blockers are over, a *)
(* park of it is announced once, however often the process dies; and an    *)
(* agent at work keeps its place.                                          *)
ClaimsAreKept ==
    /\ [](part = "claimfaults" => FaultyClaims!FirstClaimGone /\ FaultyClaims!StopLeavesFence)
    /\ [][part = "claimfaults" => FaultyClaims!FencedCompletionStands]_vars
    /\ [][(part \in {"repairs", "restarts"}) => Repairs!RepairSparesFence]_vars
    /\ [][part = "holds" => Holds!WorkingKeepsItsHold]_vars
    /\ [][part = "parkfaults" => FaultyParks!AdmittedUnblocked]_vars
    /\ [](part = "parkfaults" => FaultyParks!OneNotice)

(* A reply in a thread reaches an agent or its writer is told that it does *)
(* not, an event wakes its babysitter, an answer its team, and the         *)
(* guardian comes round to every feature that stays.                       *)
MessagesArrive ==
    /\ []<>(part = "thread" => Thread!RepliesSettled)
    /\ []<>(part = "crashes" => Crashing!RepliesSettled)
    /\ (([]<>(~human) /\ []<>(wakeAgent = "free")) => []<>(part = "wakes" => Wakes!WakesTaken))
    /\ []<>(part = "questions" => Questions!AnswerTaken)
    /\ \A f \in 1..2 : <>[](f \in manifest) => []<>(part = "cycle" => Cycle!Checked(f))

(* A shutdown ends, a person who reopens an issue is heard, an issue that  *)
(* nobody works on is freed, one whose blockers are over is dispatched,    *)
(* and the place of an agent that is gone is given back.                   *)
WorkMovesOn ==
    /\ []<>(part = "claims" => Claims!StopOver)
    /\ []<>(part = "reopens" => Reopens!ReopenHeard)
    /\ []<>(part \in {"orphans", "pulls"} => Orphans!NoOrphan)
    /\ []<>(part = "parks" => Parks!NoneDue)
    /\ []<>(part = "holds" => Holds!PlacesFree)

=============================================================================
