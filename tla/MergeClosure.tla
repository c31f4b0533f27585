----------------------------- MODULE MergeClosure -----------------------------
(***************************************************************************)
(* How one issue comes to be closed: the completion of its dispatch, with  *)
(* the merge gate in the middle of it, and the webhooks of its pull        *)
(* requests, while the dispatch is tracked and after.                      *)
(*                                                                         *)
(* The program reads pull requests from a mounted copy that follows GitHub *)
(* with a delay, and it writes to GitHub.  One completion of an issue runs *)
(* at a time; what asks for another meanwhile is dropped.                  *)
(*                                                                         *)
(* setup is drawn once: whether the issue lives on GitHub, whether a       *)
(* finished one goes to human review, whether the gate merges, whether     *)
(* babysitters own the pull requests, and whether the issue carries a      *)
(* label that forbids closing it.                                          *)
(***************************************************************************)
EXTENDS Naturals

CONSTANTS Pull,       \* the pull requests of the issue
          None,       \* no pull request
          MaxHead,    \* commits that a branch can have
          Setups,     \* the configurations to draw from
          MaxFaults   \* bound on failed calls and redelivered webhooks

ASSUME ClosureAssumption ==
    /\ None \notin Pull /\ MaxHead \in Nat \ {0} /\ MaxFaults \in Nat
    /\ Setups \subseteq [github : BOOLEAN, review : BOOLEAN, gated : BOOLEAN, babysat : BOOLEAN,
                         labelled : BOOLEAN]

VARIABLES setup, pull, mirror, queued, event, issue, tracked, again, job,
          seen, ready, advanced, verified, landed, faults

closureVars == <<setup, pull, mirror, queued, event, issue, tracked, again, job,
                 seen, ready, advanced, verified, landed, faults>>
providerVars == <<pull, mirror, queued, event, landed>>
readinessVars == <<seen, ready>>

Heads == 1..MaxHead
Pulls == [state : {"open", "draft", "merged", "closed"}, head : Heads,
          approved : SUBSET Heads, green : SUBSET Heads,
          says : {"closes", "refers", "denies"}]
Idle == [at |-> "idle", why |-> "none", pull |-> None, head |-> 0, merged |-> FALSE]

Jobs == [at : {"idle", "start", "gate", "verify", "merge", "confirm", "write", "release"},
         why : {"none", "agents", "merged"}, pull : Pull \cup {None}, head : 0..MaxHead,
         merged : BOOLEAN]

ClosureTypes ==
    /\ setup \in Setups
    /\ pull \in [Pull -> Pulls] /\ mirror \in [Pull -> Pulls]
    /\ queued \in [Pull -> 0..MaxHead] /\ landed \in [Pull -> 0..MaxHead]
    /\ event \subseteq Pull /\ seen \subseteq Pull /\ ready \subseteq Pull
    /\ advanced \subseteq Pull /\ verified \subseteq Pull \X Heads
    /\ issue \in {"open", "review", "closed"}
    /\ tracked \in BOOLEAN /\ again \in BOOLEAN
    /\ job \in Jobs
    /\ faults \in 0..MaxFaults

ClosureInit ==
    /\ setup \in Setups
    /\ pull \in [Pull -> {[state |-> "open", head |-> 1, approved |-> {}, green |-> {},
                           says |-> s] : s \in {"closes", "refers", "denies"}}]
    /\ mirror = pull
    /\ queued = [p \in Pull |-> 0] /\ landed = [p \in Pull |-> 0]
    /\ event = {} /\ issue = "open" /\ tracked = TRUE /\ again = FALSE
    /\ job = Idle /\ seen = {} /\ ready = {} /\ advanced = {} /\ verified = {}
    /\ faults = 0

Fault == faults < MaxFaults /\ faults' = faults + 1
NoFault == UNCHANGED faults

(***************************************************************************)
(* GitHub, and the people who use it.                                      *)
(***************************************************************************)
Outside == UNCHANGED <<setup, issue, tracked, again, job, readinessVars, advanced,
                       verified>>

Push(p) ==
    /\ pull[p].state \in {"open", "draft"} /\ pull[p].head < MaxHead
    /\ pull' = [pull EXCEPT ![p].head = @ + 1]
    /\ queued' = [queued EXCEPT ![p] = 0]
    /\ UNCHANGED <<mirror, event, landed, faults>> /\ Outside

Review(p) ==
    /\ pull[p].state = "open"
    /\ \/ pull' = [pull EXCEPT ![p].approved = @ \cup {pull[p].head}]
       \/ pull' = [pull EXCEPT ![p].green = @ \cup {pull[p].head}]
    /\ UNCHANGED <<mirror, queued, event, landed, faults>> /\ Outside

Decide(p) ==
    /\ pull[p].state \in {"open", "draft"}
    /\ \E s \in {"open", "draft", "merged", "closed"} \ {pull[p].state} :
         pull' = [pull EXCEPT ![p].state = s]
    /\ queued' = [queued EXCEPT ![p] = 0]
    /\ UNCHANGED <<mirror, event, landed, faults>> /\ Outside

\* A merge that was accepted as queued happens.
QueueMerges(p) ==
    /\ queued[p] # 0 /\ pull[p].state = "open"
    /\ landed' = [landed EXCEPT ![p] = queued[p]]
    /\ pull' = [pull EXCEPT ![p].state = "merged"]
    /\ queued' = [queued EXCEPT ![p] = 0]
    /\ UNCHANGED <<mirror, event, faults>> /\ Outside

\* The mounted copy catches up, and its change is an event.
Sync(p) ==
    /\ mirror[p] # pull[p]
    /\ mirror' = [mirror EXCEPT ![p] = pull[p]]
    /\ event' = event \cup {p}
    /\ UNCHANGED <<pull, queued, landed, faults>> /\ Outside

Redeliver(p) ==
    /\ p \notin event /\ mirror[p].state = "merged" /\ Fault
    /\ event' = event \cup {p}
    /\ UNCHANGED <<pull, mirror, queued, landed>> /\ Outside

(***************************************************************************)
(* #completeIssue.                                                         *)
(***************************************************************************)
ParksForReview == setup.review /\ job.why # "merged"

\* A refused gate of a Linear issue, an error, or the end of the work: the
\* finally of the completion drops what the babysitters had reported.
Leave(retry) ==
    /\ job' = Idle /\ again' = (again \/ retry) /\ ready' = {}

Goto(at) == job' = [job EXCEPT !.at = at] /\ UNCHANGED <<again, ready>>

\* A completion asked for while one runs is dropped.
Completes(why) ==
    IF job.at = "idle"
      THEN job' = [Idle EXCEPT !.at = "start", !.why = why]
      ELSE UNCHANGED job

\* The exits of the agents, the completion sweep, or a retry.
AgentsComplete ==
    /\ tracked /\ job.at = "idle" /\ (again \/ ~setup.babysat)
    /\ Completes("agents") /\ again' = FALSE
    /\ UNCHANGED <<setup, providerVars, issue, tracked, readinessVars, advanced,
                   verified, faults>>

\* #githubPrObservedMerged: the mounted meta of one pull request.
ObservedMerged(p) == mirror[p].state = "merged"

Observe ==
    /\ job.at = "start"
    /\ \/ Fault /\ Leave(TRUE)
       \/ /\ NoFault /\ UNCHANGED <<again, ready>>
          /\ \/ /\ ParksForReview \/ job.why = "merged"
                /\ job' = [job EXCEPT !.at = "write", !.merged = job.why = "merged"]
             \/ /\ ~ParksForReview /\ job.why # "merged" /\ setup.github
                /\ \E p \in Pull :
                     job' = [job EXCEPT !.merged = ObservedMerged(p),
                                        !.at = IF ~ObservedMerged(p) /\ setup.gated
                                                 THEN "gate" ELSE "write"]
             \/ /\ ~ParksForReview /\ job.why # "merged" /\ ~setup.github
                /\ job' = [job EXCEPT !.at = IF setup.gated THEN "gate" ELSE "write"]
    /\ UNCHANGED <<setup, providerVars, issue, tracked, seen, advanced, verified>>

\* The gate refuses: a GitHub issue is parked, a Linear issue is left as it is.
Refuses == IF setup.github THEN Goto("write") ELSE Leave(FALSE)

\* reviewAtHeadRefusal: somebody else reviewed the commit at the head.
ReviewedAtHead(p) == mirror[p].head \in mirror[p].approved

\* classifyCheckKind: some check of the head is real, and none blocks.
GreenAtHead(p) == mirror[p].head \in mirror[p].green

\* evaluateGithubMergeGate, on the mounted copy of one pull request.
MergeReady(p) == mirror[p].state = "open" /\ ReviewedAtHead(p) /\ GreenAtHead(p)

WaitForMergeReady ==
    /\ job.at = "gate"
    /\ \/ /\ NoFault
          /\ \E p \in Pull :
               IF MergeReady(p)
                 THEN /\ job' = [job EXCEPT !.at = "verify", !.pull = p,
                                            !.head = mirror[p].head]
                      /\ UNCHANGED <<again, ready>>
                 ELSE Refuses
       \/ Fault /\ Leave(TRUE)
    /\ UNCHANGED <<setup, providerVars, issue, tracked, seen, advanced, verified>>

Verify ==
    /\ job.at = "verify"
    /\ \/ verified' = verified \cup {<<job.pull, job.head>>} /\ Goto("merge")
       \/ Refuses /\ UNCHANGED verified
    /\ UNCHANGED <<setup, providerVars, issue, tracked, seen, advanced, faults>>

\* gh pr merge --match-head-commit: merges at once, or queues; its answer can
\* be lost.
Matches(p) == pull[p].state = "open" /\ pull[p].head = job.head

Merge ==
    LET p == job.pull IN
    /\ job.at = "merge"
    /\ \/ ~Matches(p) /\ NoFault /\ Refuses /\ UNCHANGED <<pull, queued, landed>>
       \/ /\ Matches(p)
          /\ \/ /\ pull' = [pull EXCEPT ![p].state = "merged"]
                /\ landed' = [landed EXCEPT ![p] = pull[p].head]
                /\ UNCHANGED queued
             \/ /\ queued' = [queued EXCEPT ![p] = pull[p].head]
                /\ UNCHANGED <<pull, landed>>
          /\ \/ NoFault /\ Goto("confirm")
             \/ Fault /\ Refuses
    /\ UNCHANGED <<setup, mirror, event, issue, tracked, seen, advanced, verified>>

\* Mutant of Confirm: the accepted command is taken for the merge.
ConfirmByCommand ==
    /\ job.at = "confirm"
    /\ job' = [job EXCEPT !.at = "write", !.merged = TRUE]
    /\ UNCHANGED <<setup, providerVars, issue, tracked, again, readinessVars, advanced,
                   verified, faults>>

\* Only the mounted state proves the merge of a GitHub issue's pull request.
Confirm ==
    /\ job.at = "confirm"
    /\ \E p \in Pull :
         job' = [job EXCEPT !.at = "write",
                            !.merged = IF setup.github THEN ObservedMerged(p) ELSE TRUE]
    /\ UNCHANGED <<setup, providerVars, issue, tracked, again, readinessVars, advanced,
                   verified, faults>>

\* The terminal writeback: a GitHub issue is closed when its merge is known.
Write ==
    /\ job.at = "write"
    /\ \/ Fault /\ Leave(TRUE) /\ UNCHANGED issue
       \/ /\ NoFault /\ Goto("release")
          /\ issue' = IF ParksForReview \/ (setup.github /\ ~job.merged)
                        THEN "review" ELSE "closed"
    /\ UNCHANGED <<setup, providerVars, tracked, seen, advanced, verified>>

Release ==
    /\ job.at = "release" /\ Leave(FALSE) /\ tracked' = FALSE
    /\ UNCHANGED <<setup, providerVars, issue, seen, advanced, verified, faults>>

(***************************************************************************)
(* #maybeAdvanceToHumanReview: the ready signal of a babysitter.           *)
(***************************************************************************)
ReadSignal(p) ==
    /\ tracked /\ setup.babysat /\ job.at = "idle"
    /\ mirror[p].state = "open" /\ seen' = seen \cup {p}
    /\ UNCHANGED <<setup, providerVars, issue, tracked, again, job, ready, advanced,
                   verified, faults>>

AddReady(p) ==
    /\ p \in seen /\ seen' = seen \ {p} /\ ready' = ready \cup {p}
    /\ IF tracked /\ ready' = Pull THEN Completes("agents") ELSE UNCHANGED job
    /\ UNCHANGED <<setup, providerVars, issue, tracked, again, advanced, verified, faults>>

(***************************************************************************)
(* #handlePrChange and #advanceMergedPrToDone.                             *)
(***************************************************************************)
\* An event that is not a merge takes the ready report back.
OtherEvent(p) ==
    /\ p \in event /\ mirror[p].state # "merged"
    /\ event' = event \ {p} /\ ready' = ready \ {p}
    /\ UNCHANGED <<setup, pull, mirror, queued, landed, issue, tracked, again, job, seen,
                   advanced, verified, faults>>

\* prBodyDisclaimsClosing.
Disclaims(p) == mirror[p].says = "denies"

\* The label of the issue is read, when it can be.
MergedWhileTracked(p) ==
    /\ p \in event /\ mirror[p].state = "merged" /\ tracked
    /\ event' = event \ {p}
    /\ \/ (Disclaims(p) \/ setup.labelled) /\ NoFault /\ UNCHANGED job
       \/ ~Disclaims(p) /\ ~setup.labelled /\ NoFault /\ Completes("merged")
       \/ ~Disclaims(p) /\ Fault /\ Completes("merged")
    /\ UNCHANGED <<setup, pull, mirror, queued, landed, issue, tracked, again,
                   readinessVars, advanced, verified>>

\* prClosureAuthority.
Authorised(p) == mirror[p].says = "closes"

\* #findMergeAdvanceIssueForPr finds an issue that is not finished.
Upstream == issue # "closed"

MergedWhileUntracked(p) ==
    /\ p \in event /\ mirror[p].state = "merged" /\ ~tracked
    /\ event' = event \ {p}
    /\ advanced' = IF Upstream /\ Authorised(p) /\ ~setup.labelled
                     THEN advanced \cup {p} ELSE advanced
    /\ UNCHANGED <<setup, pull, mirror, queued, landed, issue, tracked, again, job,
                   readinessVars, verified, faults>>

\* The write of an advance; one that fails may be tried again.
AdvanceWrites(p) ==
    /\ p \in advanced /\ issue # "closed"
    /\ \/ NoFault /\ issue' = "closed" /\ UNCHANGED advanced
       \/ Fault /\ advanced' = advanced \ {p} /\ UNCHANGED issue
    /\ UNCHANGED <<setup, providerVars, tracked, again, job, readinessVars, verified>>

Completion == AgentsComplete \/ Observe \/ WaitForMergeReady \/ Verify \/ Merge
                \/ Confirm \/ Write \/ Release

ClosureNext ==
    \/ Completion
    \/ \E p \in Pull : \/ Push(p) \/ Review(p) \/ Decide(p) \/ QueueMerges(p) \/ Sync(p)
                       \/ Redeliver(p) \/ ReadSignal(p) \/ AddReady(p) \/ OtherEvent(p)
                       \/ MergedWhileTracked(p) \/ MergedWhileUntracked(p)
                       \/ AdvanceWrites(p)

ClosureSpec == ClosureInit /\ [][ClosureNext]_closureVars

-----------------------------------------------------------------------------
(* Properties *)

(* A GitHub issue is closed only when one of its pull requests is merged,  *)
(* however late the mounted copy is and whatever a merge command answered. *)
ClosesOnlyMerged ==
    (setup.github /\ issue = "closed") => \E p \in Pull : pull[p].state = "merged"

(* What the gate merges is the head that was reviewed, green and verified, *)
(* whatever was pushed between the check and the merge.                    *)
MergedAsVerified ==
    \A p \in Pull : landed[p] # 0 =>
        /\ landed[p] \in pull[p].approved \cap pull[p].green
        /\ <<p, landed[p]>> \in verified

(* An issue is closed only for a pull request that was merged, as the head *)
(* that was verified.                                                      *)
ClosesWhatMerged == ClosesOnlyMerged /\ MergedAsVerified

=============================================================================
