---------------------------- MODULE DispatchClaim ----------------------------
(***************************************************************************)
(* The claim a dispatch writes to the issue after its agents are placed,   *)
(* against what races it in the same process: the completion of a fast     *)
(* agent, shutdown, the abandonment of a stuck dispatch, and whoever       *)
(* changes the issue.  A rejected claim is rolled back by the dispatch     *)
(* that wrote it; until it has said so, the agents are kept and the row    *)
(* of the work unit is blocked.                                            *)
(*                                                                         *)
(* One work unit, one process, from the moment its fences are armed.       *)
(***************************************************************************)
EXTENDS Naturals

CONSTANTS Durable,   \* placements outlive the process (durableOwnership)
          Attempts,  \* DISPATCH_WRITEBACK_MAX_ATTEMPTS for the claim
          MaxFaults  \* failing calls and changes by others

VARIABLES issue,     \* the state of the issue at the provider
          d, seen, tries, landed, claimed, verdict,  \* the dispatch
          fence, obs,                                \* its two post-spawn waits
          c, wb, confirmed,                          \* the completion
          mark,      \* the sets of keys this work unit is in
          block,     \* cancellationBlocked, cancellationPending of the record
          row,       \* and of the durable row
          stop, drains, abandon, lease, batch, agents, faults

dispatchVars == <<d, seen, tries, landed, claimed, verdict>>
fenceVars == <<fence, obs>>
completionVars == <<c, wb, confirmed>>
blockVars == <<mark, block, row>>
restVars == <<stop, drains, abandon, lease, batch, agents>>
claimVars == <<issue, dispatchVars, fenceVars, completionVars, blockVars, restVars, faults>>

Settled == {"none", "yes", "no"}
Over == {"done", "failed", "rejected"}

TypeOK ==
    /\ issue \in {"ready", "ours", "parked", "foreign"} /\ seen \in {"ready", "ours", "parked", "foreign"}
    /\ d \in Over \cup {"spawning", "reading", "readback", "awaiting", "rereading", "reread", "claiming",
                        "commenting", "saving", "publishing", "compensating", "settling"}
    /\ tries \in 0 .. Attempts /\ landed \in BOOLEAN /\ claimed \in BOOLEAN /\ verdict \in {"none", "ok", "bad"}
    /\ fence \in [boundary : BOOLEAN, started : BOOLEAN, accepted : Settled, rejection : Settled]
    /\ obs \in Settled
    /\ c \in [at : {"none", "gating", "waiting", "writing", "written", "observing", "done", "quit"},
              fence : BOOLEAN, obs : BOOLEAN]
    /\ wb \in {"none", "flying", "settled"} /\ confirmed \in BOOLEAN
    /\ mark \in [uncompensated : BOOLEAN, pending : BOOLEAN, settling : BOOLEAN, captured : BOOLEAN,
                 rejected : BOOLEAN]
    /\ block \in {"no", "pending", "blocked"} /\ row \in {"no", "pending", "blocked"}
    /\ stop \in {"no", "held", "draining", "persisting", "relinquishing", "exits", "releasing", "stopped", "refused"}
    /\ drains \in BOOLEAN /\ lease \in BOOLEAN /\ batch \in BOOLEAN /\ faults \in 0 .. MaxFaults
    /\ abandon \in {"no", "waiting", "checking", "releasing", "retry", "done"}
    /\ agents \in {"live", "completed", "stopped", "abandoned", "failed"}

Init ==
    /\ issue = "ready" /\ seen = "ready"
    /\ d = "spawning" /\ tries = 0 /\ landed = FALSE /\ claimed = FALSE /\ verdict = "none"
    /\ fence = [boundary |-> FALSE, started |-> FALSE, accepted |-> "none", rejection |-> "none"] /\ obs = "none"
    /\ c = [at |-> "none", fence |-> FALSE, obs |-> FALSE] /\ wb = "none" /\ confirmed = FALSE
    /\ mark = [uncompensated |-> FALSE, pending |-> FALSE, settling |-> FALSE, captured |-> FALSE, rejected |-> FALSE]
    /\ block = "no" /\ row = "no"
    /\ stop = "no" /\ drains = FALSE /\ abandon = "no" /\ lease = TRUE /\ batch = TRUE /\ agents = "live"
    /\ faults = 0

Faulty == faults < MaxFaults /\ faults' = faults + 1

-----------------------------------------------------------------------------
(* Settling the waits *)

Settle(v, new) == IF v = "none" THEN new ELSE v

SettleWaits(accepted, observed) ==
    /\ fence' = [fence EXCEPT !.accepted = Settle(@, accepted)]
    /\ obs' = Settle(obs, observed)

(* The provider call of a claim that has begun and is not settled.         *)
ClaimOpen == fence.started /\ fence.accepted = "none"

(* #settlePostSpawnDispatchWaits(key, false)                               *)
RejectWaits ==
    /\ SettleWaits("no", "no")
    /\ mark' = IF ClaimOpen THEN [mark EXCEPT !.uncompensated = TRUE, !.pending = TRUE] ELSE mark

-----------------------------------------------------------------------------
(* The dispatch *)

(* PostSpawnDispatchWaitRejectedError is caught; its result is persisted.  *)
Rejected(v) ==
    /\ d' = "settling" /\ verdict' = v
    /\ SettleWaits("no", "no")
    /\ mark' = [mark EXCEPT !.settling = TRUE, !.pending = FALSE]

(* Any other error.  Under a rejected fence it is a rejection: with a      *)
(* claim to roll back, or a claim whose outcome nobody knows.              *)
Fails(changed) ==
    IF fence.accepted = "no"
    THEN IF claimed THEN d' = "compensating" /\ UNCHANGED <<verdict, fenceVars, mark, batch, agents>>
         ELSE Rejected(IF fence.started THEN "bad" ELSE "ok") /\ UNCHANGED <<batch, agents>>
    ELSE /\ d' = "failed" /\ batch' = FALSE
         /\ agents' = IF agents = "live" THEN "failed" ELSE agents
         /\ SettleWaits("no", IF changed THEN "no" ELSE "yes")
         /\ UNCHANGED <<verdict, mark>>

Placed ==
    /\ d = "spawning" /\ d' = "reading"
    /\ UNCHANGED <<issue, seen, tries, landed, claimed, verdict, fenceVars, completionVars, blockVars, restVars, faults>>

SpawnFails ==
    /\ d = "spawning" /\ Faulty /\ Fails(FALSE)
    /\ UNCHANGED <<issue, seen, tries, landed, claimed, completionVars, block, row, stop, drains, abandon, lease>>

(* With what the issue showed: abort, go on without a claim because our    *)
(* own completion parked it, or claim.                                     *)
Decides ==
    IF seen # "ready"
    THEN IF confirmed THEN d' = "saving" /\ UNCHANGED <<verdict, fenceVars, mark, batch, agents>>
         ELSE Fails(TRUE)
    ELSE IF stop # "no" THEN Rejected("ok") /\ UNCHANGED <<batch, agents>>
    ELSE IF fence.accepted = "no"
    THEN /\ d' = "settling" /\ verdict' = "ok"
         /\ fence' = [fence EXCEPT !.started = TRUE] /\ obs' = Settle(obs, "no")
         /\ mark' = [mark EXCEPT !.settling = TRUE, !.pending = FALSE]
         /\ UNCHANGED <<batch, agents>>
    ELSE /\ d' = "claiming" /\ fence' = [fence EXCEPT !.started = TRUE]
         /\ UNCHANGED <<verdict, obs, mark, batch, agents>>

(* The issue as the mount shows it, some time before the read returns.     *)
Reads ==
    /\ d \in {"reading", "rereading"}
    /\ seen' = issue
    /\ d' = IF d = "reading" THEN "readback" ELSE "reread"
    /\ UNCHANGED <<issue, tries, landed, claimed, verdict, fenceVars, completionVars, blockVars, restVars, faults>>

ReadBack ==
    /\ d = "readback"
    /\ IF fence.boundary \/ (seen # "ready" /\ ~confirmed /\ wb = "flying")
       THEN d' = "awaiting" /\ UNCHANGED <<verdict, fenceVars, mark, batch, agents>>
       ELSE Decides
    /\ UNCHANGED <<issue, seen, tries, landed, claimed, completionVars, block, row, stop, drains, abandon, lease, faults>>

WritebackHeard ==
    /\ d = "awaiting" /\ wb # "flying"
    /\ d' = "rereading"
    /\ UNCHANGED <<issue, seen, tries, landed, claimed, verdict, fenceVars, completionVars, blockVars, restVars, faults>>

Reread ==
    /\ d = "reread" /\ Decides
    /\ UNCHANGED <<issue, seen, tries, landed, claimed, completionVars, block, row, stop, drains, abandon, lease, faults>>

(* The claim is an unconditional write, retried; each failure rebuilds the *)
(* claim of the record, without its block.                                 *)
ClaimLands ==
    /\ d = "claiming" /\ ~landed
    /\ landed' = TRUE /\ issue' = "ours"
    /\ UNCHANGED <<d, seen, tries, claimed, verdict, fenceVars, completionVars, blockVars, restVars, faults>>

ClaimReturns ==
    /\ d = "claiming" /\ landed
    /\ claimed' = TRUE
    /\ d' = IF fence.accepted = "no" THEN "compensating" ELSE "commenting"
    /\ UNCHANGED <<issue, seen, tries, landed, verdict, fenceVars, completionVars, blockVars, restVars, faults>>

ClaimFails ==
    /\ d = "claiming" /\ Faulty
    /\ block' = "no" /\ landed' = FALSE /\ tries' = tries + 1
    /\ IF tries + 1 = Attempts THEN Fails(FALSE) ELSE UNCHANGED <<d, verdict, fenceVars, mark, batch, agents>>
    /\ UNCHANGED <<issue, seen, claimed, completionVars, row, stop, drains, abandon, lease>>

(* The comment, the save as running, the notification and the thread: each *)
(* looks whether the fence was rejected meanwhile.                         *)
Advances(next) ==
    IF fence.accepted # "no" THEN d' = next /\ UNCHANGED <<verdict, fenceVars, mark>>
    ELSE IF claimed THEN d' = "compensating" /\ UNCHANGED <<verdict, fenceVars, mark>>
    ELSE Rejected("ok")

Commented ==
    /\ d = "commenting" /\ Advances("saving")
    /\ confirmed' = (confirmed \/ fence.accepted # "no")
    /\ UNCHANGED <<issue, seen, tries, landed, claimed, c, wb, block, row, restVars, faults>>

Saved ==
    /\ d = "saving"
    /\ IF lease \/ fence.accepted = "no" THEN Advances("publishing")
       ELSE d' = "done" /\ SettleWaits("yes", "yes") /\ UNCHANGED <<verdict, mark>>
    /\ UNCHANGED <<issue, seen, tries, landed, claimed, completionVars, block, row, restVars, faults>>

Published ==
    /\ d = "publishing"
    /\ IF fence.accepted = "no" THEN Advances("done")
       ELSE d' = "done" /\ SettleWaits("yes", "yes") /\ UNCHANGED <<verdict, mark>>
    /\ UNCHANGED <<issue, seen, tries, landed, claimed, completionVars, block, row, restVars, faults>>

CommentFails ==
    /\ d = "commenting" /\ Faulty
    /\ block' = "no"
    /\ \/ Fails(FALSE)
       \/ UNCHANGED <<d, verdict, fenceVars, mark, batch, agents>>
    /\ UNCHANGED <<issue, seen, tries, landed, claimed, completionVars, row, stop, drains, abandon, lease>>

StepFails ==
    /\ d \in {"saving", "publishing"} /\ Faulty /\ Fails(FALSE)
    /\ UNCHANGED <<issue, seen, tries, landed, claimed, completionVars, block, row, stop, drains, abandon, lease>>

(* The conditional rollback to ready; a successor's state stands.          *)
Compensates ==
    /\ d = "compensating" /\ Rejected("ok")
    /\ issue' = IF issue = "ours" THEN "ready" ELSE issue
    /\ UNCHANGED <<seen, tries, landed, claimed, completionVars, block, row, restVars, faults>>

CompensationFails ==
    /\ d = "compensating" /\ Faulty /\ Rejected("bad")
    /\ block' = "no"
    /\ UNCHANGED <<issue, seen, tries, landed, claimed, completionVars, row, restVars>>

(* #retainUncompensatedDispatchClaim                                       *)
Retain(kind) ==
    /\ mark' = [mark EXCEPT !.uncompensated = TRUE]
    /\ block' = kind
    /\ row' = IF lease THEN kind ELSE row

(* The result of the rejection is durable; what else stop and abandonment  *)
(* do, they do.                                                            *)
Settles ==
    LET saves == verdict = "bad" \/ block # "no" IN
    /\ d = "settling" /\ (lease \/ ~saves)
    /\ d' = "rejected"
    /\ fence' = [fence EXCEPT !.rejection = IF verdict = "ok" THEN "yes" ELSE "no"]
    /\ block' = IF verdict = "bad" THEN "blocked" ELSE "no"
    /\ row' = IF saves THEN block' ELSE row
    /\ mark' = [mark EXCEPT !.settling = FALSE, !.uncompensated = verdict = "bad",
                            !.rejected = verdict = "ok" /\ stop # "no" /\ ~mark.captured]
    /\ batch' = (batch /\ ~(verdict = "ok" /\ (stop = "no" \/ mark.captured)))
    /\ UNCHANGED <<issue, seen, tries, landed, claimed, verdict, obs, completionVars, stop, drains, abandon, lease,
                   agents, faults>>

SettlementLost ==
    /\ d = "settling" /\ (verdict = "bad" \/ block # "no")
    /\ IF lease THEN Faulty ELSE UNCHANGED faults
    /\ d' = "rejected"
    /\ block' = IF verdict = "bad" THEN "blocked" ELSE block
    /\ mark' = [mark EXCEPT !.settling = FALSE, !.pending = TRUE, !.uncompensated = TRUE]
    /\ UNCHANGED <<issue, seen, tries, landed, claimed, verdict, fenceVars, completionVars, row, restVars>>

-----------------------------------------------------------------------------
(* The completion of an agent that was fast *)

CompletionStarts ==
    /\ c.at = "none" /\ lease /\ batch /\ stop \in {"no", "held", "draining"}
    /\ c' = [at |-> "gating", fence |-> fence.accepted = "none", obs |-> obs = "none"]
    /\ UNCHANGED <<issue, dispatchVars, fenceVars, wb, confirmed, blockVars, restVars, faults>>

(* The provider-write boundary, published before any await.                *)
AtBoundary ==
    /\ c.at = "gating"
    /\ fence' = [fence EXCEPT !.boundary = @ \/ c.fence]
    /\ c' = [c EXCEPT !.at =
         IF ~c.fence \/ fence.accepted = "yes" \/ (~fence.started /\ fence.accepted = "none") THEN "writing"
         ELSE IF fence.accepted = "no" THEN "quit" ELSE "waiting"]
    /\ wb' = IF c'.at = "writing" THEN "flying" ELSE wb
    /\ UNCHANGED <<issue, dispatchVars, obs, confirmed, blockVars, restVars, faults>>

ClaimHeard ==
    /\ c.at = "waiting" /\ fence.accepted # "none"
    /\ c' = [c EXCEPT !.at = IF fence.accepted = "yes" THEN "writing" ELSE "quit"]
    /\ wb' = IF fence.accepted = "yes" THEN "flying" ELSE wb
    /\ UNCHANGED <<issue, dispatchVars, fenceVars, confirmed, blockVars, restVars, faults>>

TerminalLands ==
    /\ c.at = "writing"
    /\ c' = [c EXCEPT !.at = "written"] /\ issue' = "parked"
    /\ UNCHANGED <<dispatchVars, fenceVars, wb, confirmed, blockVars, restVars, faults>>

(* The receipt says whether the transition is ours.                        *)
TerminalReturns ==
    /\ c.at = "written"
    /\ c' = [c EXCEPT !.at = "observing"] /\ wb' = "settled"
    /\ \E applied \in BOOLEAN : confirmed' = (confirmed \/ applied)
    /\ UNCHANGED <<issue, dispatchVars, fenceVars, blockVars, restVars, faults>>

TerminalFails ==
    /\ c.at \in {"writing", "written"} /\ Faulty
    /\ c' = [c EXCEPT !.at = "quit"] /\ wb' = "settled"
    /\ UNCHANGED <<issue, dispatchVars, fenceVars, confirmed, blockVars, restVars>>

Completes ==
    /\ c.at = "observing" /\ (c.obs => obs # "none")
    /\ IF lease /\ ~(c.obs /\ obs = "no")
       THEN /\ c' = [c EXCEPT !.at = "done"] /\ batch' = FALSE
            /\ agents' = IF agents = "live" THEN "completed" ELSE agents
       ELSE c' = [c EXCEPT !.at = "quit"] /\ UNCHANGED <<batch, agents>>
    /\ UNCHANGED <<issue, dispatchVars, fenceVars, wb, confirmed, blockVars, stop, drains, abandon, lease, faults>>

-----------------------------------------------------------------------------
(* Others *)

Foreign ==
    /\ issue \in {"ready", "ours"} /\ Faulty
    /\ issue' = "foreign"
    /\ UNCHANGED <<dispatchVars, fenceVars, completionVars, blockVars, restVars>>

-----------------------------------------------------------------------------
(* Shutdown *)

StopBegins ==
    /\ stop = "no" /\ stop' = "held"
    /\ drains' = ClaimOpen
    /\ RejectWaits
    /\ UNCHANGED <<issue, dispatchVars, completionVars, block, row, abandon, lease, batch, agents, faults>>

(* The sweep of held agents is over; its retries are dropped.              *)
StopHeld ==
    /\ stop = "held" /\ abandon \in {"no", "retry", "done"}
    /\ stop' = "draining"
    /\ abandon' = IF abandon = "retry" THEN "no" ELSE abandon
    /\ UNCHANGED <<issue, dispatchVars, fenceVars, completionVars, blockVars, drains, lease, batch, agents, faults>>

(* #drainRejectedClaimDispatchesForStop; fleets whose placements survive   *)
(* do not wait for ever.                                                   *)
Drained ==
    /\ stop = "draining" /\ (Durable \/ ~drains \/ d \in Over)
    /\ stop' = "persisting"
    /\ UNCHANGED <<issue, dispatchVars, fenceVars, completionVars, blockVars, drains, abandon, lease, batch, agents, faults>>

(* #persistOutstandingClaimCancellationBlocks                              *)
PersistsBlocks ==
    /\ stop = "persisting"
    /\ IF batch /\ mark.pending
       THEN /\ Retain("pending")
            /\ IF lease \/ row = "pending" THEN stop' = "relinquishing" ELSE stop' = "refused"
       ELSE stop' = "relinquishing" /\ UNCHANGED blockVars
    /\ UNCHANGED <<issue, dispatchVars, fenceVars, completionVars, drains, abandon, lease, batch, agents, faults>>

(* #releaseOwnedDispatchLifecycleLeases with the unsettled claims kept.    *)
Relinquished == lease /\ (mark.pending \/ mark.settling)

Relinquishes ==
    /\ stop = "relinquishing" /\ stop' = "exits"
    /\ lease' = Relinquished
    /\ UNCHANGED <<issue, dispatchVars, fenceVars, completionVars, blockVars, drains, abandon, batch, agents, faults>>

(* #drainAgentExitsInFlight: a completion under way is awaited.            *)
ExitsDrained ==
    /\ stop = "exits" /\ c.at \in {"none", "done", "quit"}
    /\ stop' = "releasing"
    /\ UNCHANGED <<issue, dispatchVars, fenceVars, completionVars, blockVars, drains, abandon, lease, batch, agents, faults>>

(* #releaseInFlightAgents: placements that outlive the process are kept,   *)
(* those of a blocked claim too.                                           *)
StopReleases ==
    LET frees == batch /\ ~mark.uncompensated /\ block = "no" IN
    /\ stop = "releasing" /\ stop' = "stopped"
    /\ mark' = [mark EXCEPT !.captured = frees, !.rejected = @ /\ ~frees]
    /\ batch' = (batch /\ ~(frees /\ mark.rejected))
    /\ agents' = IF frees /\ ~Durable /\ agents = "live" THEN "stopped" ELSE agents
    /\ lease' = Relinquished
    /\ UNCHANGED <<issue, dispatchVars, fenceVars, completionVars, block, row, drains, abandon, faults>>

-----------------------------------------------------------------------------
(* Abandonment *)

AbandonBegins ==
    /\ abandon \in {"no", "retry"} /\ stop = "no" /\ batch
    /\ abandon' = IF ClaimOpen THEN "waiting" ELSE "checking"
    /\ RejectWaits
    /\ UNCHANGED <<issue, dispatchVars, completionVars, block, row, stop, drains, lease, batch, agents, faults>>

(* #awaitRejectedClaimCompensation: settled, or not in time.               *)
AbandonHears ==
    /\ abandon = "waiting" /\ fence.rejection = "yes"
    /\ abandon' = "checking"
    /\ UNCHANGED <<issue, dispatchVars, fenceVars, completionVars, blockVars, stop, drains, lease, batch, agents, faults>>

AbandonWaits ==
    /\ abandon = "waiting" /\ abandon' = "retry"
    /\ IF mark.pending THEN Retain("pending") ELSE UNCHANGED blockVars
    /\ UNCHANGED <<issue, dispatchVars, fenceVars, completionVars, stop, drains, lease, batch, agents, faults>>

(* Mutant: what the issue shows counts while the claim is not settled.     *)
ChecksProvider ==
    /\ abandon = "checking"
    /\ IF ~mark.uncompensated /\ block = "no" THEN abandon' = "releasing" /\ UNCHANGED blockVars
       ELSE IF issue = "ours" \/ ~lease THEN abandon' = "retry" /\ UNCHANGED blockVars
       ELSE /\ abandon' = "releasing"
            /\ mark' = [mark EXCEPT !.uncompensated = FALSE]
            /\ block' = "no" /\ row' = IF block = "no" THEN row ELSE "no"
    /\ UNCHANGED <<issue, dispatchVars, fenceVars, completionVars, stop, drains, lease, batch, agents, faults>>

(* #dispatchClaimBlocksAbandonment                                         *)
Checks ==
    /\ abandon = "checking"
    /\ IF ~mark.uncompensated /\ block = "no" THEN abandon' = "releasing" /\ UNCHANGED blockVars
       ELSE IF block = "pending" \/ issue = "ours" \/ ~lease THEN abandon' = "retry" /\ UNCHANGED blockVars
       ELSE /\ abandon' = "releasing"
            /\ mark' = [mark EXCEPT !.uncompensated = FALSE]
            /\ block' = "no" /\ row' = IF block = "no" THEN row ELSE "no"
    /\ UNCHANGED <<issue, dispatchVars, fenceVars, completionVars, stop, drains, lease, batch, agents, faults>>

AbandonReleases ==
    /\ abandon = "releasing"
    /\ IF lease THEN /\ abandon' = "done" /\ batch' = FALSE
                     /\ agents' = IF agents = "live" THEN "abandoned" ELSE agents
       ELSE abandon' = "retry" /\ UNCHANGED <<batch, agents>>
    /\ UNCHANGED <<issue, dispatchVars, fenceVars, completionVars, blockVars, stop, drains, lease, faults>>

-----------------------------------------------------------------------------

DispatchStep ==
    \/ Reads \/ ReadBack \/ WritebackHeard \/ Reread \/ ClaimLands \/ ClaimReturns
    \/ Commented \/ Saved \/ Published \/ Compensates \/ Settles \/ SettlementLost
CompletionStep == AtBoundary \/ ClaimHeard \/ TerminalLands \/ TerminalReturns \/ Completes
StopStep == StopHeld \/ Drained \/ PersistsBlocks \/ Relinquishes \/ ExitsDrained \/ StopReleases
AbandonStep == AbandonHears \/ AbandonWaits \/ Checks \/ AbandonReleases

ClaimNext ==
    \/ Placed \/ DispatchStep \/ SpawnFails \/ ClaimFails \/ CommentFails \/ StepFails \/ CompensationFails
    \/ CompletionStarts \/ CompletionStep \/ TerminalFails \/ Foreign
    \/ StopBegins \/ StopStep \/ AbandonBegins \/ AbandonStep

-----------------------------------------------------------------------------
(* Properties *)

(* The agents of a rejected dispatch are released, by shutdown or by       *)
(* abandonment, only when its claim is gone and cannot land any more: if   *)
(* the claim needed one attempt.                                           *)
FirstClaimGone ==
    tries = 0 /\ agents \in {"stopped", "abandoned"} /\ fence.accepted = "no" =>
        issue # "ours" /\ d # "claiming"

(* A shutdown that goes on without a claim's outcome leaves a row, unless a *)
(* completion closed it, whose successor knows that the claim may land.    *)
StopLeavesFence ==
    stop = "stopped" /\ c.at # "done" /\ fence.accepted = "no" /\ d \in {"claiming", "compensating"} => row # "no"

(* The claim never drags an issue back that a completion which began before *)
(* the claim was rejected has parked.                                      *)
FencedCompletionStands == c.fence /\ issue = "parked" => issue' # "ours"

(* Shutdown ends, whatever the dispatch and its completion wait for.       *)
StopOver == stop \in {"no", "stopped", "refused"}

=============================================================================
