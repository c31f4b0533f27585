--------------------------- MODULE FleetPlacements ---------------------------
(***************************************************************************)
(* One worker name in the hosted fleet: RelayFleetClient's placements and  *)
(* releases under it.                                                      *)
(*                                                                         *)
(* A placement first provisions a sandbox, then asks Relay to launch the   *)
(* worker there.  Every call has one budget; giving up on a call does not  *)
(* cancel it, so what it still brings about is compensated: a sandbox that *)
(* comes up late, a worker whose placement is accepted late.  A release    *)
(* that fails is kept in #tracked and retried.  Worker names are the same  *)
(* for every attempt at a work unit, and Relay refuses to launch a name    *)
(* that is taken.                                                          *)
(*                                                                         *)
(* The engine is external.  What is assumed of it: a refused placement     *)
(* launches nothing; a node takes up what it is sent in order, so that a   *)
(* release does not overtake the placement it is meant for; a worker is    *)
(* online within the registration grace.                                   *)
(***************************************************************************)
EXTENDS FiniteSets, Naturals

CONSTANTS Call,    \* calls of spawn, all under one name, each with its sandbox
          Retry,   \* the reconciliation loop, as the origin of a release
          Asked,   \* Factory, as the origin of a release
          Overlaps,\* Factory may go on while the compensation of the last call is under way
          Troubles \* bound: timeouts, refusals, failures, exits and releases asked for

VARIABLES spawns,   \* where each call stands
          sandbox,  \* its sandbox
          placement,\* its placement at the engine
          late,     \* calls whose compensation still waits for the abandoned placement
          worker,   \* the call whose worker runs under the name
          tracked,  \* #tracked of the name
          releases, \* per origin: the release under way
          strays,   \* releases nobody waits for that the engine may still carry out
          troubles  \* those of Troubles so far

placementVars == <<spawns, sandbox, placement, late, worker, tracked, releases, strays, troubles>>

(* The origin of a compensating release is the call it makes up for.       *)
Origin == Call \union {Retry, Asked}

Untracked == [call |-> {}, pending |-> FALSE]
Tracked(c) == [call |-> {c}, pending |-> FALSE]
PendingRelease(c) == [call |-> {c}, pending |-> TRUE]

TypeOK ==
    /\ spawns \in [Call -> {"idle", "provision", "place", "poll", "verify", "unwind", "placed", "failed", "lost"}]
    /\ sandbox \in [Call -> {"none", "asked", "up", "released"}]
    /\ placement \in [Call -> {"none", "sent", "accepted", "launched", "refused"}]
    /\ late \subseteq Call /\ worker \subseteq Call /\ Cardinality(worker) <= 1
    /\ tracked \in [call : SUBSET Call, pending : BOOLEAN] /\ Cardinality(tracked.call) <= 1
    /\ releases \in [Origin -> {"none", "invoked", "executed"}]
    /\ strays \in 0 .. Troubles /\ troubles \in 0 .. Troubles

Trouble == troubles < Troubles /\ troubles' = troubles + 1

(* No compensation is under way.                                           *)
Settled == late = {} /\ strays = 0 /\ ~tracked.pending /\ \A o \in Origin : releases[o] = "none"

Busy == \E c \in Call : spawns[c] \notin {"idle", "placed", "failed", "lost"}

Init ==
    /\ spawns = [c \in Call |-> "idle"] /\ sandbox = [c \in Call |-> "none"]
    /\ placement = [c \in Call |-> "none"] /\ late = {} /\ worker = {}
    /\ tracked = Untracked /\ releases = [o \in Origin |-> "none"] /\ strays = 0 /\ troubles = 0

-----------------------------------------------------------------------------
(* The engine *)

(* Accepted, or refused: for want of a node or because the name is taken.  *)
Accepts(c) ==
    /\ placement[c] = "sent"
    /\ \/ placement' = [placement EXCEPT ![c] = "accepted"] /\ UNCHANGED troubles
       \/ Trouble /\ placement' = [placement EXCEPT ![c] = "refused"]
    /\ UNCHANGED <<spawns, sandbox, late, worker, tracked, releases, strays>>

Launches(c) ==
    /\ placement[c] = "accepted"
    /\ \/ /\ worker = {} /\ worker' = {c}
          /\ placement' = [placement EXCEPT ![c] = "launched"] /\ UNCHANGED troubles
       \/ /\ worker # {} /\ placement' = [placement EXCEPT ![c] = "refused"]
          /\ UNCHANGED <<worker, troubles>>
       \/ Trouble /\ placement' = [placement EXCEPT ![c] = "refused"] /\ UNCHANGED worker
    /\ UNCHANGED <<spawns, sandbox, late, tracked, releases, strays>>

(* A release tears down whoever holds the name.                            *)
TearsDown(o) ==
    /\ releases[o] = "invoked" /\ \A c \in Call : placement[c] # "accepted"
    /\ worker' = {} /\ releases' = [releases EXCEPT ![o] = "executed"]
    /\ UNCHANGED <<spawns, sandbox, placement, late, tracked, strays, troubles>>

StrayLands ==
    /\ strays > 0
    /\ worker' = {} /\ strays' = strays - 1
    /\ UNCHANGED <<spawns, sandbox, placement, late, tracked, releases, troubles>>

Exits ==
    /\ worker # {}
    /\ Trouble
    /\ worker' = {}
    /\ UNCHANGED <<spawns, sandbox, placement, late, tracked, releases, strays>>

-----------------------------------------------------------------------------
(* spawn *)

Begin(c) ==
    /\ spawns[c] = "idle" /\ ~Busy /\ releases[Asked] = "none"
    /\ Overlaps \/ Settled
    /\ spawns' = [spawns EXCEPT ![c] = "provision"] /\ sandbox' = [sandbox EXCEPT ![c] = "asked"]
    /\ UNCHANGED <<placement, late, worker, tracked, releases, strays, troubles>>

(* The sandbox is up and the placement is sent to it.                      *)
Provisioned(c) ==
    /\ spawns[c] = "provision" /\ sandbox[c] = "asked"
    /\ spawns' = [spawns EXCEPT ![c] = "place"]
    /\ sandbox' = [sandbox EXCEPT ![c] = "up"] /\ placement' = [placement EXCEPT ![c] = "sent"]
    /\ UNCHANGED <<late, worker, tracked, releases, strays, troubles>>

(* The bootstrap or the provision fails, or no time is left for it: a      *)
(* sandbox that comes up nevertheless is released.                         *)
ProvisionFails(c) ==
    /\ spawns[c] = "provision"
    /\ Trouble
    /\ spawns' = [spawns EXCEPT ![c] = "failed"]
    /\ sandbox' = [sandbox EXCEPT ![c] = IF @ = "asked" THEN "released" ELSE @]
    /\ UNCHANGED <<placement, late, worker, tracked, releases, strays>>

(* The answer comes with the confirmation of the launch, or without it.    *)
Answered(c) ==
    /\ spawns[c] = "place"
    /\ \/ placement[c] = "launched" /\ spawns' = [spawns EXCEPT ![c] = "verify"]
       \/ placement[c] \in {"accepted", "launched"} /\ spawns' = [spawns EXCEPT ![c] = "poll"]
    /\ UNCHANGED <<sandbox, placement, late, worker, tracked, releases, strays, troubles>>

Refused(c) ==
    /\ spawns[c] = "place" /\ placement[c] = "refused"
    /\ spawns' = [spawns EXCEPT ![c] = "failed"] /\ sandbox' = [sandbox EXCEPT ![c] = "released"]
    /\ UNCHANGED <<placement, late, worker, tracked, releases, strays, troubles>>

(* The wait is given up, the placement is not: its outcome is waited for   *)
(* in the background.                                                      *)
Abandon(c) ==
    /\ spawns[c] = "place"
    /\ Trouble
    /\ spawns' = [spawns EXCEPT ![c] = "failed"] /\ late' = late \union {c}
    /\ UNCHANGED <<sandbox, placement, worker, tracked, releases, strays>>

(* Tracked before it is released: a failed release is retried.             *)
LatePlacement(c) ==
    /\ tracked' = PendingRelease(c) /\ releases' = [releases EXCEPT ![c] = "invoked"]

AbandonedEnds(c) ==
    /\ c \in late
    /\ late' = late \ {c}
    /\ \/ /\ placement[c] = "refused" /\ sandbox' = [sandbox EXCEPT ![c] = "released"]
          /\ UNCHANGED <<tracked, releases>>
       \/ placement[c] \in {"accepted", "launched"} /\ LatePlacement(c) /\ UNCHANGED sandbox
    /\ UNCHANGED <<spawns, placement, worker, strays, troubles>>

(* The invocation is read until it is terminal or the budget is spent.     *)
(* Failing here gives the sandbox back to nobody.                          *)
Polled(c) ==
    /\ spawns[c] = "poll"
    /\ \/ placement[c] = "launched" /\ spawns' = [spawns EXCEPT ![c] = "verify"]
       \/ placement[c] = "refused" /\ spawns' = [spawns EXCEPT ![c] = "failed"]
    /\ UNCHANGED <<sandbox, placement, late, worker, tracked, releases, strays, troubles>>

PollTimesOut(c) ==
    /\ spawns[c] = "poll"
    /\ Trouble
    /\ spawns' = [spawns EXCEPT ![c] = "unwind"]
    /\ LatePlacement(c)
    /\ UNCHANGED <<sandbox, placement, late, worker, strays>>

(* A read that fails is thrown as it is: no compensation follows.          *)
PollUnreadable(c) ==
    /\ spawns[c] = "poll"
    /\ Trouble
    /\ spawns' = [spawns EXCEPT ![c] = "lost"]
    /\ UNCHANGED <<sandbox, placement, late, worker, tracked, releases, strays>>

Adopt(c) ==
    /\ spawns[c] = "verify"
    /\ spawns' = [spawns EXCEPT ![c] = "placed"] /\ tracked' = Tracked(c)
    /\ UNCHANGED <<sandbox, placement, late, worker, releases, strays, troubles>>

(* Relay acknowledged this very node: the worker is torn down.             *)
Unverified(c) ==
    /\ spawns[c] = "verify"
    /\ Trouble
    /\ spawns' = [spawns EXCEPT ![c] = "unwind"] /\ releases' = [releases EXCEPT ![c] = "invoked"]
    /\ UNCHANGED <<sandbox, placement, late, worker, tracked, strays>>

-----------------------------------------------------------------------------
(* release *)

Unwound(o) == IF o \in Call /\ spawns[o] = "unwind" THEN [spawns EXCEPT ![o] = "failed"] ELSE spawns

(* A release that is confirmed makes the client forget the name.           *)
ReleaseConfirmed(o) ==
    /\ releases[o] = "executed"
    /\ releases' = [releases EXCEPT ![o] = "none"] /\ tracked' = Untracked /\ spawns' = Unwound(o)
    /\ UNCHANGED <<sandbox, placement, late, worker, strays, troubles>>

(* A release that fails or is not answered may still be carried out.  One  *)
(* that unwinds an unverified placement is kept for a retry.               *)
ReleaseFails(o) ==
    /\ releases[o] # "none"
    /\ Trouble
    /\ releases' = [releases EXCEPT ![o] = "none"] /\ spawns' = Unwound(o)
    /\ IF releases[o] = "invoked" THEN strays' \in {strays, strays + 1} ELSE UNCHANGED strays
    /\ tracked' = IF o \in Call /\ spawns[o] = "unwind" THEN PendingRelease(o) ELSE tracked
    /\ UNCHANGED <<sandbox, placement, late, worker>>

(* The loop retries what is pending, or reports the exit of a name that is *)
(* not online any more.                                                    *)
Retries ==
    /\ tracked.pending /\ releases[Retry] = "none"
    /\ releases' = [releases EXCEPT ![Retry] = "invoked"]
    /\ UNCHANGED <<spawns, sandbox, placement, late, worker, tracked, strays, troubles>>

ReportsExit ==
    /\ tracked.call # {} /\ worker = {} /\ \A c \in tracked.call : placement[c] # "accepted"
    /\ tracked' = Untracked
    /\ UNCHANGED <<spawns, sandbox, placement, late, worker, releases, strays, troubles>>

(* Factory is done with the worker, or cleans up after a failed spawn.     *)
AsksRelease ==
    /\ ~Busy /\ releases[Asked] = "none"
    /\ Overlaps \/ Settled
    /\ Trouble
    /\ releases' = [releases EXCEPT ![Asked] = "invoked"]
    /\ UNCHANGED <<spawns, sandbox, placement, late, worker, tracked, strays>>

-----------------------------------------------------------------------------

ClientStep(c) ==
    Provisioned(c) \/ Answered(c) \/ Refused(c) \/ AbandonedEnds(c) \/ Polled(c) \/ Adopt(c)

PlacementNext ==
    \/ \E c \in Call :
          \/ Begin(c) \/ ClientStep(c) \/ Accepts(c) \/ Launches(c) \/ ProvisionFails(c)
          \/ Abandon(c) \/ PollTimesOut(c) \/ PollUnreadable(c) \/ Unverified(c)
    \/ \E o \in Origin : TearsDown(o) \/ ReleaseConfirmed(o) \/ ReleaseFails(o)
    \/ StrayLands \/ Exits \/ Retries \/ ReportsExit \/ AsksRelease

-----------------------------------------------------------------------------
(* Properties *)

(* The sandbox under a worker is not released as unused.                   *)
WorkerKeepsSandbox == \A c \in worker : sandbox[c] = "up"

(* A worker whose spawn was reported as failed does not stay, if its       *)
(* invocation could be read and nothing else was asked of the name before  *)
(* the compensation was over.                                              *)
NoFailedWorker == \A c \in worker : spawns[c] # "failed"

=============================================================================
