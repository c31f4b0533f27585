--------------------------- MODULE DiscoverySweep ---------------------------
(***************************************************************************)
(* The leader lease of the discovery sweep.                                *)
(*                                                                         *)
(* One process at a time sweeps a workspace for ready issues, under a      *)
(* lease with a fencing epoch in the state store, and commits what it saw  *)
(* as the checkpoint the next sweep starts from.  A sweep runs under one   *)
(* budget: when that is spent the process abandons whatever it awaits, but *)
(* the abandoned call goes on and takes effect whenever the store gets to  *)
(* it.  This module models the store's five operations, the queue of calls *)
(* a process has handed to the store, the sweep from claim to teardown,    *)
(* its renewal timer, back-off, overload count, budget expiry and crashes. *)
(***************************************************************************)
EXTENDS Integers, Sequences

LOCAL INSTANCE TLC

CONSTANTS Proc,         \* factory processes
          LeaseTerm,    \* DISCOVERY_SWEEP_LEASE_MS in renewal periods
          MaxLag,       \* how far behind a caller's clock may run
          MaxBackoff,   \* the longest overload back-off, in periods
          MaxOverloads, \* bound: overloads counted
          MaxEpoch,     \* bound: claims granted
          MaxCalls,     \* bound: calls a process may have queued
          StoreFails    \* a store call may fail as well as hang

ASSUME SizesAssumption ==
    /\ LeaseTerm \in Nat \ {0}
    /\ MaxLag \in Nat
    /\ {MaxBackoff, MaxOverloads, MaxEpoch, MaxCalls} \subseteq Nat
    /\ StoreFails \in BOOLEAN

VARIABLES store,      \* the durable sweep state
          calls,      \* per process: store calls in order, the first being served
          stage,      \* where the process's sweep stands
          sweeps,     \* #discoverySweepEpoch, 0 when no sweep is under way
          claimed,    \* checkpoint and overload count the sweep started from
          outcome,    \* the overload outcome to persist, if any
          leaseLost,  \* #discoverySweepLeaseLost
          renewTimer, \* #discoverySweepRenewTimer is set
          alive       \* processes that have not crashed

vars == <<store, calls, stage, sweeps, claimed, outcome, leaseLost, renewTimer, alive>>

-----------------------------------------------------------------------------
(* Types *)

NoLease == [owner |-> "none", epoch |-> 0, ttl |-> 0]
Lease == [owner : Proc, epoch : Nat \ {0}, ttl : -MaxLag .. LeaseTerm]

Store == [lease : Lease \union {NoLease}, lastEpoch : Nat, backoff : 0 .. MaxBackoff,
          overloads : 0 .. MaxOverloads, checkpoint : Nat]

(* What a sweep carries between its calls.  A checkpoint is named by the   *)
(* epoch of the sweep that committed it.                                   *)
Claimed == [checkpoint : Nat, overloads : 0 .. MaxOverloads]
Outcome == [overloads : 0 .. MaxOverloads, backoff : 0 .. MaxBackoff]
Calm == [overloads |-> 0, backoff |-> 0]

Op == {"claim", "renew", "complete", "defer", "release"}
Call == [op : Op, epoch : Nat, base : Claimed, outcome : Outcome, saves : BOOLEAN,
         waited : BOOLEAN, answer : {"none", "yes", "no", "backoff", "error"}]

Stage == {"idle", "claiming", "waiting", "reclaiming", "running", "settling",
          "committing", "unwinding", "deferring", "releasing"}

TypeOK ==
    /\ store \in Store
    /\ calls \in [Proc -> Seq(Call)]
    /\ stage \in [Proc -> Stage]
    /\ sweeps \in [Proc -> Nat]
    /\ claimed \in [Proc -> Claimed]
    /\ outcome \in [Proc -> Outcome]
    /\ leaseLost \in [Proc -> BOOLEAN]
    /\ renewTimer \in [Proc -> BOOLEAN]
    /\ alive \in SUBSET Proc

-----------------------------------------------------------------------------
(* The store *)

Held(lag) == store.lease # NoLease /\ store.lease.ttl + lag > 0

(* Mutant: releases and commits are matched by owner alone. *)
MatchesOwner(p, e) == store.lease.owner = p

(* Mutant: a sweep state nobody holds takes any commit. *)
MatchesOrFree(p, e) ==
    store.lease = NoLease \/ (store.lease.owner = p /\ store.lease.epoch = e)

(* discoveryLeaseMatches *)
Matches(p, e) == store.lease.owner = p /\ store.lease.epoch = e

Grant(p, lag) ==
    [store EXCEPT !.lastEpoch = @ + 1,
                  !.lease = [owner |-> p, epoch |-> store.lastEpoch + 1,
                             ttl |-> LeaseTerm - lag]]

(* The file store also reclaims a live lease whose owner's process is gone; *)
(* it cannot tell when the pid has been reused, and the in-memory store     *)
(* does not look.                                                           *)
Reclaimable(p) == store.lease.owner \notin alive \union {p}

Answered(c, answer) == [c EXCEPT !.answer = answer]

ServeClaim(p, c, lag) ==
    \/ /\ store.backoff > 0
       /\ store' = store
       /\ calls' = [calls EXCEPT ![p][1] = Answered(c, "backoff")]
    \/ /\ store.backoff = 0
       /\ ~Held(lag) \/ Reclaimable(p)
       /\ store.lastEpoch < MaxEpoch
       /\ store' = Grant(p, lag)
       /\ calls' = [calls EXCEPT ![p][1] =
              [Answered(c, "yes") EXCEPT
                  !.epoch = store.lastEpoch + 1,
                  !.base = [checkpoint |-> store.checkpoint,
                            overloads |-> store.overloads]]]
    \/ /\ store.backoff = 0
       /\ Held(lag) \/ store.lastEpoch = MaxEpoch
       /\ store' = store
       /\ calls' = [calls EXCEPT ![p][1] = Answered(c, "no")]

ServeRenewal(p, c, lag) ==
    IF Matches(p, c.epoch) /\ Held(lag)
    THEN /\ store' = [store EXCEPT !.lease.ttl = LeaseTerm - lag]
         /\ calls' = [calls EXCEPT ![p][1] = Answered(c, "yes")]
    ELSE /\ store' = store
         /\ calls' = [calls EXCEPT ![p][1] = Answered(c, "no")]

(* complete, defer and release are fenced by owner and epoch, not by time. *)
(* A sweep that could not read a watermark completes without a checkpoint  *)
(* and the last good one is kept.                                          *)
Settled(c) ==
    CASE c.op = "complete" ->
           [store EXCEPT !.lease = NoLease, !.overloads = c.outcome.overloads,
                         !.backoff = c.outcome.backoff,
                         !.checkpoint = IF c.saves THEN c.epoch ELSE @]
      [] c.op = "defer" ->
           [store EXCEPT !.lease = NoLease, !.overloads = c.outcome.overloads,
                         !.backoff = c.outcome.backoff]
      [] c.op = "release" -> [store EXCEPT !.lease = NoLease]

ServeSettlement(p, c) ==
    IF Matches(p, c.epoch)
    THEN store' = Settled(c) /\ calls' = [calls EXCEPT ![p][1] = Answered(c, "yes")]
    ELSE store' = store /\ calls' = [calls EXCEPT ![p][1] = Answered(c, "no")]

(* The lock or the file cannot be had: nothing is changed. *)
ServeFails(p, c) ==
    StoreFails /\ store' = store /\ calls' = [calls EXCEPT ![p][1] = Answered(c, "error")]

(* #exclusive runs a process's calls one after another; #withMutationLock  *)
(* makes each one atomic among processes.                                  *)
Serve(p) ==
    LET c == Head(calls[p]) IN
    /\ p \in alive
    /\ calls[p] # <<>>
    /\ c.answer = "none"
    /\ \/ c.op = "claim" /\ \E lag \in 0 .. MaxLag : ServeClaim(p, c, lag)
       \/ c.op = "renew" /\ \E lag \in 0 .. MaxLag : ServeRenewal(p, c, lag)
       \/ c.op \notin {"claim", "renew"} /\ ServeSettlement(p, c)
       \/ ServeFails(p, c)
    /\ UNCHANGED <<stage, sweeps, claimed, outcome, leaseLost, renewTimer, alive>>

-----------------------------------------------------------------------------
(* A process's side of a call *)

NewCall(p, op, epoch) ==
    [op |-> op, epoch |-> epoch, base |-> claimed[p], outcome |-> outcome[p],
     saves |-> FALSE, waited |-> TRUE, answer |-> "none"]

Send(p, c) == calls' = [calls EXCEPT ![p] = Append(@, c)]

(* The wait for the calls under way is given up; the calls are not. *)
Unawaited(p) == [i \in DOMAIN calls[p] |-> [calls[p][i] EXCEPT !.waited = FALSE]]

Received(p, op) ==
    /\ p \in alive
    /\ calls[p] # <<>>
    /\ Head(calls[p]).op = op
    /\ Head(calls[p]).answer # "none"

Awaited(p, op) == Received(p, op) /\ Head(calls[p]).waited

Drop(p) == calls' = [calls EXCEPT ![p] = Tail(@)]

Renewing(p) == \E i \in DOMAIN calls[p] : calls[p][i].op = "renew"

Enter(p, s) == stage' = [stage EXCEPT ![p] = s]

-----------------------------------------------------------------------------
(* The sweep *)

Init ==
    /\ store = [lease |-> NoLease, lastEpoch |-> 0, backoff |-> 0, overloads |-> 0,
                checkpoint |-> 0]
    /\ calls = [p \in Proc |-> <<>>]
    /\ stage = [p \in Proc |-> "idle"]
    /\ sweeps = [p \in Proc |-> 0]
    /\ claimed = [p \in Proc |-> [checkpoint |-> 0, overloads |-> 0]]
    /\ outcome = [p \in Proc |-> Calm]
    /\ leaseLost = [p \in Proc |-> FALSE]
    /\ renewTimer = [p \in Proc |-> FALSE]
    /\ alive = Proc

Aged ==
    IF store.lease = NoLease \/ store.lease.ttl = -MaxLag THEN store.lease
    ELSE [store.lease EXCEPT !.ttl = @ - 1]

(* One renewal period passes. *)
Tick ==
    /\ store' = [store EXCEPT !.lease = Aged, !.backoff = IF @ = 0 THEN 0 ELSE @ - 1]
    /\ UNCHANGED <<calls, stage, sweeps, claimed, outcome, leaseLost, renewTimer, alive>>

(* runOnce coalesces overlapping requests: one sweep a process. *)
Begin(p) ==
    /\ p \in alive
    /\ stage[p] = "idle"
    /\ Len(calls[p]) < MaxCalls
    /\ Enter(p, "claiming")
    /\ Send(p, NewCall(p, "claim", 0))
    /\ UNCHANGED <<store, sweeps, claimed, outcome, leaseLost, renewTimer, alive>>

(* A granted claim starts the sweep and its renewal timer; the first       *)
(* refusal for back-off is waited out, any other one ends the sweep.       *)
ClaimReceived(p) ==
    LET c == Head(calls[p]) IN
    /\ Awaited(p, "claim")
    /\ Drop(p)
    /\ \/ /\ c.answer = "yes"
          /\ Enter(p, "running")
          /\ sweeps' = [sweeps EXCEPT ![p] = c.epoch]
          /\ claimed' = [claimed EXCEPT ![p] = c.base]
          /\ outcome' = [outcome EXCEPT ![p] = Calm]
          /\ leaseLost' = [leaseLost EXCEPT ![p] = FALSE]
          /\ renewTimer' = [renewTimer EXCEPT ![p] = TRUE]
       \/ /\ c.answer # "yes"
          /\ Enter(p, IF c.answer = "backoff" /\ stage[p] = "claiming"
                      THEN "waiting" ELSE "idle")
          /\ UNCHANGED <<sweeps, claimed, outcome, leaseLost, renewTimer>>
    /\ UNCHANGED <<store, alive>>

(* A claim granted after its sweep gave up is handed back. *)
LateClaim(p) ==
    LET c == Head(calls[p]) IN
    /\ Received(p, "claim")
    /\ ~c.waited
    /\ calls' = [calls EXCEPT ![p] =
           IF c.answer = "yes" THEN Append(Tail(@), [NewCall(p, "release", c.epoch)
                                                        EXCEPT !.waited = FALSE])
           ELSE Tail(@)]
    /\ UNCHANGED <<store, stage, sweeps, claimed, outcome, leaseLost, renewTimer, alive>>

BackoffOver(p) ==
    /\ p \in alive
    /\ stage[p] = "waiting"
    /\ Enter(p, "reclaiming")
    /\ Send(p, NewCall(p, "claim", 0))
    /\ UNCHANGED <<store, sweeps, claimed, outcome, leaseLost, renewTimer, alive>>

RenewSend(p) ==
    /\ p \in alive
    /\ renewTimer[p]
    /\ ~Renewing(p)
    /\ ~leaseLost[p]
    /\ Send(p, NewCall(p, "renew", sweeps[p]))
    /\ UNCHANGED <<store, stage, sweeps, claimed, outcome, leaseLost, renewTimer, alive>>

RenewReceived(p) ==
    LET c == Head(calls[p]) IN
    /\ Received(p, "renew")
    /\ Drop(p)
    /\ leaseLost' = [leaseLost EXCEPT ![p] =
           @ \/ (c.answer = "no" /\ sweeps[p] = c.epoch)]
    /\ UNCHANGED <<store, stage, sweeps, claimed, outcome, renewTimer, alive>>

(* Mutant: the count is lowered below zero. *)
OverloadOutcomeUnfloored(p, progress) ==
    LET n == claimed[p].overloads IN
    [overloads |-> IF progress THEN n - 1 ELSE IF n < MaxOverloads THEN n + 1 ELSE n,
     backoff |-> MaxBackoff]

(* #discoveryOverloadOutcome: a sweep that got work done while it was shed *)
(* lowers the count by one, another one raises it.                         *)
OverloadOutcome(p, progress) ==
    LET n == claimed[p].overloads IN
    [overloads |-> IF progress THEN (IF n = 0 THEN 0 ELSE n - 1)
                   ELSE IF n < MaxOverloads THEN n + 1 ELSE n,
     backoff |-> MaxBackoff]

(* Mutant: the renewal timer goes on during the commit. *)
PassDoneRenewing(p) ==
    /\ p \in alive
    /\ stage[p] = "running"
    /\ Enter(p, "settling")
    /\ \E shed \in BOOLEAN :
         outcome' = [outcome EXCEPT ![p] = IF shed THEN OverloadOutcome(p, TRUE) ELSE Calm]
    /\ UNCHANGED <<store, calls, sweeps, claimed, leaseLost, renewTimer, alive>>

(* The pass is through, shed or not: renewals stop before the commit. *)
PassDone(p) ==
    /\ p \in alive
    /\ stage[p] = "running"
    /\ Enter(p, "settling")
    /\ renewTimer' = [renewTimer EXCEPT ![p] = FALSE]
    /\ \E shed \in BOOLEAN :
         outcome' = [outcome EXCEPT ![p] = IF shed THEN OverloadOutcome(p, TRUE) ELSE Calm]
    /\ UNCHANGED <<store, calls, sweeps, claimed, leaseLost, alive>>

(* The pass fails: for an overload, with or without progress, or otherwise *)
(* (a lease it has been told is lost among other reasons).                 *)
PassFails(p) ==
    /\ p \in alive
    /\ stage[p] = "running"
    /\ Enter(p, "unwinding")
    /\ renewTimer' = [renewTimer EXCEPT ![p] = FALSE]
    /\ \/ \E progress \in BOOLEAN :
            outcome' = [outcome EXCEPT ![p] = OverloadOutcome(p, progress)]
       \/ outcome' = [outcome EXCEPT ![p] = Calm]
    /\ UNCHANGED <<store, calls, sweeps, claimed, leaseLost, alive>>

CommitStart(p) ==
    /\ p \in alive
    /\ stage[p] = "settling"
    /\ ~Renewing(p)
    /\ IF leaseLost[p]
       THEN /\ Enter(p, "unwinding")
            /\ outcome' = [outcome EXCEPT ![p] = Calm]
            /\ UNCHANGED calls
       ELSE /\ Enter(p, "committing")
            /\ \E saves \in BOOLEAN :
                 Send(p, [NewCall(p, "complete", sweeps[p]) EXCEPT !.saves = saves])
            /\ UNCHANGED outcome
    /\ UNCHANGED <<store, sweeps, claimed, leaseLost, renewTimer, alive>>

(* The sweep's own state is reset whichever way it ended. *)
Forget(p) ==
    /\ sweeps' = [sweeps EXCEPT ![p] = 0]
    /\ leaseLost' = [leaseLost EXCEPT ![p] = FALSE]

CommitReceived(p) ==
    /\ Awaited(p, "complete")
    /\ Drop(p)
    /\ IF Head(calls[p]).answer = "yes"
       THEN Enter(p, "idle") /\ Forget(p) /\ UNCHANGED outcome
       ELSE /\ Enter(p, "unwinding")
            /\ outcome' = [outcome EXCEPT ![p] = Calm]
            /\ UNCHANGED <<sweeps, leaseLost>>
    /\ UNCHANGED <<store, claimed, renewTimer, alive>>

(* Answers nobody waits for any more. *)
LateSettlement(p) ==
    /\ \E op \in {"complete", "defer", "release"} : Received(p, op)
    /\ ~Head(calls[p]).waited
    /\ Drop(p)
    /\ UNCHANGED <<store, stage, sweeps, claimed, outcome, leaseLost, renewTimer, alive>>

-----------------------------------------------------------------------------
(* Budget and teardown *)

(* The budget is spent.  Before a lease was claimed the sweep just ends;   *)
(* after that it is unwound.  An expiry is no overload.                    *)
BudgetSpent(p) ==
    /\ p \in alive
    /\ stage[p] \in {"claiming", "waiting", "reclaiming", "running", "settling", "committing"}
    /\ calls' = [calls EXCEPT ![p] = Unawaited(p)]
    /\ IF sweeps[p] = 0
       THEN Enter(p, "idle") /\ UNCHANGED <<outcome, renewTimer>>
       ELSE /\ Enter(p, "unwinding")
            /\ outcome' = [outcome EXCEPT ![p] = Calm]
            /\ renewTimer' = [renewTimer EXCEPT ![p] = FALSE]
    /\ UNCHANGED <<store, sweeps, claimed, leaseLost, alive>>

(* Release of the lease, the last step of a sweep that did not settle it.  *)
Release(p) ==
    /\ Enter(p, "releasing")
    /\ calls' = [calls EXCEPT ![p] = Append(Unawaited(p), NewCall(p, "release", sweeps[p]))]
    /\ Forget(p)

(* Teardown waits for the renewal under way, but not past its deadline; an *)
(* overload is recorded together with the release.                         *)
Unwind(p) ==
    /\ p \in alive
    /\ stage[p] = "unwinding"
    /\ IF outcome[p] = Calm THEN Release(p)
       ELSE /\ Enter(p, "deferring")
            /\ Send(p, NewCall(p, "defer", sweeps[p]))
            /\ UNCHANGED <<sweeps, leaseLost>>
    /\ UNCHANGED <<store, claimed, outcome, renewTimer, alive>>

DeferReceived(p) ==
    /\ Awaited(p, "defer")
    /\ IF Head(calls[p]).answer = "yes"
       THEN Drop(p) /\ Enter(p, "idle") /\ Forget(p)
       ELSE /\ calls' = [calls EXCEPT ![p] = Append(Tail(@), NewCall(p, "release", sweeps[p]))]
            /\ Enter(p, "releasing")
            /\ Forget(p)
    /\ UNCHANGED <<store, claimed, outcome, renewTimer, alive>>

DeferTimesOut(p) ==
    /\ p \in alive
    /\ stage[p] = "deferring"
    /\ Release(p)
    /\ UNCHANGED <<store, claimed, outcome, renewTimer, alive>>

ReleaseReceived(p) ==
    /\ Awaited(p, "release")
    /\ Drop(p)
    /\ Enter(p, "idle")
    /\ UNCHANGED <<store, sweeps, claimed, outcome, leaseLost, renewTimer, alive>>

ReleaseTimesOut(p) ==
    /\ p \in alive
    /\ stage[p] = "releasing"
    /\ Enter(p, "idle")
    /\ calls' = [calls EXCEPT ![p] = Unawaited(p)]
    /\ UNCHANGED <<store, sweeps, claimed, outcome, leaseLost, renewTimer, alive>>

Crash(p) ==
    /\ p \in alive
    /\ alive' = alive \ {p}
    /\ calls' = [calls EXCEPT ![p] = <<>>]
    /\ Enter(p, "idle")
    /\ Forget(p)
    /\ renewTimer' = [renewTimer EXCEPT ![p] = FALSE]
    /\ UNCHANGED <<store, claimed, outcome>>

-----------------------------------------------------------------------------

Answer(p) ==
    \/ ClaimReceived(p)
    \/ LateClaim(p)
    \/ RenewReceived(p)
    \/ CommitReceived(p)
    \/ DeferReceived(p)
    \/ ReleaseReceived(p)
    \/ LateSettlement(p)

Deadline(p) == BudgetSpent(p) \/ Unwind(p) \/ DeferTimesOut(p) \/ ReleaseTimesOut(p)

Next ==
    \/ Tick
    \/ \E p \in Proc :
         \/ Serve(p) \/ Answer(p) \/ Deadline(p)
         \/ Begin(p) \/ BackoffOver(p) \/ RenewSend(p)
         \/ PassDone(p) \/ PassFails(p) \/ CommitStart(p)
         \/ Crash(p)

Spec == Init /\ [][Next]_vars

(* The processes run the same code. *)
Symmetry == Permutations(Proc)

-----------------------------------------------------------------------------
(* Properties *)

(* A commit replaces exactly the checkpoint its sweep started from, even   *)
(* when the sweep was abandoned before: no sweep overwrites what another   *)
(* one has committed meanwhile (the epoch fence of completeDiscoverySweep).*)
NoCheckpointLost ==
    [][store'.checkpoint # store.checkpoint =>
         \E p \in Proc :
            /\ calls[p] # <<>>
            /\ Head(calls[p]).op = "complete"
            /\ Head(calls[p]).epoch = store'.checkpoint
            /\ Head(calls[p]).base.checkpoint = store.checkpoint]_vars

Sweeping(p) == stage[p] \in {"running", "settling", "committing"}

(* A sweep that is under way loses its lease to nothing but its own commit,*)
(* a takeover after it ran out, or a takeover from a crash: no release     *)
(* left behind by an earlier sweep of the same process takes it away.      *)
SweepKeepsLease ==
    [][\A p \in Proc :
         (/\ Sweeping(p) /\ Sweeping(p)'
          /\ sweeps[p] = sweeps'[p]
          /\ Matches(p, sweeps[p])
          /\ store'.lease = NoLease)
         => /\ calls[p] # <<>>
            /\ Head(calls[p]).op = "complete"
            /\ Head(calls[p]).epoch = sweeps[p]]_vars

(* A sweep that has committed is never told that it lost its lease: its    *)
(* renewals are over before the commit deletes the lease                   *)
(* (#stopDiscoverySweepRenewal).                                           *)
NoFalseLoss ==
    \A p \in Proc : leaseLost[p] =>
        /\ sweeps[p] # 0
        /\ store.checkpoint # sweeps[p]
        /\ ~(Matches(p, sweeps[p]) /\ store.lease.ttl > 0)

=============================================================================
