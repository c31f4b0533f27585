------------------------ MODULE DiscoverySweepProofs ------------------------
(***************************************************************************)
(* Theorems about DiscoverySweep, for every set of processes and every     *)
(* lease length, clock lag and bound.                                      *)
(***************************************************************************)
EXTENDS DiscoverySweep, TLAPS

-----------------------------------------------------------------------------
(* The inductive invariant *)

(* An epoch in the books of a process is not ahead of the store, and is    *)
(* that of the lease only if the process holds it.                         *)
Own(p, e) ==
    /\ e <= store.lastEpoch
    /\ e # 0 /\ e = store.lease.epoch => store.lease.owner = p

(* The lease of p in epoch e is there and has not run out.                 *)
Fresh(p, e) == Matches(p, e) /\ store.lease.ttl > 0

StoreInv ==
    /\ store.lease.epoch <= store.lastEpoch
    /\ store.checkpoint <= store.lastEpoch

InSweep == {"running", "settling", "committing", "unwinding", "deferring"}

(* The sweep of a process: it has an epoch from its claim to its teardown, *)
(* it started from the checkpoint that stands while it holds the lease,    *)
(* and it neither renews nor has lost anything once it has committed.      *)
SweepInv(p) ==
    /\ Own(p, sweeps[p])
    /\ sweeps[p] # 0 <=> stage[p] \in InSweep
    /\ renewTimer[p] => stage[p] = "running"
    /\ leaseLost[p] => sweeps[p] # 0 /\ ~Fresh(p, sweeps[p])
    /\ sweeps[p] # 0 /\ Matches(p, sweeps[p]) => claimed[p].checkpoint = store.checkpoint
    /\ sweeps[p] # 0 /\ sweeps[p] = store.checkpoint => ~renewTimer[p] /\ ~leaseLost[p]

(* Where a sweep stands that waits for a call.                             *)
Waits(op) ==
    CASE op = "claim" -> {"claiming", "reclaiming"}
      [] op = "complete" -> {"committing"}
      [] op = "defer" -> {"deferring"}
      [] op = "release" -> {"releasing"}
      [] OTHER -> Stage

(* A call of a process.  A granted claim is the first that anybody hears   *)
(* of its epoch; a renewal is over before the commit of its sweep; a sweep *)
(* under way has no call that would take its lease but its commit.         *)
CallInv(p, c) ==
    /\ Own(p, c.epoch)
    /\ c.epoch = 0 <=> c.op = "claim" /\ c.answer # "yes"
    /\ c.waited => stage[p] \in Waits(c.op)
    /\ c.op \in {"claim", "complete"} /\ c.epoch # 0 /\ Matches(p, c.epoch) =>
         c.base.checkpoint = store.checkpoint
    /\ c.op = "claim" /\ c.epoch # 0 => c.epoch # store.checkpoint /\ c.epoch # sweeps[p]
    /\ c.op = "renew" =>
         /\ c.epoch # store.checkpoint
         /\ ~(leaseLost[p] /\ c.epoch = sweeps[p])
         /\ c.answer = "no" => ~Fresh(p, c.epoch)
    /\ c.op = "complete" /\ c.epoch = sweeps[p] => ~renewTimer[p] /\ ~leaseLost[p]
    /\ c.op \in {"defer", "release"} /\ c.epoch = sweeps[p] => ~Sweeping(p)

(* Two calls of a process: one renewal, one call that the sweep waits for, *)
(* no call of an epoch whose claim has not been heard of, no renewal       *)
(* beside a commit.                                                        *)
PairInv(c, d) ==
    /\ ~(c.op = "renew" /\ d.op = "renew")
    /\ ~(c.waited /\ d.waited /\ c.op # "renew" /\ d.op # "renew")
    /\ c.op = "claim" /\ c.epoch # 0 => d.epoch # c.epoch
    /\ c.op = "complete" /\ d.op = "renew" => c.epoch # d.epoch

QueueInv(p) ==
    /\ \A i \in DOMAIN calls[p] : calls[p][i].answer # "none" => i = 1
    /\ \A i \in DOMAIN calls[p] : CallInv(p, calls[p][i])
    /\ \A i, j \in DOMAIN calls[p] : i # j => PairInv(calls[p][i], calls[p][j])

ProcInv(p) == SweepInv(p) /\ QueueInv(p)

LeaseInv == TypeOK /\ StoreInv /\ \A p \in Proc : ProcInv(p)

-----------------------------------------------------------------------------
(* Types *)

Unwaited(c) == [c EXCEPT !.waited = FALSE]

(* What becomes of a queue of calls stays one.                             *)
LEMMA QueueTypes ==
    ASSUME NEW s \in Seq(Call), NEW c \in Call
    PROVE  /\ Append(s, c) \in Seq(Call)
           /\ [i \in DOMAIN s |-> Unwaited(s[i])] \in Seq(Call)
           /\ s # <<>> => /\ Head(s) \in Call
                          /\ Tail(s) \in Seq(Call)
                          /\ [s EXCEPT ![1] = c] \in Seq(Call)
<1>1. \A d \in Call : Unwaited(d) \in Call
  BY DEF Unwaited, Call
<1>2. [i \in DOMAIN s |-> Unwaited(s[i])] \in Seq(Call)
  <2>1. DOMAIN s = 1 .. Len(s) /\ Len(s) \in Nat
    OBVIOUS
  <2>2. \A i \in 1 .. Len(s) : Unwaited(s[i]) \in Call
    BY <1>1
  <2> QED
    BY <2>1, <2>2
<1> QED
  BY <1>2

(* What the store writes into its state is a state.                        *)
LEMMA StoreTypes ==
    ASSUME store \in Store, NEW p \in Proc, NEW lag \in 0 .. MaxLag, NEW c \in Call
    PROVE  /\ Grant(p, lag) \in Store
           /\ store.lease # NoLease => [store EXCEPT !.lease.ttl = LeaseTerm - lag] \in Store
           /\ c.op \in {"complete", "defer", "release"} => Settled(c) \in Store
           /\ [Answered(c, "yes") EXCEPT
                 !.epoch = store.lastEpoch + 1,
                 !.base = [checkpoint |-> store.checkpoint,
                           overloads |-> store.overloads]] \in Call
           /\ \A a \in {"yes", "no", "backoff", "error"} : Answered(c, a) \in Call
<1>1. LeaseTerm - lag \in -MaxLag .. LeaseTerm
  BY SizesAssumption
<1>2. Grant(p, lag) \in Store
  <2>1. store.lastEpoch + 1 \in Nat \ {0}
    BY DEF Store
  <2>2. [owner |-> p, epoch |-> store.lastEpoch + 1, ttl |-> LeaseTerm - lag] \in Lease
    BY <1>1, <2>1 DEF Lease
  <2> QED
    BY <2>1, <2>2 DEF Grant, Store
<1>3. store.lease # NoLease => [store EXCEPT !.lease.ttl = LeaseTerm - lag] \in Store
  BY <1>1 DEF Store, Lease
<1>4. c.op \in {"complete", "defer", "release"} => Settled(c) \in Store
  BY DEF Settled, Store, Call, Outcome
<1>5. store.lastEpoch + 1 \in Nat /\ [checkpoint |-> store.checkpoint, overloads |-> store.overloads] \in Claimed
  BY DEF Store, Claimed
<1> QED
  BY <1>2, <1>3, <1>4, <1>5 DEF Call, Answered

LEMMA NewCallType ==
    ASSUME TypeOK, NEW p \in Proc, NEW op \in Op, NEW e \in Nat
    PROVE  /\ NewCall(p, op, e) \in Call
           /\ [NewCall(p, op, e) EXCEPT !.waited = FALSE] \in Call
           /\ \A saves \in BOOLEAN : [NewCall(p, op, e) EXCEPT !.saves = saves] \in Call
BY DEF TypeOK, NewCall, Call

LEMMA SweepTypeInit == Init => TypeOK
<1>1. <<>> \in Seq(Call)
  OBVIOUS
<1> QED
  BY <1>1, SizesAssumption DEF Init, TypeOK, Store, Claimed, Outcome, Calm, Stage

Queues == [Proc -> Seq(Call)]

(* The calls of a process as its actions leave them.                       *)
LEMMA CallsTypes ==
    ASSUME TypeOK, NEW p \in Proc
    PROVE  /\ calls' = [calls EXCEPT ![p] = <<>>] => calls' \in Queues
           /\ calls' = [calls EXCEPT ![p] = Unawaited(p)] => calls' \in Queues
           /\ \A c \in Call :
                calls' = [calls EXCEPT ![p] = Append(Unawaited(p), c)] => calls' \in Queues
           /\ \A c \in Call : Send(p, c) => calls' \in Queues
           /\ calls[p] # <<>> =>
                /\ Head(calls[p]) \in Call
                /\ Drop(p) => calls' \in Queues
                /\ \A c \in Call :
                     calls' = [calls EXCEPT ![p] = Append(Tail(calls[p]), c)] => calls' \in Queues
                /\ \A c \in Call : calls' = [calls EXCEPT ![p][1] = c] => calls' \in Queues
<1>1. calls \in Queues /\ calls[p] \in Seq(Call)
  BY DEF TypeOK, Queues
<1>2. \A s \in Seq(Call) : [calls EXCEPT ![p] = s] \in Queues
  BY <1>1 DEF Queues
<1>3. Unawaited(p) \in Seq(Call)
  <2>1. CASE calls[p] = <<>>
    BY <2>1 DEF Unawaited
  <2>2. CASE calls[p] # <<>>
    <3>1. PICK c \in Call : TRUE
      BY <1>1, <2>2
    <3> QED
      BY <1>1, <3>1, QueueTypes DEF Unawaited, Unwaited
  <2> QED
    BY <2>1, <2>2
<1>4. \A c \in Call : Append(Unawaited(p), c) \in Seq(Call) /\ Append(calls[p], c) \in Seq(Call)
  BY <1>1, <1>3
<1>5. ASSUME calls[p] # <<>>
      PROVE  /\ Head(calls[p]) \in Call /\ Tail(calls[p]) \in Seq(Call)
             /\ \A c \in Call : Append(Tail(calls[p]), c) \in Seq(Call)
             /\ \A c \in Call : [calls[p] EXCEPT ![1] = c] \in Seq(Call)
  BY <1>1, <1>5, QueueTypes
<1>6. <<>> \in Seq(Call)
  OBVIOUS
<1>7. /\ calls' = [calls EXCEPT ![p] = <<>>] => calls' \in Queues
      /\ calls' = [calls EXCEPT ![p] = Unawaited(p)] => calls' \in Queues
      /\ \A c \in Call :
           calls' = [calls EXCEPT ![p] = Append(Unawaited(p), c)] => calls' \in Queues
      /\ \A c \in Call : Send(p, c) => calls' \in Queues
  BY <1>2, <1>3, <1>4, <1>6 DEF Send
<1>8. ASSUME calls[p] # <<>>
      PROVE  /\ Drop(p) => calls' \in Queues
             /\ \A c \in Call :
                  calls' = [calls EXCEPT ![p] = Append(Tail(calls[p]), c)] => calls' \in Queues
             /\ \A c \in Call : calls' = [calls EXCEPT ![p][1] = c] => calls' \in Queues
  BY <1>2, <1>5, <1>8 DEF Drop
<1> QED
  BY <1>5, <1>7, <1>8

LEMMA ServeTypes ==
    ASSUME TypeOK, NEW p \in Proc, Serve(p)
    PROVE  TypeOK'
<1> DEFINE c == Head(calls[p])
<1>1. store \in Store /\ calls[p] # <<>> /\ c \in Call
  BY CallsTypes DEF TypeOK, Serve
<1>2. \A d \in Call : calls' = [calls EXCEPT ![p][1] = d] => calls' \in Queues
  BY <1>1, CallsTypes
<1>0. 0 \in 0 .. MaxLag
  BY SizesAssumption
<1>3. \A a \in {"yes", "no", "backoff", "error"} : Answered(c, a) \in Call
  BY <1>0, <1>1, StoreTypes
<1>4. ASSUME NEW lag \in 0 .. MaxLag, ServeClaim(p, c, lag)
      PROVE  store' \in Store /\ calls' \in Queues
  <2>1. Grant(p, lag) \in Store
    BY <1>1, StoreTypes
  <2>2. [Answered(c, "yes") EXCEPT !.epoch = store.lastEpoch + 1,
                                   !.base = [checkpoint |-> store.checkpoint,
                                             overloads |-> store.overloads]] \in Call
    BY <1>1, StoreTypes
  <2> QED
    BY <1>1, <1>2, <1>3, <1>4, <2>1, <2>2 DEF ServeClaim
<1>5. ASSUME NEW lag \in 0 .. MaxLag, ServeRenewal(p, c, lag)
      PROVE  store' \in Store /\ calls' \in Queues
  <2>1. store.lease # NoLease => [store EXCEPT !.lease.ttl = LeaseTerm - lag] \in Store
    BY <1>1, StoreTypes
  <2> QED
    BY <1>1, <1>2, <1>3, <1>5, <2>1 DEF ServeRenewal, Held
<1>6. ASSUME c.op \notin {"claim", "renew"}, ServeSettlement(p, c)
      PROVE  store' \in Store /\ calls' \in Queues
  <2>1. c.op \in {"complete", "defer", "release"}
    BY <1>1, <1>6 DEF Call, Op
  <2>2. Settled(c) \in Store
    BY <1>0, <1>1, <2>1, StoreTypes
  <2> QED
    BY <1>1, <1>2, <1>3, <1>6, <2>2 DEF ServeSettlement
<1>7. ASSUME ServeFails(p, c)
      PROVE  store' \in Store /\ calls' \in Queues
  BY <1>1, <1>2, <1>3, <1>7 DEF ServeFails
<1>8. store' \in Store /\ calls' \in Queues
  BY <1>4, <1>5, <1>6, <1>7 DEF Serve
<1> QED
  BY <1>8 DEF Serve, TypeOK, Queues

(* One process's part of each function changes.                            *)
LEMMA LocalTypes ==
    ASSUME TypeOK, NEW p \in Proc
    PROVE  /\ \A s \in Stage : Enter(p, s) => stage' \in [Proc -> Stage]
           /\ Forget(p) => sweeps' \in [Proc -> Nat] /\ leaseLost' \in [Proc -> BOOLEAN]
           /\ \A e \in Nat : sweeps' = [sweeps EXCEPT ![p] = e] => sweeps' \in [Proc -> Nat]
           /\ \A c \in Claimed :
                claimed' = [claimed EXCEPT ![p] = c] => claimed' \in [Proc -> Claimed]
           /\ \A o \in Outcome :
                outcome' = [outcome EXCEPT ![p] = o] => outcome' \in [Proc -> Outcome]
           /\ \A b \in BOOLEAN :
                leaseLost' = [leaseLost EXCEPT ![p] = b] => leaseLost' \in [Proc -> BOOLEAN]
           /\ \A b \in BOOLEAN :
                renewTimer' = [renewTimer EXCEPT ![p] = b] => renewTimer' \in [Proc -> BOOLEAN]
<1>1. \A s \in Stage : Enter(p, s) => stage' \in [Proc -> Stage]
  BY DEF TypeOK, Enter
<1>2. \A e \in Nat : sweeps' = [sweeps EXCEPT ![p] = e] => sweeps' \in [Proc -> Nat]
  BY DEF TypeOK
<1>3. \A c \in Claimed :
        claimed' = [claimed EXCEPT ![p] = c] => claimed' \in [Proc -> Claimed]
  BY DEF TypeOK
<1>4. \A o \in Outcome :
        outcome' = [outcome EXCEPT ![p] = o] => outcome' \in [Proc -> Outcome]
  BY DEF TypeOK
<1>5. \A b \in BOOLEAN :
        leaseLost' = [leaseLost EXCEPT ![p] = b] => leaseLost' \in [Proc -> BOOLEAN]
  BY DEF TypeOK
<1>6. \A b \in BOOLEAN :
        renewTimer' = [renewTimer EXCEPT ![p] = b] => renewTimer' \in [Proc -> BOOLEAN]
  BY DEF TypeOK
<1>7. Forget(p) => sweeps' \in [Proc -> Nat] /\ leaseLost' \in [Proc -> BOOLEAN]
  BY <1>2, <1>5 DEF Forget
<1> QED
  BY <1>1, <1>2, <1>3, <1>4, <1>5, <1>6, <1>7

LEMMA SweepTypeStep == TypeOK /\ [Next]_vars => TypeOK'
<1> SUFFICES ASSUME TypeOK, [Next]_vars
             PROVE  TypeOK'
  OBVIOUS
<1>1. CASE Tick
  <2>1. store \in Store /\ MaxLag \in Nat /\ MaxBackoff \in Nat /\ LeaseTerm \in Nat
    BY SizesAssumption DEF TypeOK
  <2>2. Aged \in Lease \union {NoLease}
    BY <2>1 DEF Store, Lease, Aged
  <2>3. (IF store.backoff = 0 THEN 0 ELSE store.backoff - 1) \in 0 .. MaxBackoff
    BY <2>1 DEF Store
  <2>5. store' \in Store
    BY <1>1, <2>1, <2>2, <2>3 DEF Tick, Store
  <2> QED
    BY <1>1, <2>5 DEF Tick, TypeOK
<1>2. ASSUME NEW p \in Proc, Serve(p) \/ Answer(p) \/ Deadline(p)
                             \/ Begin(p) \/ BackoffOver(p) \/ RenewSend(p)
                             \/ PassDone(p) \/ PassFails(p) \/ CommitStart(p)
                             \/ Crash(p)
      PROVE  TypeOK'
  <2>1. CASE Serve(p)
    BY <2>1, ServeTypes
  <2>2. sweeps[p] \in Nat /\ outcome[p] \in Outcome /\ claimed[p] \in Claimed /\ Calm \in Outcome
    BY SizesAssumption DEF TypeOK, Calm, Outcome
  <2>3. \A progress \in BOOLEAN : OverloadOutcome(p, progress) \in Outcome
    BY <2>2, SizesAssumption DEF OverloadOutcome, Outcome, Claimed
  <2>4. calls[p] # <<>> => /\ Head(calls[p]) \in Call
                           /\ Head(calls[p]).epoch \in Nat /\ Head(calls[p]).base \in Claimed
    BY CallsTypes DEF Call
  <2>5. CASE ClaimReceived(p)
    <3>1. calls[p] # <<>> /\ Drop(p)
      BY <2>5 DEF ClaimReceived, Awaited, Received
    <3>2. calls' \in Queues
      BY <3>1, CallsTypes
    <3>3. /\ stage' \in [Proc -> Stage] /\ sweeps' \in [Proc -> Nat] /\ claimed' \in [Proc -> Claimed]
          /\ outcome' \in [Proc -> Outcome] /\ leaseLost' \in [Proc -> BOOLEAN]
          /\ renewTimer' \in [Proc -> BOOLEAN]
      <4>1. CASE Head(calls[p]).answer = "yes"
        <5>1. "running" \in Stage /\ TRUE \in BOOLEAN /\ FALSE \in BOOLEAN
          BY DEF Stage
        <5> QED
          BY <2>2, <2>4, <2>5, <3>1, <4>1, <5>1, LocalTypes DEF ClaimReceived
      <4>2. CASE Head(calls[p]).answer # "yes"
        <5>1. "waiting" \in Stage /\ "idle" \in Stage
          BY DEF Stage
        <5>2. Enter(p, "waiting") \/ Enter(p, "idle")
          BY <2>5, <4>2 DEF ClaimReceived
        <5> QED
          BY <2>5, <4>2, <5>1, <5>2, LocalTypes DEF ClaimReceived, TypeOK
      <4> QED
        BY <4>1, <4>2
    <3> QED
      BY <2>5, <3>2, <3>3 DEF ClaimReceived, TypeOK, Queues
  <2>6. CASE LateClaim(p)
    <3>1. calls[p] # <<>> /\ "release" \in Op
      BY <2>6 DEF LateClaim, Received, Op
    <3>2. calls' \in Queues
      <4>1. CASE Head(calls[p]).answer = "yes"
        BY <2>4, <2>6, <3>1, <4>1, CallsTypes, NewCallType DEF LateClaim
      <4>2. CASE Head(calls[p]).answer # "yes"
        BY <2>6, <3>1, <4>2, CallsTypes DEF LateClaim, Drop
      <4> QED
        BY <4>1, <4>2
    <3> QED
      BY <2>6, <3>2 DEF LateClaim, TypeOK, Queues
  <2>7. CASE RenewReceived(p) \/ CommitReceived(p) \/ ReleaseReceived(p) \/ LateSettlement(p)
    <3>1. calls[p] # <<>> /\ Drop(p)
      BY <2>7 DEF RenewReceived, CommitReceived, ReleaseReceived, LateSettlement, Awaited, Received
    <3>2. calls' \in Queues
      BY <3>1, CallsTypes
    <3>3. "idle" \in Stage /\ "unwinding" \in Stage
      BY DEF Stage
    <3>4. /\ stage' \in [Proc -> Stage] /\ sweeps' \in [Proc -> Nat]
          /\ outcome' \in [Proc -> Outcome] /\ leaseLost' \in [Proc -> BOOLEAN]
      <4>1. CASE RenewReceived(p)
        <5>1. \A b : (leaseLost[p] \/ b) \in BOOLEAN
          OBVIOUS
        <5> QED
          BY <4>1, <5>1, LocalTypes DEF RenewReceived, TypeOK
      <4>2. CASE CommitReceived(p)
        BY <2>2, <3>3, <4>2, LocalTypes DEF CommitReceived, TypeOK
      <4>3. CASE ReleaseReceived(p) \/ LateSettlement(p)
        BY <3>3, <4>3, LocalTypes DEF ReleaseReceived, LateSettlement, TypeOK
      <4> QED
        BY <2>7, <4>1, <4>2, <4>3
    <3> QED
      BY <2>7, <3>2, <3>4
         DEF RenewReceived, CommitReceived, ReleaseReceived, LateSettlement, TypeOK, Queues
  <2>8. CASE DeferReceived(p)
    <3>1. calls[p] # <<>> /\ "release" \in Op /\ "idle" \in Stage /\ "releasing" \in Stage
      BY <2>8 DEF DeferReceived, Awaited, Received, Op, Stage
    <3>2. calls' \in Queues
      BY <2>2, <2>8, <3>1, CallsTypes, NewCallType DEF DeferReceived
    <3>3. stage' \in [Proc -> Stage] /\ sweeps' \in [Proc -> Nat] /\ leaseLost' \in [Proc -> BOOLEAN]
      BY <2>8, <3>1, LocalTypes DEF DeferReceived
    <3> QED
      BY <2>8, <3>2, <3>3 DEF DeferReceived, TypeOK, Queues
  <2>9. CASE BudgetSpent(p) \/ ReleaseTimesOut(p)
    <3>1. "idle" \in Stage /\ "unwinding" \in Stage /\ FALSE \in BOOLEAN
      BY DEF Stage
    <3>2. calls' \in Queues
      BY <2>9, CallsTypes DEF BudgetSpent, ReleaseTimesOut
    <3>3. stage' \in [Proc -> Stage] /\ outcome' \in [Proc -> Outcome] /\ renewTimer' \in [Proc -> BOOLEAN]
      BY <2>2, <2>9, <3>1, LocalTypes DEF BudgetSpent, ReleaseTimesOut, TypeOK
    <3> QED
      BY <2>9, <3>2, <3>3 DEF BudgetSpent, ReleaseTimesOut, TypeOK, Queues
  <2>10. CASE Unwind(p) \/ DeferTimesOut(p)
    <3>1. "defer" \in Op /\ "release" \in Op /\ "releasing" \in Stage /\ "deferring" \in Stage
      BY DEF Op, Stage
    <3>2. calls' \in Queues
      BY <2>2, <2>10, <3>1, CallsTypes, NewCallType DEF Unwind, DeferTimesOut, Release
    <3>3. stage' \in [Proc -> Stage] /\ sweeps' \in [Proc -> Nat] /\ leaseLost' \in [Proc -> BOOLEAN]
      BY <2>10, <3>1, LocalTypes DEF Unwind, DeferTimesOut, Release, TypeOK
    <3> QED
      BY <2>10, <3>2, <3>3 DEF Unwind, DeferTimesOut, TypeOK, Queues
  <2>11. CASE Begin(p) \/ BackoffOver(p) \/ RenewSend(p)
    <3>1. /\ "claim" \in Op /\ "renew" \in Op /\ 0 \in Nat
          /\ "claiming" \in Stage /\ "reclaiming" \in Stage
      BY DEF Op, Stage
    <3>2. calls' \in Queues
      BY <2>2, <2>11, <3>1, CallsTypes, NewCallType DEF Begin, BackoffOver, RenewSend
    <3>3. stage' \in [Proc -> Stage]
      BY <2>11, <3>1, LocalTypes DEF Begin, BackoffOver, RenewSend, TypeOK
    <3> QED
      BY <2>11, <3>2, <3>3 DEF Begin, BackoffOver, RenewSend, TypeOK, Queues
  <2>12. CASE PassDone(p) \/ PassFails(p)
    <3>1. "settling" \in Stage /\ "unwinding" \in Stage
      BY DEF Stage
    <3>2. stage' \in [Proc -> Stage] /\ renewTimer' \in [Proc -> BOOLEAN]
      BY <2>12, <3>1, LocalTypes DEF PassDone, PassFails
    <3>3. outcome' \in [Proc -> Outcome]
      <4>1. PICK o \in Outcome : outcome' = [outcome EXCEPT ![p] = o]
        BY <2>2, <2>3, <2>12 DEF PassDone, PassFails
      <4> QED
        BY <4>1, LocalTypes
    <3> QED
      BY <2>12, <3>2, <3>3 DEF PassDone, PassFails, TypeOK
  <2>13. CASE CommitStart(p)
    <3>1. "complete" \in Op /\ "unwinding" \in Stage /\ "committing" \in Stage
      BY DEF Op, Stage
    <3>2. calls' \in Queues
      <4>1. calls' = calls \/ \E saves \in BOOLEAN :
              Send(p, [NewCall(p, "complete", sweeps[p]) EXCEPT !.saves = saves])
        BY <2>13 DEF CommitStart
      <4> QED
        BY <2>2, <3>1, <4>1, CallsTypes, NewCallType DEF TypeOK, Queues
    <3>3. stage' \in [Proc -> Stage] /\ outcome' \in [Proc -> Outcome]
      BY <2>2, <2>13, <3>1, LocalTypes DEF CommitStart, TypeOK
    <3> QED
      BY <2>13, <3>2, <3>3 DEF CommitStart, TypeOK, Queues
  <2>14. CASE Crash(p)
    <3>1. calls' \in Queues
      BY <2>14, CallsTypes DEF Crash
    <3>2. "idle" \in Stage
      BY DEF Stage
    <3>3. /\ stage' \in [Proc -> Stage] /\ sweeps' \in [Proc -> Nat]
          /\ leaseLost' \in [Proc -> BOOLEAN] /\ renewTimer' \in [Proc -> BOOLEAN]
      BY <2>14, <3>2, LocalTypes DEF Crash
    <3> QED
      BY <2>14, <3>1, <3>3 DEF Crash, TypeOK, Queues
  <2> QED
    BY <1>2, <2>1, <2>5, <2>6, <2>7, <2>8, <2>9, <2>10, <2>11, <2>12, <2>13, <2>14
       DEF Answer, Deadline
<1>3. CASE UNCHANGED vars
  BY <1>3 DEF vars, TypeOK
<1> QED
  BY <1>1, <1>2, <1>3 DEF Next

(* Every variable keeps its type.                                          *)
THEOREM SweepTypes == Spec => []TypeOK
BY SweepTypeInit, SweepTypeStep, PTL DEF Spec

-----------------------------------------------------------------------------
(* What the actions of a process do to its queue of calls *)

(* A call of a queue that is or is not waited for any more.                *)
Still(waits, c) == IF waits THEN c ELSE Unwaited(c)

(* t is s without its first o calls, with at most one call of N behind the *)
(* others.                                                                 *)
Edit(s, t, o, waits, N) ==
    /\ Len(t) \in {Len(s) - o, Len(s) - o + 1}
    /\ \A i \in 1 .. Len(s) - o : t[i] = Still(waits, s[i + o])
    /\ Len(t) = Len(s) - o + 1 => t[Len(t)] \in N

LEMMA Edits ==
    ASSUME NEW s \in Seq(Call), NEW c \in Call
    PROVE  LET u == [i \in DOMAIN s |-> Unwaited(s[i])] IN
           /\ Edit(s, s, 0, TRUE, {})
           /\ Edit(s, u, 0, FALSE, {})
           /\ Edit(s, Append(s, c), 0, TRUE, {c})
           /\ Edit(s, Append(u, c), 0, FALSE, {c})
           /\ s # <<>> =>
                /\ Edit(s, Tail(s), 1, TRUE, {})
                /\ Edit(s, Append(Tail(s), c), 1, TRUE, {c})
<1> DEFINE u == [i \in DOMAIN s |-> Unwaited(s[i])]
<1>1. u \in Seq(Call) /\ Len(u) = Len(s) /\ \A i \in 1 .. Len(s) : u[i] = Unwaited(s[i])
  <2>1. u \in Seq(Call)
    BY QueueTypes
  <2>2. DOMAIN u = DOMAIN s /\ DOMAIN s = 1 .. Len(s) /\ Len(s) \in Nat
    OBVIOUS
  <2>3. DOMAIN u = 1 .. Len(u) /\ Len(u) \in Nat
    BY <2>1
  <2> QED
    BY <2>1, <2>2, <2>3
<1> HIDE DEF u
<1>2. Edit(s, s, 0, TRUE, {}) /\ Edit(s, u, 0, FALSE, {})
  BY <1>1 DEF Edit, Still
<1>3. Edit(s, Append(s, c), 0, TRUE, {c})
  BY DEF Edit, Still
<1>4. Edit(s, Append(u, c), 0, FALSE, {c})
  BY <1>1 DEF Edit, Still
<1>5. ASSUME s # <<>>
      PROVE  Edit(s, Tail(s), 1, TRUE, {}) /\ Edit(s, Append(Tail(s), c), 1, TRUE, {c})
  <2>1. /\ Tail(s) \in Seq(Call) /\ Len(s) \in Nat \ {0} /\ Len(Tail(s)) = Len(s) - 1
        /\ \A i \in 1 .. Len(s) - 1 : Tail(s)[i] = s[i + 1]
    BY <1>5
  <2>2. \A t \in Seq(Call) :
          /\ Len(t) = Len(s) - 1
          /\ \A i \in 1 .. Len(s) - 1 : t[i] = s[i + 1]
          => Edit(s, t, 1, TRUE, {}) /\ Edit(s, Append(t, c), 1, TRUE, {c})
    <3> SUFFICES ASSUME NEW t \in Seq(Call), Len(t) = Len(s) - 1,
                        \A i \in 1 .. Len(s) - 1 : t[i] = s[i + 1]
                 PROVE  Edit(s, t, 1, TRUE, {}) /\ Edit(s, Append(t, c), 1, TRUE, {c})
      OBVIOUS
    <3>1. Edit(s, t, 1, TRUE, {})
      BY <2>1 DEF Edit, Still
    <3>2. /\ Len(Append(t, c)) = Len(s)
          /\ \A i \in 1 .. Len(s) - 1 : Append(t, c)[i] = s[i + 1]
          /\ Append(t, c)[Len(s)] = c
      BY <2>1
    <3>3. Edit(s, Append(t, c), 1, TRUE, {c})
      BY <2>1, <3>2 DEF Edit, Still
    <3> QED
      BY <3>1, <3>3
  <2> QED
    BY <2>1, <2>2
<1> QED
  BY <1>2, <1>3, <1>4, <1>5 DEF u

LEMMA EditsNothing ==
    ASSUME NEW s \in Seq(Call)
    PROVE  /\ Edit(s, s, 0, TRUE, {})
           /\ Edit(s, [i \in DOMAIN s |-> Unwaited(s[i])], 0, FALSE, {})
<1>1. CASE s = <<>>
  BY <1>1 DEF Edit, Still
<1>2. CASE s # <<>>
  <2>1. Head(s) \in Call
    BY <1>2
  <2> QED
    BY <2>1, Edits
<1> QED
  BY <1>1, <1>2

LEMMA UnwaitedSame ==
    ASSUME NEW c \in Call, NEW waits \in BOOLEAN
    PROVE  /\ Still(waits, c) \in Call /\ Still(waits, c).op = c.op
           /\ Still(waits, c).epoch = c.epoch /\ Still(waits, c).answer = c.answer
           /\ Still(waits, c).base = c.base
           /\ Still(waits, c).waited => c.waited /\ waits
BY DEF Still, Unwaited, Call

(* The calls of p behind its first o, as they are or no longer waited for. *)
Left(p, o, waits) == {Still(waits, calls[p][i]) : i \in {j \in DOMAIN calls[p] : j > o}}

LEMMA LeftCalls ==
    ASSUME TypeOK, NEW p \in Proc, QueueInv(p), NEW o \in {0, 1}, NEW waits \in BOOLEAN
    PROVE  /\ \A d \in Left(p, o, waits) : d \in Call /\ CallInv(p, d) /\ (d.waited => waits)
           /\ calls[p] # <<>> =>
                /\ Head(calls[p]) \in Call /\ CallInv(p, Head(calls[p]))
                /\ \A d \in Left(p, 1, waits) :
                     /\ d.answer = "none"
                     /\ PairInv(Head(calls[p]), d) /\ PairInv(d, Head(calls[p]))
<1>1. calls[p] \in Seq(Call) /\ DOMAIN calls[p] = 1 .. Len(calls[p]) /\ Len(calls[p]) \in Nat
  BY DEF TypeOK
<1>2. \A i \in DOMAIN calls[p] : calls[p][i] \in Call /\ CallInv(p, calls[p][i])
  BY <1>1 DEF QueueInv
<1>3. ASSUME NEW d \in Call
      PROVE  CallInv(p, d) => CallInv(p, Still(waits, d))
  BY UnwaitedSame DEF CallInv
<1>4. ASSUME NEW c \in Call, NEW d \in Call
      PROVE  /\ PairInv(c, d) => PairInv(c, Still(waits, d))
             /\ PairInv(d, c) => PairInv(Still(waits, d), c)
  BY UnwaitedSame DEF PairInv
<1>5. ASSUME calls[p] # <<>>
      PROVE  /\ 1 \in DOMAIN calls[p] /\ Head(calls[p]) = calls[p][1]
             /\ \A i \in DOMAIN calls[p] : i > 1 =>
                  /\ calls[p][i].answer = "none"
                  /\ PairInv(calls[p][1], calls[p][i]) /\ PairInv(calls[p][i], calls[p][1])
  <2>1. 1 \in DOMAIN calls[p] /\ Head(calls[p]) = calls[p][1]
    BY <1>1, <1>5
  <2> QED
    BY <1>1, <2>1 DEF QueueInv
<1>6. \A d \in Left(p, o, waits) : d \in Call /\ CallInv(p, d) /\ (d.waited => waits)
  BY <1>2, <1>3, UnwaitedSame DEF Left
<1>7. ASSUME calls[p] # <<>>, NEW d \in Left(p, 1, waits)
      PROVE  d.answer = "none" /\ PairInv(Head(calls[p]), d) /\ PairInv(d, Head(calls[p]))
  <2>1. PICK i \in DOMAIN calls[p] : i > 1 /\ d = Still(waits, calls[p][i])
    BY DEF Left
  <2> QED
    BY <1>2, <1>4, <1>5, <1>7, <2>1, UnwaitedSame
<1> QED
  BY <1>2, <1>5, <1>6, <1>7

(* A queue keeps its invariant if the calls that are left and the new one  *)
(* keep theirs.                                                            *)
LEMMA QueueMoves ==
    ASSUME TypeOK, TypeOK', NEW p \in Proc, QueueInv(p),
           NEW o \in {0, 1}, NEW waits \in BOOLEAN, NEW N \in SUBSET Call,
           Edit(calls[p], calls'[p], o, waits, N),
           \A d \in Left(p, o, waits) : CallInv(p, d)',
           \A c \in N : /\ c.answer = "none" /\ CallInv(p, c)'
                        /\ \A d \in Left(p, o, waits) : PairInv(c, d) /\ PairInv(d, c)
    PROVE  QueueInv(p)'
<1> DEFINE s == calls[p]
           t == calls'[p]
           n == Len(s) - o
<1>1. /\ s \in Seq(Call) /\ DOMAIN s = 1 .. Len(s) /\ Len(s) \in Nat
      /\ t \in Seq(Call) /\ DOMAIN t = 1 .. Len(t) /\ Len(t) \in Nat
  BY DEF TypeOK
<1>2. \A i \in DOMAIN t :
        \/ /\ i \in 1 .. n /\ i + o \in DOMAIN s /\ s[i + o] \in Call
           /\ t[i] = Still(waits, s[i + o]) /\ t[i] \in Left(p, o, waits)
        \/ i = n + 1 /\ t[i] \in N
  <2> SUFFICES ASSUME NEW i \in DOMAIN t
               PROVE  \/ /\ i \in 1 .. n /\ i + o \in DOMAIN s /\ s[i + o] \in Call
                         /\ t[i] = Still(waits, s[i + o]) /\ t[i] \in Left(p, o, waits)
                      \/ i = n + 1 /\ t[i] \in N
    OBVIOUS
  <2>1. n \in Int /\ (i \in 1 .. n \/ i = n + 1)
    BY <1>1 DEF Edit
  <2>2. CASE i \in 1 .. n
    <3>1. i + o \in DOMAIN s /\ i + o > o
      BY <1>1, <2>1, <2>2
    <3>2. t[i] = Still(waits, s[i + o])
      BY <2>2 DEF Edit
    <3> QED
      BY <1>1, <2>2, <3>1, <3>2 DEF Left
  <2>3. CASE i = n + 1 /\ i \notin 1 .. n
    <3>1. Len(t) = n + 1
      BY <1>1, <2>3 DEF Edit
    <3> QED
      BY <2>3, <3>1 DEF Edit
  <2> QED
    BY <2>1, <2>2, <2>3
<1>3. \A c, d \in Call : PairInv(c, d) => PairInv(Still(waits, c), Still(waits, d))
  BY UnwaitedSame DEF PairInv
<1>4. \A i \in DOMAIN t : t[i].answer # "none" => i = 1
  <2> SUFFICES ASSUME NEW i \in DOMAIN t, t[i].answer # "none"
               PROVE  i = 1
    OBVIOUS
  <2>1. i \in 1 .. n /\ i + o \in DOMAIN s /\ s[i + o].answer # "none"
    BY <1>2, UnwaitedSame
  <2>2. i + o = 1
    BY <2>1 DEF QueueInv
  <2> QED
    BY <2>1, <2>2
<1>5. \A i \in DOMAIN t : \A d : d = t[i] => CallInv(p, d)'
  BY <1>2
<1>6. \A i, j \in DOMAIN t : i # j => PairInv(t[i], t[j])
  <2> SUFFICES ASSUME NEW i \in DOMAIN t, NEW j \in DOMAIN t, i # j
               PROVE  PairInv(t[i], t[j])
    OBVIOUS
  <2>1. CASE i \in 1 .. n /\ j \in 1 .. n
    <3>1. i + o \in DOMAIN s /\ j + o \in DOMAIN s /\ i + o # j + o /\ n + 1 # i /\ n + 1 # j
      BY <1>1, <1>2, <2>1
    <3>2. PairInv(s[i + o], s[j + o])
      BY <3>1 DEF QueueInv
    <3> QED
      BY <1>2, <1>3, <3>1, <3>2
  <2>2. CASE i \in 1 .. n /\ j = n + 1
    <3>1. j \notin 1 .. n /\ i # n + 1
      BY <1>1, <2>2
    <3>2. t[j] \in N /\ t[i] \in Left(p, o, waits)
      BY <1>2, <3>1
    <3> QED
      BY <3>2
  <2>3. CASE i = n + 1 /\ j \in 1 .. n
    <3>1. i \notin 1 .. n /\ j # n + 1
      BY <1>1, <2>3
    <3>2. t[i] \in N /\ t[j] \in Left(p, o, waits)
      BY <1>2, <3>1
    <3> QED
      BY <3>2
  <2> QED
    BY <1>2, <2>1, <2>2, <2>3
<1> QED
  BY <1>4, <1>5, <1>6 DEF QueueInv

LEMMA QueueLeft ==
    ASSUME TypeOK, TypeOK', NEW p \in Proc, QueueInv(p),
           NEW o \in {0, 1}, NEW waits \in BOOLEAN,
           Edit(calls[p], calls'[p], o, waits, {}),
           \A d \in Left(p, o, waits) : CallInv(p, d)'
    PROVE  QueueInv(p)'
<1>1. ASSUME NEW N \in SUBSET Call, N = {}
      PROVE  QueueInv(p)'
  BY <1>1, QueueMoves
<1> QED
  BY <1>1

LEMMA QueueGrows ==
    ASSUME TypeOK, TypeOK', NEW p \in Proc, QueueInv(p),
           NEW o \in {0, 1}, NEW waits \in BOOLEAN, NEW c \in Call, c.answer = "none",
           Edit(calls[p], calls'[p], o, waits, {c}),
           \A d \in Left(p, o, waits) : CallInv(p, d)' /\ PairInv(c, d) /\ PairInv(d, c),
           CallInv(p, c)'
    PROVE  QueueInv(p)'
<1>1. ASSUME NEW N \in SUBSET Call, N = {c}
      PROVE  QueueInv(p)'
  <2>1. \A d \in N : d = c
    BY <1>1
  <2>2. \A d \in N : d.answer = "none" /\ CallInv(p, d)'
    BY <2>1
  <2>3. \A b \in N : \A d \in Left(p, o, waits) : PairInv(b, d) /\ PairInv(d, b)
    BY <2>1
  <2> QED
    BY <1>1, <2>2, <2>3, QueueMoves
<1> QED
  BY <1>1

(* The same for a call that is answered.                                   *)
LEMMA HeadMoves ==
    ASSUME TypeOK, TypeOK', NEW p \in Proc, QueueInv(p), calls[p] # <<>>, NEW c \in Call,
           calls' = [calls EXCEPT ![p][1] = c],
           \A d \in Left(p, 1, TRUE) : CallInv(p, d)' /\ PairInv(c, d) /\ PairInv(d, c),
           CallInv(p, c)'
    PROVE  QueueInv(p)'
<1> DEFINE s == calls[p]
           t == calls'[p]
<1>1. /\ s \in Seq(Call) /\ DOMAIN s = 1 .. Len(s) /\ Len(s) \in Nat
      /\ t = [s EXCEPT ![1] = c] /\ DOMAIN t = DOMAIN s
  BY DEF TypeOK
<1>2. \A i \in DOMAIN t :
        /\ i = 1 => t[i] = c
        /\ i # 1 => i \in DOMAIN s /\ t[i] = s[i] /\ t[i] \in Left(p, 1, TRUE)
  BY <1>1 DEF Left, Still
<1>3. \A i \in DOMAIN t : t[i].answer # "none" => i = 1
  BY <1>1, <1>2 DEF QueueInv
<1>4. \A i \in DOMAIN t : \A d : d = t[i] => CallInv(p, d)'
  BY <1>2
<1>5. \A i, j \in DOMAIN t : i # j => PairInv(t[i], t[j])
  <2> SUFFICES ASSUME NEW i \in DOMAIN t, NEW j \in DOMAIN t, i # j
               PROVE  PairInv(t[i], t[j])
    OBVIOUS
  <2>1. CASE i = 1
    <3>1. t[i] = c /\ t[j] \in Left(p, 1, TRUE)
      BY <1>2, <2>1
    <3> QED
      BY <3>1
  <2>2. CASE j = 1
    <3>1. t[j] = c /\ t[i] \in Left(p, 1, TRUE)
      BY <1>2, <2>2
    <3> QED
      BY <3>1
  <2>3. CASE i # 1 /\ j # 1
    <3>1. i \in DOMAIN s /\ j \in DOMAIN s /\ t[i] = s[i] /\ t[j] = s[j]
      BY <1>2, <2>3
    <3> QED
      BY <3>1 DEF QueueInv
  <2> QED
    BY <2>1, <2>2, <2>3
<1> QED
  BY <1>3, <1>4, <1>5 DEF QueueInv

-----------------------------------------------------------------------------
(* What a step of the store leaves of the others' invariant *)

(* The store may take a lease away, grant it in an epoch nobody knows, let *)
(* it age, or commit in an epoch that is not in the books of q.            *)
Kept(q) ==
    \A e \in Nat \ {0} : Own(q, e) =>
        /\ Own(q, e)'
        /\ Matches(q, e)' => Matches(q, e) /\ store'.checkpoint = store.checkpoint
        /\ Fresh(q, e)' => Fresh(q, e)
        /\ e = store'.checkpoint => e = store.checkpoint

Same(q) == UNCHANGED <<stage[q], sweeps[q], claimed[q], leaseLost[q], renewTimer[q]>>

LEMMA StoreMoves ==
    ASSUME TypeOK, TypeOK', NEW q \in Proc, Kept(q), Same(q)
    PROVE  /\ SweepInv(q) => SweepInv(q)'
           /\ \A d \in Call : CallInv(q, d) => CallInv(q, d)'
<1>1. sweeps[q] \in Nat /\ store'.lastEpoch \in Nat /\ Own(q, 0)'
  BY DEF TypeOK, Store, Own
<1>2. ASSUME SweepInv(q)
      PROVE  SweepInv(q)'
  BY <1>1, <1>2 DEF SweepInv, Kept, Same
<1>3. ASSUME NEW d \in Call, CallInv(q, d)
      PROVE  CallInv(q, d)'
  <2>1. d.epoch \in Nat
    BY DEF Call
  <2>2. Own(q, d.epoch)'
    BY <1>1, <1>3, <2>1 DEF CallInv, Kept
  <2> QED
    BY <1>1, <1>3, <2>1, <2>2 DEF CallInv, Kept, Same, Sweeping
<1> QED
  BY <1>2, <1>3

LEMMA Bystander ==
    ASSUME TypeOK, TypeOK', NEW q \in Proc, Kept(q), Same(q), calls'[q] = calls[q], ProcInv(q)
    PROVE  ProcInv(q)'
<1>1. SweepInv(q)'
  BY StoreMoves DEF ProcInv
<1>2. \A d \in Call : CallInv(q, d) => CallInv(q, d)'
  BY StoreMoves
<1>3. \A i \in DOMAIN calls[q] : calls[q][i] \in Call
  BY DEF TypeOK
<1>4. \A i \in DOMAIN calls[q] : \A d : d = calls[q][i] => CallInv(q, d)'
  BY <1>2, <1>3 DEF ProcInv, QueueInv
<1>5. QueueInv(q)'
  BY <1>4 DEF ProcInv, QueueInv
<1> QED
  BY <1>1, <1>5 DEF ProcInv

-----------------------------------------------------------------------------
(* The actions of a process keep its invariant *)

(* The state of p after a step, name by name.                              *)
LEMMA Moved ==
    ASSUME TypeOK, NEW p \in Proc
    PROVE  /\ \A s : Enter(p, s) => stage'[p] = s
           /\ Forget(p) => sweeps'[p] = 0 /\ leaseLost'[p] = FALSE
           /\ \A c : Send(p, c) => calls'[p] = Append(calls[p], c)
           /\ Drop(p) => calls'[p] = Tail(calls[p])
           /\ \A q : calls' = [calls EXCEPT ![p] = q] => calls'[p] = q
           /\ \A e : sweeps' = [sweeps EXCEPT ![p] = e] => sweeps'[p] = e
           /\ \A c : claimed' = [claimed EXCEPT ![p] = c] => claimed'[p] = c
           /\ \A b : leaseLost' = [leaseLost EXCEPT ![p] = b] => leaseLost'[p] = b
           /\ \A b : renewTimer' = [renewTimer EXCEPT ![p] = b] => renewTimer'[p] = b
           /\ calls[p] \in Seq(Call) /\ stage[p] \in Stage /\ sweeps[p] \in Nat
           /\ claimed[p] \in Claimed /\ outcome[p] \in Outcome
           /\ leaseLost[p] \in BOOLEAN /\ renewTimer[p] \in BOOLEAN
<1>1. \A s : Enter(p, s) => stage'[p] = s
  BY DEF TypeOK, Enter
<1>2. /\ Forget(p) => sweeps'[p] = 0 /\ leaseLost'[p] = FALSE
      /\ \A e : sweeps' = [sweeps EXCEPT ![p] = e] => sweeps'[p] = e
      /\ \A b : leaseLost' = [leaseLost EXCEPT ![p] = b] => leaseLost'[p] = b
  BY DEF TypeOK, Forget
<1>3. /\ \A c : Send(p, c) => calls'[p] = Append(calls[p], c)
      /\ Drop(p) => calls'[p] = Tail(calls[p])
      /\ \A q : calls' = [calls EXCEPT ![p] = q] => calls'[p] = q
  BY DEF TypeOK, Send, Drop
<1>4. /\ \A c : claimed' = [claimed EXCEPT ![p] = c] => claimed'[p] = c
      /\ \A b : renewTimer' = [renewTimer EXCEPT ![p] = b] => renewTimer'[p] = b
  BY DEF TypeOK
<1> QED
  BY <1>1, <1>2, <1>3, <1>4 DEF TypeOK

(* c is a call that p makes, not answered yet.                             *)
New(p, c, op, e) ==
    c \in Call /\ c.op = op /\ c.epoch = e /\ c.base = claimed[p] /\ c.answer = "none"

LEMMA Operations == {"claim", "renew", "complete", "defer", "release"} \subseteq Op
BY DEF Op

LEMMA NewCallFields ==
    ASSUME TypeOK, NEW p \in Proc, NEW op, NEW e \in Nat, NEW c,
           op \in {"claim", "renew", "complete", "defer", "release"},
           c = NewCall(p, op, e) \/ \E saves \in BOOLEAN :
                                      c = [NewCall(p, op, e) EXCEPT !.saves = saves]
    PROVE  New(p, c, op, e) /\ New(p, Unwaited(c), op, e) /\ ~Unwaited(c).waited
<1>1. claimed[p] \in Claimed /\ outcome[p] \in Outcome /\ op \in Op
  BY Operations DEF TypeOK
<1> DEFINE r(s) == [op |-> op, epoch |-> e, base |-> claimed[p], outcome |-> outcome[p],
                    saves |-> s, waited |-> TRUE, answer |-> "none"]
<1>2. \A s \in BOOLEAN : New(p, r(s), op, e)
  BY <1>1 DEF New, Call
<1>3. PICK s \in BOOLEAN : c = r(s)
  BY DEF NewCall
<1>4. New(p, c, op, e)
  BY <1>2, <1>3
<1>5. /\ Unwaited(c) \in Call /\ Unwaited(c).op = c.op /\ Unwaited(c).epoch = c.epoch
      /\ Unwaited(c).base = c.base /\ Unwaited(c).answer = c.answer /\ ~Unwaited(c).waited
  BY <1>4 DEF New, Unwaited, Call
<1> QED
  BY <1>4, <1>5 DEF New

LEMMA Begins ==
    ASSUME TypeOK, TypeOK', NEW p \in Proc, ProcInv(p), Begin(p) \/ BackoffOver(p)
    PROVE  ProcInv(p)'
<1>0. PICK c : c = NewCall(p, "claim", 0)
  OBVIOUS
<1>1. /\ c \in Call /\ c.op = "claim" /\ c.epoch = 0 /\ c.answer = "none"
  BY <1>0, NewCallFields DEF New
<1>2. /\ stage[p] \in {"idle", "waiting"} /\ stage'[p] \in {"claiming", "reclaiming"}
      /\ calls'[p] = Append(calls[p], c) /\ calls[p] \in Seq(Call)
      /\ UNCHANGED <<store, sweeps, claimed, leaseLost, renewTimer>>
  BY <1>0, Moved DEF Begin, BackoffOver
<1>3. Edit(calls[p], calls'[p], 0, TRUE, {c})
  BY <1>1, <1>2, Edits
<1>4. SweepInv(p) /\ QueueInv(p)
  BY DEF ProcInv
<1>5. \A d \in Left(p, 0, TRUE) : d \in Call /\ CallInv(p, d)
  BY <1>4, LeftCalls
<1>6. sweeps[p] = 0
  BY <1>2, <1>4 DEF SweepInv, InSweep
<1>7. \A d \in Left(p, 0, TRUE) : d.waited => d.op = "renew"
  BY <1>2, <1>5 DEF CallInv, Waits, Call, Op
<1>8. \A d \in Left(p, 0, TRUE) : CallInv(p, d)'
  BY <1>2, <1>5, <1>7 DEF CallInv, Waits, Own, Matches, Fresh, Sweeping, Stage
<1>9. CallInv(p, c)'
  BY <1>1, <1>2 DEF CallInv, Waits, Own, TypeOK, Store
<1>10. \A d \in Left(p, 0, TRUE) : PairInv(c, d) /\ PairInv(d, c)
  BY <1>1, <1>5, <1>7 DEF PairInv, CallInv
<1>11. SweepInv(p)'
  BY <1>2, <1>4 DEF SweepInv, InSweep, Own, Matches, Fresh
<1>12. QueueInv(p)'
  BY <1>1, <1>3, <1>4, <1>8, <1>9, <1>10, QueueGrows
<1> QED
  BY <1>11, <1>12 DEF ProcInv

LEMMA Claims ==
    ASSUME TypeOK, TypeOK', NEW p \in Proc, ProcInv(p), ClaimReceived(p)
    PROVE  ProcInv(p)'
<1> DEFINE c == Head(calls[p])
<1>1. SweepInv(p) /\ QueueInv(p) /\ calls[p] # <<>> /\ c.op = "claim" /\ c.waited
  BY DEF ProcInv, ClaimReceived, Awaited, Received
<1>2. /\ c \in Call /\ CallInv(p, c)
      /\ \A d \in Left(p, 1, TRUE) : /\ d \in Call /\ CallInv(p, d) /\ d.answer = "none"
                                     /\ PairInv(c, d) /\ PairInv(d, c)
  BY <1>1, LeftCalls
<1> HIDE DEF c
<1>3. calls'[p] = Tail(calls[p]) /\ calls[p] \in Seq(Call) /\ UNCHANGED store
  BY Moved DEF ClaimReceived
<1>4. Edit(calls[p], calls'[p], 1, TRUE, {})
  BY <1>1, <1>2, <1>3, Edits
<1>5. stage[p] \in {"claiming", "reclaiming"} /\ sweeps[p] = 0
  BY <1>1, <1>2 DEF CallInv, Waits, SweepInv, InSweep
<1>6. \A d \in Left(p, 1, TRUE) : d.waited => d.op = "renew"
  BY <1>1, <1>2 DEF PairInv
<1>7. CASE c.answer = "yes"
  <2>1. /\ stage'[p] = "running" /\ sweeps'[p] = c.epoch /\ claimed'[p] = c.base
        /\ leaseLost'[p] = FALSE /\ renewTimer'[p] = TRUE
    BY <1>7, Moved DEF ClaimReceived, c
  <2>2. /\ c.epoch # 0 /\ c.epoch # store.checkpoint /\ Own(p, c.epoch)
        /\ Matches(p, c.epoch) => c.base.checkpoint = store.checkpoint
    BY <1>1, <1>2, <1>7 DEF CallInv
  <2>3. SweepInv(p)'
    BY <1>3, <2>1, <2>2 DEF SweepInv, InSweep, Own, Matches, Fresh
  <2>4. \A d \in Left(p, 1, TRUE) : d.epoch # c.epoch
    BY <1>1, <1>2, <2>2 DEF PairInv
  <2>5. \A d \in Left(p, 1, TRUE) : CallInv(p, d)'
    BY <1>2, <1>3, <1>6, <2>1, <2>4 DEF CallInv, Waits, Own, Matches, Fresh, Sweeping, Stage
  <2> QED
    BY <1>1, <1>4, <2>3, <2>5, QueueLeft DEF ProcInv
<1>8. CASE c.answer # "yes"
  <2>1. /\ stage'[p] \in {"waiting", "idle"}
        /\ UNCHANGED <<sweeps, claimed, leaseLost, renewTimer>>
    BY <1>8, Moved DEF ClaimReceived, c
  <2>2. SweepInv(p)'
    BY <1>1, <1>3, <1>5, <2>1 DEF SweepInv, InSweep, Own, Matches, Fresh
  <2>3. \A d \in Left(p, 1, TRUE) : CallInv(p, d)'
    BY <1>2, <1>3, <1>6, <2>1 DEF CallInv, Waits, Own, Matches, Fresh, Sweeping, Stage
  <2> QED
    BY <1>1, <1>4, <2>2, <2>3, QueueLeft DEF ProcInv
<1> QED
  BY <1>7, <1>8

LEMMA LateClaims ==
    ASSUME TypeOK, TypeOK', NEW p \in Proc, ProcInv(p), LateClaim(p)
    PROVE  ProcInv(p)'
<1> DEFINE c == Head(calls[p])
<1>0. PICK r : r = [NewCall(p, "release", c.epoch) EXCEPT !.waited = FALSE]
  OBVIOUS
<1>1. SweepInv(p) /\ QueueInv(p) /\ calls[p] # <<>> /\ c.op = "claim" /\ ~c.waited
  BY DEF ProcInv, LateClaim, Received
<1>2. /\ c \in Call /\ CallInv(p, c)
      /\ \A d \in Left(p, 1, TRUE) : /\ d \in Call /\ CallInv(p, d)
                                     /\ PairInv(c, d) /\ PairInv(d, c)
  BY <1>1, LeftCalls
<1>3. r \in Call /\ r.op = "release" /\ r.epoch = c.epoch /\ r.answer = "none" /\ ~r.waited
  <2>1. c.epoch \in Nat /\ r = Unwaited(NewCall(p, "release", c.epoch))
    BY <1>0, <1>2 DEF Call, Unwaited
  <2> QED
    BY <2>1, NewCallFields DEF New
<1>4. calls'[p] = IF c.answer = "yes" THEN Append(Tail(calls[p]), r) ELSE Tail(calls[p])
  BY <1>0, Moved DEF LateClaim
<1> HIDE DEF c
<1>5. /\ calls[p] \in Seq(Call)
      /\ UNCHANGED <<store, stage, sweeps, claimed, leaseLost, renewTimer>>
  BY Moved DEF LateClaim
<1>6. SweepInv(p)'
  BY <1>1, <1>5 DEF SweepInv, Own, Matches, Fresh
<1>7. \A d \in Left(p, 1, TRUE) : CallInv(p, d)'
  BY <1>2, <1>5 DEF CallInv, Own, Matches, Fresh, Sweeping
<1>8. CASE c.answer = "yes"
  <2>1. Edit(calls[p], calls'[p], 1, TRUE, {r})
    BY <1>1, <1>3, <1>4, <1>5, <1>8, Edits
  <2>2. c.epoch # 0 /\ c.epoch # sweeps[p] /\ Own(p, c.epoch)
    BY <1>1, <1>2, <1>8 DEF CallInv
  <2>3. CallInv(p, r)'
    BY <1>3, <1>5, <2>2 DEF CallInv, Own
  <2>4. \A d \in Left(p, 1, TRUE) : PairInv(r, d) /\ PairInv(d, r)
    BY <1>1, <1>2, <1>3 DEF PairInv
  <2> QED
    BY <1>1, <1>3, <1>6, <1>7, <2>1, <2>3, <2>4, QueueGrows DEF ProcInv
<1>9. CASE c.answer # "yes"
  <2>1. Edit(calls[p], calls'[p], 1, TRUE, {})
    BY <1>1, <1>2, <1>4, <1>5, <1>9, Edits
  <2> QED
    BY <1>1, <1>6, <1>7, <2>1, QueueLeft DEF ProcInv
<1> QED
  BY <1>8, <1>9

LEMMA Renews ==
    ASSUME TypeOK, TypeOK', NEW p \in Proc, ProcInv(p), RenewSend(p)
    PROVE  ProcInv(p)'
<1>0. PICK c : c = NewCall(p, "renew", sweeps[p])
  OBVIOUS
<1>1. /\ c \in Call /\ c.op = "renew" /\ c.epoch = sweeps[p] /\ c.answer = "none"
  <2>1. sweeps[p] \in Nat
    BY Moved
  <2> QED
    BY <1>0, <2>1, NewCallFields DEF New
<1>2. calls'[p] = Append(calls[p], c)
  BY <1>0, Moved DEF RenewSend
<1>3. /\ SweepInv(p) /\ QueueInv(p) /\ renewTimer[p] /\ ~leaseLost[p] /\ calls[p] \in Seq(Call)
      /\ UNCHANGED <<store, stage, sweeps, claimed, leaseLost, renewTimer>>
  BY Moved DEF RenewSend, ProcInv
<1>4. Edit(calls[p], calls'[p], 0, TRUE, {c})
  BY <1>1, <1>2, <1>3, Edits
<1>5. \A d \in Left(p, 0, TRUE) : d \in Call /\ CallInv(p, d)
  BY <1>3, LeftCalls
<1>6. \A d \in Left(p, 0, TRUE) : d.op # "renew"
  BY DEF Left, Still, RenewSend, Renewing
<1>7. SweepInv(p)'
  BY <1>3 DEF SweepInv, Own, Matches, Fresh
<1>8. \A d \in Left(p, 0, TRUE) : CallInv(p, d)'
  BY <1>3, <1>5 DEF CallInv, Own, Matches, Fresh, Sweeping
<1>9. sweeps[p] # 0 /\ sweeps[p] # store.checkpoint /\ Own(p, sweeps[p])
  BY <1>3 DEF SweepInv, InSweep
<1>10. CallInv(p, c)'
  BY <1>1, <1>3, <1>9 DEF CallInv, Own, Waits, TypeOK
<1>11. \A d \in Left(p, 0, TRUE) : PairInv(c, d) /\ PairInv(d, c)
  BY <1>1, <1>3, <1>5, <1>6 DEF PairInv, CallInv
<1> QED
  BY <1>1, <1>3, <1>4, <1>7, <1>8, <1>10, <1>11, QueueGrows DEF ProcInv

(* Answers after which the process does not call the store again at once.  *)
LEMMA Answers ==
    ASSUME TypeOK, TypeOK', NEW p \in Proc, ProcInv(p),
           \/ RenewReceived(p) \/ CommitReceived(p) \/ ReleaseReceived(p) \/ LateSettlement(p)
           \/ (DeferReceived(p) /\ Head(calls[p]).answer = "yes")
    PROVE  ProcInv(p)'
<1> DEFINE c == Head(calls[p])
<1>1. SweepInv(p) /\ QueueInv(p) /\ calls[p] # <<>> /\ Drop(p)
  BY DEF ProcInv, RenewReceived, CommitReceived, ReleaseReceived, LateSettlement,
         DeferReceived, Awaited, Received
<1>2. /\ c \in Call /\ CallInv(p, c)
      /\ \A d \in Left(p, 1, TRUE) : /\ d \in Call /\ CallInv(p, d)
                                     /\ PairInv(c, d) /\ PairInv(d, c)
  BY <1>1, LeftCalls
<1>3. Edit(calls[p], calls'[p], 1, TRUE, {})
  BY <1>1, <1>2, Edits, Moved
<1>4. UNCHANGED <<store, claimed, renewTimer>>
  BY DEF RenewReceived, CommitReceived, ReleaseReceived, LateSettlement, DeferReceived
<1>5. SweepInv(p)' /\ \A d \in Left(p, 1, TRUE) : CallInv(p, d)'
  <2>1. CASE RenewReceived(p)
    <3>1. /\ c.op = "renew" /\ UNCHANGED <<stage, sweeps>>
          /\ leaseLost'[p] = (leaseLost[p] \/ (c.answer = "no" /\ sweeps[p] = c.epoch))
      BY <2>1, Moved DEF RenewReceived, Received
    <3> HIDE DEF c
    <3>2. c.epoch # 0 /\ c.epoch # store.checkpoint /\ (c.answer = "no" => ~Fresh(p, c.epoch))
      BY <1>2, <3>1 DEF CallInv
    <3>3. SweepInv(p)'
      BY <1>1, <1>4, <3>1, <3>2 DEF SweepInv, Own, Matches, Fresh
    <3>4. \A d \in Left(p, 1, TRUE) :
            d.op # "renew" /\ (d.op = "complete" => d.epoch # c.epoch)
      BY <1>2, <3>1 DEF PairInv
    <3>5. \A d \in Left(p, 1, TRUE) : CallInv(p, d)'
      BY <1>2, <1>4, <3>1, <3>4 DEF CallInv, Own, Matches, Fresh, Sweeping
    <3> QED
      BY <3>3, <3>5
  <2>2. CASE LateSettlement(p)
    <3>1. UNCHANGED <<stage, sweeps, leaseLost>>
      BY <2>2 DEF LateSettlement
    <3> QED
      BY <1>1, <1>2, <1>4, <3>1 DEF SweepInv, CallInv, Own, Matches, Fresh, Sweeping
  <2>3. CASE CommitReceived(p) \/ ReleaseReceived(p) \/ (DeferReceived(p) /\ c.answer = "yes")
    <3>1. c.op \in {"complete", "defer", "release"} /\ c.waited
      BY <2>3 DEF CommitReceived, ReleaseReceived, DeferReceived, Awaited, Received
    <3>2. /\ stage[p] \in {"committing", "deferring", "releasing"}
          /\ stage[p] = "releasing" <=> c.op = "release"
      BY <1>2, <3>1 DEF CallInv, Waits
    <3>3. \A d \in Left(p, 1, TRUE) : d.waited => d.op = "renew"
      BY <1>2, <3>1 DEF PairInv
    <3>4. ~renewTimer[p]
      BY <1>1, <3>2 DEF SweepInv
    <3>5. CASE stage'[p] = "idle" /\ sweeps'[p] = 0 /\ leaseLost'[p] = FALSE
      <4>1. SweepInv(p)'
        BY <1>1, <1>4, <3>4, <3>5 DEF SweepInv, InSweep, Own, Matches, Fresh, TypeOK, Store
      <4>2. \A d \in Left(p, 1, TRUE) : CallInv(p, d)'
        BY <1>2, <1>4, <3>3, <3>4, <3>5
           DEF CallInv, Waits, Own, Matches, Fresh, Sweeping, Stage
      <4> QED
        BY <4>1, <4>2
    <3>6. CASE stage'[p] = "unwinding" /\ UNCHANGED <<sweeps, leaseLost>> /\ stage[p] = "committing"
      <4>1. SweepInv(p)'
        BY <1>1, <1>4, <3>4, <3>6 DEF SweepInv, InSweep, Own, Matches, Fresh
      <4>2. \A d \in Left(p, 1, TRUE) : CallInv(p, d)'
        BY <1>2, <1>4, <3>3, <3>6 DEF CallInv, Waits, Own, Matches, Fresh, Sweeping, Stage
      <4> QED
        BY <4>1, <4>2
    <3>7. CASE stage'[p] = "idle" /\ UNCHANGED <<sweeps, leaseLost>> /\ stage[p] = "releasing"
      <4>1. sweeps[p] = 0 /\ ~leaseLost[p]
        BY <1>1, <3>7 DEF SweepInv, InSweep
      <4> QED
        BY <1>4, <3>5, <3>7, <4>1, Moved
    <3>8. CASE ReleaseReceived(p)
      <4>1. stage'[p] = "idle" /\ UNCHANGED <<sweeps, leaseLost>> /\ c.op = "release"
        BY <3>8, Moved DEF ReleaseReceived, Awaited, Received
      <4> QED
        BY <3>2, <3>7, <4>1
    <3>9. CASE DeferReceived(p) /\ c.answer = "yes"
      <4>1. stage'[p] = "idle" /\ sweeps'[p] = 0 /\ leaseLost'[p] = FALSE
        BY <3>9, Moved DEF DeferReceived
      <4> QED
        BY <3>5, <4>1
    <3>10. CASE CommitReceived(p)
      <4>1. c.op = "complete"
        BY <3>10 DEF CommitReceived, Awaited, Received
      <4>2. stage[p] = "committing"
        BY <1>2, <3>1, <4>1 DEF CallInv, Waits
      <4>3. CASE c.answer = "yes"
        BY <3>5, <3>10, <4>3, Moved DEF CommitReceived
      <4>4. CASE c.answer # "yes"
        BY <3>6, <3>10, <4>2, <4>4, Moved DEF CommitReceived
      <4> QED
        BY <4>3, <4>4
    <3> QED
      BY <2>3, <3>8, <3>9, <3>10
  <2> QED
    BY <2>1, <2>2, <2>3
<1> QED
  BY <1>1, <1>3, <1>5, QueueLeft DEF ProcInv

LEMMA Passes ==
    ASSUME TypeOK, TypeOK', NEW p \in Proc, ProcInv(p), PassDone(p) \/ PassFails(p)
    PROVE  ProcInv(p)'
<1>1. /\ stage[p] = "running" /\ stage'[p] \in {"settling", "unwinding"} /\ renewTimer'[p] = FALSE
      /\ UNCHANGED <<store, calls, sweeps, claimed, leaseLost>>
  BY Moved DEF PassDone, PassFails
<1>2. SweepInv(p) /\ QueueInv(p) /\ calls[p] \in Seq(Call)
  BY Moved DEF ProcInv
<1>3. \A d \in Left(p, 0, TRUE) : d \in Call /\ CallInv(p, d)
  BY <1>2, LeftCalls
<1>4. Edit(calls[p], calls'[p], 0, TRUE, {})
  BY <1>1, <1>2, EditsNothing
<1>5. SweepInv(p)'
  BY <1>1, <1>2 DEF SweepInv, InSweep, Own, Matches, Fresh
<1>6. \A d \in Left(p, 0, TRUE) : d.waited => d.op = "renew"
  BY <1>1, <1>3 DEF CallInv, Waits, Call, Op
<1>7. \A d \in Left(p, 0, TRUE) : CallInv(p, d)'
  BY <1>1, <1>3, <1>6 DEF CallInv, Waits, Own, Matches, Fresh, Sweeping, Stage
<1> QED
  BY <1>2, <1>4, <1>5, <1>7, QueueLeft DEF ProcInv

LEMMA Commits ==
    ASSUME TypeOK, TypeOK', NEW p \in Proc, ProcInv(p), CommitStart(p)
    PROVE  ProcInv(p)'
<1>1. /\ stage[p] = "settling" /\ SweepInv(p) /\ QueueInv(p) /\ calls[p] \in Seq(Call)
      /\ UNCHANGED <<store, sweeps, claimed, leaseLost, renewTimer>>
  BY Moved DEF CommitStart, ProcInv
<1>2. \A d \in Left(p, 0, TRUE) : d \in Call /\ CallInv(p, d)
  BY <1>1, LeftCalls
<1>3. \A d \in Left(p, 0, TRUE) : d.op # "renew"
  BY DEF Left, Still, CommitStart, Renewing
<1>4. \A d \in Left(p, 0, TRUE) : ~d.waited
  BY <1>1, <1>2, <1>3 DEF CallInv, Waits, Call, Op
<1>5. sweeps[p] # 0 /\ ~renewTimer[p]
  BY <1>1 DEF SweepInv, InSweep
<1>6. CASE leaseLost[p]
  <2>1. stage'[p] = "unwinding" /\ UNCHANGED calls
    BY <1>6, Moved DEF CommitStart
  <2>2. Edit(calls[p], calls'[p], 0, TRUE, {})
    BY <1>1, <2>1, EditsNothing
  <2>3. SweepInv(p)'
    BY <1>1, <1>5, <2>1 DEF SweepInv, InSweep, Own, Matches, Fresh
  <2>4. \A d \in Left(p, 0, TRUE) : CallInv(p, d)'
    BY <1>1, <1>2, <1>4, <2>1 DEF CallInv, Own, Matches, Fresh, Sweeping
  <2> QED
    BY <1>1, <2>2, <2>3, <2>4, QueueLeft DEF ProcInv
<1>7. CASE ~leaseLost[p]
  <2>1. PICK c : /\ Send(p, c)
                 /\ \E saves \in BOOLEAN :
                      c = [NewCall(p, "complete", sweeps[p]) EXCEPT !.saves = saves]
    BY <1>7 DEF CommitStart
  <2>2. New(p, c, "complete", sweeps[p])
    <3>1. sweeps[p] \in Nat
      BY Moved
    <3> QED
      BY <2>1, <3>1, NewCallFields
  <2>3. stage'[p] = "committing" /\ calls'[p] = Append(calls[p], c)
    BY <1>7, <2>1, Moved DEF CommitStart
  <2>4. Edit(calls[p], calls'[p], 0, TRUE, {c})
    BY <1>1, <2>2, <2>3, Edits DEF New
  <2>5. SweepInv(p)'
    BY <1>1, <1>5, <2>3 DEF SweepInv, InSweep, Own, Matches, Fresh
  <2>6. \A d \in Left(p, 0, TRUE) : CallInv(p, d)'
    BY <1>1, <1>2, <1>4, <2>3 DEF CallInv, Own, Matches, Fresh, Sweeping
  <2>7. CallInv(p, c)'
    BY <1>1, <1>5, <1>7, <2>2, <2>3 DEF CallInv, New, SweepInv, Waits, Own, Matches
  <2>8. \A d \in Left(p, 0, TRUE) : PairInv(c, d) /\ PairInv(d, c)
    BY <1>2, <1>3, <1>4, <2>2 DEF PairInv, CallInv, New
  <2> QED
    BY <1>1, <2>2, <2>4, <2>5, <2>6, <2>7, <2>8, QueueGrows DEF ProcInv, New
<1> QED
  BY <1>6, <1>7

(* The sweep is given up; so are its waits.                                *)
LEMMA GivesUp ==
    ASSUME TypeOK, TypeOK', NEW p \in Proc, ProcInv(p), BudgetSpent(p) \/ ReleaseTimesOut(p)
    PROVE  ProcInv(p)'
<1>1. /\ calls'[p] = Unawaited(p) /\ SweepInv(p) /\ QueueInv(p) /\ calls[p] \in Seq(Call)
      /\ UNCHANGED <<store, sweeps, claimed, leaseLost>>
  BY Moved DEF BudgetSpent, ReleaseTimesOut, ProcInv
<1>2. \A d \in Left(p, 0, FALSE) : d \in Call /\ CallInv(p, d) /\ ~d.waited
  BY <1>1, LeftCalls
<1>3. Edit(calls[p], calls'[p], 0, FALSE, {})
  BY <1>1, EditsNothing DEF Unawaited, Unwaited
<1>4. \/ /\ sweeps[p] = 0 /\ stage'[p] = "idle" /\ UNCHANGED renewTimer
      \/ /\ sweeps[p] # 0 /\ stage'[p] = "unwinding" /\ renewTimer'[p] = FALSE
  <2>1. stage[p] = "releasing" => sweeps[p] = 0
    BY <1>1 DEF SweepInv, InSweep
  <2> QED
    BY <2>1, Moved DEF BudgetSpent, ReleaseTimesOut
<1>5. SweepInv(p)'
  BY <1>1, <1>4 DEF SweepInv, InSweep, Own, Matches, Fresh
<1>6. \A d \in Left(p, 0, FALSE) : CallInv(p, d)'
  BY <1>1, <1>2, <1>4 DEF CallInv, Own, Matches, Fresh, Sweeping
<1> QED
  BY <1>1, <1>3, <1>5, <1>6, QueueLeft DEF ProcInv

(* A release of the sweep's epoch is sent, behind calls that nobody waits  *)
(* for, or behind the answer to a defer.                                   *)
LEMMA Releases ==
    ASSUME TypeOK, TypeOK', NEW p \in Proc, ProcInv(p),
           \/ Unwind(p) /\ Release(p)
           \/ DeferTimesOut(p)
           \/ DeferReceived(p) /\ Head(calls[p]).answer # "yes"
    PROVE  ProcInv(p)'
<1>0. PICK c : c = NewCall(p, "release", sweeps[p])
  OBVIOUS
<1>1. New(p, c, "release", sweeps[p])
  <2>1. sweeps[p] \in Nat
    BY Moved
  <2> QED
    BY <1>0, <2>1, NewCallFields
<1>2. /\ SweepInv(p) /\ QueueInv(p) /\ calls[p] \in Seq(Call) /\ UNCHANGED <<store, claimed, renewTimer>>
      /\ stage'[p] = "releasing" /\ sweeps'[p] = 0 /\ leaseLost'[p] = FALSE
  BY Moved DEF ProcInv, Unwind, DeferTimesOut, DeferReceived, Release
<1>3. \E o \in {0, 1}, waits \in BOOLEAN :
        /\ Edit(calls[p], calls'[p], o, waits, {c})
        /\ \A d \in Left(p, o, waits) : d.waited => d.op = "renew"
  <2>1. CASE (Unwind(p) /\ Release(p)) \/ DeferTimesOut(p)
    <3>1. calls'[p] = Append(Unawaited(p), c)
      BY <1>0, <2>1, Moved DEF Unwind, DeferTimesOut, Release
    <3>2. Edit(calls[p], calls'[p], 0, FALSE, {c})
      BY <1>1, <1>2, <3>1, Edits DEF Unawaited, Unwaited, New
    <3>3. \A d \in Left(p, 0, FALSE) : ~d.waited
      BY <1>2, LeftCalls
    <3> QED
      BY <3>2, <3>3
  <2>2. CASE DeferReceived(p) /\ Head(calls[p]).answer # "yes"
    <3>1. /\ calls'[p] = Append(Tail(calls[p]), c) /\ calls[p] # <<>>
          /\ Head(calls[p]).op = "defer" /\ Head(calls[p]).waited
      BY <1>0, <2>2, Moved DEF DeferReceived, Awaited, Received
    <3>2. Edit(calls[p], calls'[p], 1, TRUE, {c})
      BY <1>1, <1>2, <3>1, Edits DEF New
    <3>3. \A d \in Left(p, 1, TRUE) : d \in Call /\ PairInv(Head(calls[p]), d)
      BY <1>2, <3>1, LeftCalls
    <3>4. \A d \in Left(p, 1, TRUE) : d.waited => d.op = "renew"
      BY <3>1, <3>3 DEF PairInv
    <3> QED
      BY <3>2, <3>4
  <2> QED
    BY <2>1, <2>2
<1>4. stage[p] \in {"unwinding", "deferring"} /\ sweeps[p] # 0 /\ ~renewTimer[p]
  <2>1. stage[p] \in {"unwinding", "deferring"}
    <3>1. CASE Unwind(p) \/ DeferTimesOut(p)
      BY <3>1 DEF Unwind, DeferTimesOut
    <3>2. CASE DeferReceived(p)
      BY <1>2, <3>2, LeftCalls DEF DeferReceived, Awaited, Received, CallInv, Waits
    <3> QED
      BY <3>1, <3>2
  <2> QED
    BY <1>2, <2>1 DEF SweepInv, InSweep
<1>5. SweepInv(p)'
  BY <1>2, <1>4 DEF SweepInv, InSweep, Own, TypeOK, Store
<1>6. PICK o \in {0, 1}, waits \in BOOLEAN :
        /\ Edit(calls[p], calls'[p], o, waits, {c})
        /\ \A d \in Left(p, o, waits) : d.waited => d.op = "renew"
  BY <1>3
<1>7. \A d \in Left(p, o, waits) : d \in Call /\ CallInv(p, d)
  BY <1>2, LeftCalls
<1>8. \A d \in Left(p, o, waits) : CallInv(p, d)'
  BY <1>2, <1>4, <1>6, <1>7 DEF CallInv, Waits, Own, Matches, Fresh, Sweeping, Stage
<1>9. CallInv(p, c)'
  BY <1>1, <1>2, <1>4 DEF New, CallInv, SweepInv, Waits, Own, Sweeping
<1>10. \A d \in Left(p, o, waits) : PairInv(c, d) /\ PairInv(d, c)
  BY <1>1, <1>6, <1>7 DEF New, PairInv, CallInv
<1> QED
  BY <1>1, <1>2, <1>5, <1>6, <1>8, <1>9, <1>10, QueueGrows DEF ProcInv, New

LEMMA Defers ==
    ASSUME TypeOK, TypeOK', NEW p \in Proc, ProcInv(p), Unwind(p), ~Release(p)
    PROVE  ProcInv(p)'
<1>0. PICK c : c = NewCall(p, "defer", sweeps[p])
  OBVIOUS
<1>1. New(p, c, "defer", sweeps[p])
  <2>1. sweeps[p] \in Nat
    BY Moved
  <2> QED
    BY <1>0, <2>1, NewCallFields
<1>2. /\ SweepInv(p) /\ QueueInv(p) /\ calls[p] \in Seq(Call)
      /\ UNCHANGED <<store, sweeps, claimed, leaseLost, renewTimer>>
      /\ stage[p] = "unwinding" /\ stage'[p] = "deferring" /\ calls'[p] = Append(calls[p], c)
  BY <1>0, Moved DEF ProcInv, Unwind
<1>3. Edit(calls[p], calls'[p], 0, TRUE, {c})
  BY <1>1, <1>2, Edits DEF New
<1>4. \A d \in Left(p, 0, TRUE) : d \in Call /\ CallInv(p, d)
  BY <1>2, LeftCalls
<1>5. \A d \in Left(p, 0, TRUE) : d.waited => d.op = "renew"
  BY <1>2, <1>4 DEF CallInv, Waits, Call, Op
<1>6. SweepInv(p)' /\ sweeps[p] # 0 /\ Own(p, sweeps[p])
  BY <1>2 DEF SweepInv, InSweep, Own, Matches, Fresh
<1>7. \A d \in Left(p, 0, TRUE) : CallInv(p, d)'
  BY <1>2, <1>4, <1>5 DEF CallInv, Waits, Own, Matches, Fresh, Sweeping, Stage
<1>8. CallInv(p, c)'
  BY <1>1, <1>2, <1>6 DEF New, CallInv, Waits, Own, Sweeping
<1>9. \A d \in Left(p, 0, TRUE) : PairInv(c, d) /\ PairInv(d, c)
  BY <1>1, <1>4, <1>5 DEF New, PairInv, CallInv
<1> QED
  BY <1>1, <1>2, <1>3, <1>6, <1>7, <1>8, <1>9, QueueGrows DEF ProcInv, New

LEMMA Crashes ==
    ASSUME TypeOK, TypeOK', NEW p \in Proc, ProcInv(p), Crash(p)
    PROVE  ProcInv(p)'
<1>1. /\ calls'[p] = <<>> /\ stage'[p] = "idle" /\ sweeps'[p] = 0 /\ leaseLost'[p] = FALSE
      /\ renewTimer'[p] = FALSE
  BY Moved DEF Crash
<1>2. QueueInv(p)'
  BY <1>1 DEF QueueInv
<1>3. SweepInv(p)'
  BY <1>1 DEF SweepInv, InSweep, Own, TypeOK, Store
<1> QED
  BY <1>2, <1>3 DEF ProcInv

-----------------------------------------------------------------------------
(* The steps *)

(* An action of p but for the service of its calls.                        *)
Acts(p) == Answer(p) \/ Deadline(p) \/ Begin(p) \/ BackoffOver(p) \/ RenewSend(p)
             \/ PassDone(p) \/ PassFails(p) \/ CommitStart(p) \/ Crash(p)

(* It touches neither the store nor another process.                       *)
LEMMA Alone ==
    ASSUME TypeOK, NEW p \in Proc, Acts(p)
    PROVE  UNCHANGED store /\ \A q \in Proc \ {p} : Same(q) /\ calls'[q] = calls[q]
<1>1. \A q \in Proc \ {p} :
        /\ \A s : Enter(p, s) => stage'[q] = stage[q]
        /\ Forget(p) => sweeps'[q] = sweeps[q] /\ leaseLost'[q] = leaseLost[q]
        /\ \A c : Send(p, c) => calls'[q] = calls[q]
        /\ Drop(p) => calls'[q] = calls[q]
        /\ \A s : calls' = [calls EXCEPT ![p] = s] => calls'[q] = calls[q]
        /\ \A e : sweeps' = [sweeps EXCEPT ![p] = e] => sweeps'[q] = sweeps[q]
        /\ \A c : claimed' = [claimed EXCEPT ![p] = c] => claimed'[q] = claimed[q]
        /\ \A b : leaseLost' = [leaseLost EXCEPT ![p] = b] => leaseLost'[q] = leaseLost[q]
        /\ \A b : renewTimer' = [renewTimer EXCEPT ![p] = b] => renewTimer'[q] = renewTimer[q]
  BY DEF TypeOK, Enter, Forget, Send, Drop
<1>2. CASE ClaimReceived(p) \/ LateClaim(p) \/ RenewReceived(p) \/ CommitReceived(p)
  BY <1>1, <1>2 DEF ClaimReceived, LateClaim, RenewReceived, CommitReceived, Same
<1>3. CASE DeferReceived(p) \/ ReleaseReceived(p) \/ LateSettlement(p)
  BY <1>1, <1>3 DEF DeferReceived, ReleaseReceived, LateSettlement, Same
<1>4. CASE Deadline(p)
  BY <1>1, <1>4 DEF Deadline, BudgetSpent, Unwind, DeferTimesOut, ReleaseTimesOut, Release, Same
<1>5. CASE Begin(p) \/ BackoffOver(p) \/ RenewSend(p)
  BY <1>1, <1>5 DEF Begin, BackoffOver, RenewSend, Same
<1>6. CASE PassDone(p) \/ PassFails(p) \/ CommitStart(p)
  BY <1>1, <1>6 DEF PassDone, PassFails, CommitStart, Same
<1>7. CASE Crash(p)
  BY <1>1, <1>7 DEF Crash, Same
<1> QED
  BY <1>2, <1>3, <1>4, <1>5, <1>6, <1>7 DEF Acts, Answer

LEMMA ActSteps ==
    ASSUME LeaseInv, TypeOK', NEW p \in Proc, Acts(p)
    PROVE  LeaseInv'
<1>1. TypeOK /\ StoreInv /\ \A q \in Proc : ProcInv(q)
  BY DEF LeaseInv
<1>2. UNCHANGED store /\ \A q \in Proc \ {p} : Same(q) /\ calls'[q] = calls[q]
  BY <1>1, Alone
<1>3. ProcInv(p)'
  <2>1. CASE Answer(p)
    <3>1. CASE DeferReceived(p) /\ Head(calls[p]).answer # "yes"
      BY <1>1, <3>1, Releases
    <3>2. CASE ~(DeferReceived(p) /\ Head(calls[p]).answer # "yes")
      BY <1>1, <2>1, <3>2, Claims, LateClaims, Answers DEF Answer
    <3> QED
      BY <3>1, <3>2
  <2>2. CASE Deadline(p)
    BY <1>1, <2>2, GivesUp, Releases, Defers DEF Deadline
  <2>3. CASE ~Answer(p) /\ ~Deadline(p)
    BY <1>1, <2>3, Begins, Renews, Passes, Commits, Crashes DEF Acts
  <2> QED
    BY <2>1, <2>2, <2>3
<1>4. \A q \in Proc : Kept(q)
  BY <1>2 DEF Kept, Own, Matches, Fresh
<1>5. \A q \in Proc \ {p} : ProcInv(q)'
  BY <1>1, <1>2, <1>4, Bystander
<1>6. StoreInv'
  BY <1>1, <1>2 DEF StoreInv
<1> QED
  BY <1>3, <1>5, <1>6 DEF LeaseInv

(* A lease grows older, and with it nothing else.                          *)
LEMMA TickSteps ==
    ASSUME LeaseInv, TypeOK', Tick
    PROVE  LeaseInv'
<1>1. TypeOK /\ StoreInv /\ \A q \in Proc : ProcInv(q)
  BY DEF LeaseInv
<1>2. \A q \in Proc : Same(q) /\ calls'[q] = calls[q]
  BY DEF Tick, Same
<1>3. /\ store'.lease.owner = store.lease.owner /\ store'.lease.epoch = store.lease.epoch
      /\ store'.lease.ttl <= store.lease.ttl /\ store.lease.ttl \in Int
      /\ store'.lease.ttl \in Int
      /\ store'.lastEpoch = store.lastEpoch /\ store'.checkpoint = store.checkpoint
  <2>1. store'.lease = Aged /\ store'.lastEpoch = store.lastEpoch
        /\ store'.checkpoint = store.checkpoint
    BY <1>1 DEF Tick, TypeOK, Store
  <2>2. store.lease \in Lease \union {NoLease} /\ MaxLag \in Nat
    BY <1>1, SizesAssumption DEF TypeOK, Store
  <2> QED
    BY <2>1, <2>2 DEF Aged, Lease, NoLease
<1>4. \A q \in Proc : Kept(q)
  BY <1>3 DEF Kept, Own, Matches, Fresh
<1>5. \A q \in Proc : ProcInv(q)'
  BY <1>1, <1>2, <1>4, Bystander
<1>6. StoreInv'
  BY <1>1, <1>3 DEF StoreInv
<1> QED
  BY <1>5, <1>6 DEF LeaseInv

-----------------------------------------------------------------------------
(* The store serves a call *)

(* Those whose call it is not keep their invariant.                        *)
LEMMA Served ==
    ASSUME LeaseInv, TypeOK', NEW p \in Proc, Serve(p), StoreInv', ProcInv(p)',
           \A q \in Proc \ {p} : Kept(q)
    PROVE  LeaseInv'
<1>1. TypeOK /\ \A q \in Proc : ProcInv(q)
  BY DEF LeaseInv
<1>2. \A q \in Proc \ {p} : calls'[q] = calls[q]
  <2>1. \A c : \A q \in Proc \ {p} : calls' = [calls EXCEPT ![p][1] = c] => calls'[q] = calls[q]
    BY <1>1 DEF TypeOK
  <2>2. \E c : calls' = [calls EXCEPT ![p][1] = c]
    BY DEF Serve, ServeClaim, ServeRenewal, ServeSettlement, ServeFails
  <2> QED
    BY <2>1, <2>2
<1>3. \A q \in Proc : Same(q)
  BY DEF Serve, Same
<1>4. \A q \in Proc \ {p} : ProcInv(q)'
  BY <1>1, <1>2, <1>3, Bystander
<1> QED
  BY <1>4 DEF LeaseInv

(* What the store has when a call of p is served.                          *)
LEMMA Serving ==
    ASSUME LeaseInv, NEW p \in Proc, Serve(p)
    PROVE  /\ TypeOK /\ StoreInv /\ SweepInv(p) /\ QueueInv(p) /\ calls[p] # <<>> /\ Same(p)
           /\ \A q \in Proc : SweepInv(q) /\ QueueInv(q)
           /\ store \in Store
           /\ Head(calls[p]) \in Call /\ CallInv(p, Head(calls[p])) /\ Head(calls[p]).answer = "none"
           /\ \A d \in Left(p, 1, TRUE) :
                /\ d \in Call /\ CallInv(p, d) /\ d.answer = "none"
                /\ PairInv(Head(calls[p]), d) /\ PairInv(d, Head(calls[p]))
<1>1. TypeOK /\ StoreInv /\ \A q \in Proc : SweepInv(q) /\ QueueInv(q)
  BY DEF LeaseInv, ProcInv
<1>2. calls[p] # <<>> /\ Head(calls[p]).answer = "none" /\ Same(p)
  BY DEF Serve, Same
<1> QED
  BY <1>1, <1>2, LeftCalls DEF TypeOK

(* The answer changes nothing else, and is no grant.                       *)
LEMMA Refuses ==
    ASSUME LeaseInv, TypeOK', NEW p \in Proc, Serve(p), UNCHANGED store,
           NEW a \in {"yes", "no", "backoff", "error"},
           calls' = [calls EXCEPT ![p][1] = Answered(Head(calls[p]), a)],
           Head(calls[p]).op = "claim" => a # "yes",
           Head(calls[p]).op = "renew" /\ a = "no" => ~Fresh(p, Head(calls[p]).epoch)
    PROVE  LeaseInv'
<1>0. PICK c, r : c = Head(calls[p]) /\ r = Answered(c, a)
  OBVIOUS
<1>1. /\ TypeOK /\ StoreInv /\ SweepInv(p) /\ QueueInv(p) /\ calls[p] # <<>> /\ Same(p)
      /\ c \in Call /\ CallInv(p, c) /\ c.answer = "none"
      /\ \A d \in Left(p, 1, TRUE) : d \in Call /\ CallInv(p, d) /\ PairInv(c, d) /\ PairInv(d, c)
  BY <1>0, Serving
<1>2. /\ r \in Call /\ r.op = c.op /\ r.epoch = c.epoch /\ r.base = c.base
      /\ r.waited = c.waited /\ r.answer = a
  BY <1>0, <1>1 DEF Answered, Call
<1>3. \A q \in Proc : Kept(q)
  BY DEF Kept, Own, Matches, Fresh
<1>4. SweepInv(p)' /\ \A d \in Call : CallInv(p, d) => CallInv(p, d)'
  BY <1>1, <1>3, StoreMoves
<1>5. CallInv(p, r)
  BY <1>0, <1>1, <1>2 DEF CallInv
<1>6. \A d \in Left(p, 1, TRUE) : CallInv(p, d)' /\ PairInv(r, d) /\ PairInv(d, r)
  BY <1>1, <1>2, <1>4 DEF PairInv
<1>7. CallInv(p, r)'
  BY <1>2, <1>4, <1>5
<1>8. QueueInv(p)'
  BY <1>0, <1>1, <1>2, <1>6, <1>7, HeadMoves
<1>9. StoreInv'
  BY <1>1 DEF StoreInv
<1> QED
  BY <1>3, <1>4, <1>8, <1>9, Served DEF ProcInv

LEMMA Grants ==
    ASSUME LeaseInv, TypeOK', NEW p \in Proc, Serve(p), NEW lag \in 0 .. MaxLag,
           Head(calls[p]).op = "claim",
           store' = Grant(p, lag),
           calls' = [calls EXCEPT ![p][1] =
              [Answered(Head(calls[p]), "yes") EXCEPT
                  !.epoch = store.lastEpoch + 1,
                  !.base = [checkpoint |-> store.checkpoint, overloads |-> store.overloads]]]
    PROVE  LeaseInv'
<1>0. PICK c, r : /\ c = Head(calls[p])
                  /\ r = [Answered(c, "yes") EXCEPT
                            !.epoch = store.lastEpoch + 1,
                            !.base = [checkpoint |-> store.checkpoint,
                                      overloads |-> store.overloads]]
  OBVIOUS
<1>1. /\ TypeOK /\ StoreInv /\ SweepInv(p) /\ QueueInv(p) /\ calls[p] # <<>> /\ Same(p)
      /\ store \in Store /\ c \in Call /\ CallInv(p, c) /\ c.answer = "none"
      /\ \A d \in Left(p, 1, TRUE) : d \in Call /\ CallInv(p, d) /\ PairInv(c, d) /\ PairInv(d, c)
  BY <1>0, Serving
<1>2. /\ store'.lastEpoch = store.lastEpoch + 1 /\ store'.checkpoint = store.checkpoint
      /\ store'.lease.owner = p /\ store'.lease.epoch = store.lastEpoch + 1
      /\ store.lastEpoch \in Nat /\ store.checkpoint \in Nat
  BY <1>1 DEF Grant, Store
<1>3. /\ r \in Call /\ r.op = "claim" /\ r.epoch = store.lastEpoch + 1
      /\ r.base.checkpoint = store.checkpoint /\ r.waited = c.waited /\ r.answer = "yes"
  <2>1. r \in Call
    BY <1>0, <1>1, StoreTypes
  <2>2. /\ r.epoch = store.lastEpoch + 1
        /\ r.base = [checkpoint |-> store.checkpoint, overloads |-> store.overloads]
        /\ r.op = c.op /\ r.waited = c.waited /\ r.answer = "yes"
    BY <1>0, <1>1 DEF Answered, Call
  <2> QED
    BY <1>0, <2>1, <2>2
<1>4. \A q \in Proc : Kept(q)
  BY <1>2 DEF Kept, Own, Matches, Fresh
<1>5. SweepInv(p)' /\ \A d \in Call : CallInv(p, d) => CallInv(p, d)'
  BY <1>1, <1>4, StoreMoves
<1>6. \A d \in Left(p, 1, TRUE) : CallInv(p, d)' /\ d.epoch \in Nat /\ d.epoch <= store.lastEpoch
  BY <1>1, <1>5 DEF CallInv, Own, Call
<1>7. \A d \in Left(p, 1, TRUE) : PairInv(r, d) /\ PairInv(d, r)
  <2>1. c.op = "claim" /\ r.op = "claim"
    BY <1>0, <1>3
  <2> SUFFICES ASSUME NEW d \in Left(p, 1, TRUE)
               PROVE  PairInv(r, d) /\ PairInv(d, r)
    OBVIOUS
  <2>2. d.epoch # r.epoch
    <3>1. d.epoch \in Nat /\ d.epoch <= store.lastEpoch
      BY <1>6
    <3> QED
      BY <1>2, <1>3, <3>1
  <2>3. PairInv(c, d) /\ PairInv(d, c)
    BY <1>1
  <2> QED
    BY <1>3, <2>1, <2>2, <2>3 DEF PairInv
<1>8. sweeps[p] \in Nat /\ sweeps[p] <= store.lastEpoch
  BY <1>1 DEF SweepInv, Own, TypeOK
<1>9. CallInv(p, r)'
  <2>1. r.waited => stage[p] \in Waits("claim")
    BY <1>0, <1>1, <1>3 DEF CallInv
  <2> QED
    BY <1>1, <1>2, <1>3, <1>8, <2>1 DEF CallInv, Own, Matches, Same, StoreInv
<1>10. QueueInv(p)'
  <2>1. calls' = [calls EXCEPT ![p][1] = r]
    BY <1>0
  <2> QED
    BY <1>1, <1>3, <1>6, <1>7, <1>9, <2>1, HeadMoves
<1>11. StoreInv'
  BY <1>1, <1>2 DEF StoreInv
<1> QED
  BY <1>4, <1>5, <1>10, <1>11, Served DEF ProcInv

LEMMA Renewals ==
    ASSUME LeaseInv, TypeOK', NEW p \in Proc, Serve(p), NEW lag \in 0 .. MaxLag,
           Head(calls[p]).op = "renew", Matches(p, Head(calls[p]).epoch), Held(lag),
           store' = [store EXCEPT !.lease.ttl = LeaseTerm - lag],
           calls' = [calls EXCEPT ![p][1] = Answered(Head(calls[p]), "yes")]
    PROVE  LeaseInv'
<1>0. PICK c, r : c = Head(calls[p]) /\ r = Answered(c, "yes")
  OBVIOUS
<1>1. /\ TypeOK /\ StoreInv /\ SweepInv(p) /\ QueueInv(p) /\ calls[p] # <<>> /\ Same(p)
      /\ store \in Store /\ c \in Call /\ CallInv(p, c) /\ c.answer = "none"
      /\ \A d \in Left(p, 1, TRUE) : d \in Call /\ CallInv(p, d) /\ PairInv(c, d) /\ PairInv(d, c)
  BY <1>0, Serving
<1>2. /\ store'.lastEpoch = store.lastEpoch /\ store'.checkpoint = store.checkpoint
      /\ store'.lease.owner = p /\ store'.lease.epoch = c.epoch
      /\ store.lease.owner = p /\ store.lease.epoch = c.epoch
  BY <1>0, <1>1 DEF Store, Lease, Held, Matches
<1>3. /\ r \in Call /\ r.op = "renew" /\ r.epoch = c.epoch /\ r.base = c.base
      /\ r.waited = c.waited /\ r.answer = "yes"
  BY <1>0, <1>1 DEF Answered, Call
<1>4. \A q \in Proc \ {p} : Kept(q)
  BY <1>2 DEF Kept, Own, Matches, Fresh
<1>5. ~(leaseLost[p] /\ sweeps[p] = c.epoch)
  BY <1>0, <1>1 DEF CallInv
<1>6. SweepInv(p)'
  BY <1>1, <1>2, <1>5 DEF SweepInv, Own, Matches, Fresh, Same
<1>7. \A d \in Left(p, 1, TRUE) : d.op # "renew"
  BY <1>0, <1>1 DEF PairInv
<1>8. \A d \in Left(p, 1, TRUE) : CallInv(p, d)' /\ PairInv(r, d) /\ PairInv(d, r)
  <2>1. \A d \in Left(p, 1, TRUE) : PairInv(r, d) /\ PairInv(d, r)
    BY <1>0, <1>1, <1>3 DEF PairInv
  <2>2. \A d \in Left(p, 1, TRUE) : CallInv(p, d)'
    BY <1>1, <1>2, <1>7 DEF CallInv, Own, Matches, Sweeping, Same
  <2> QED
    BY <2>1, <2>2
<1>9. CallInv(p, r)'
  BY <1>0, <1>1, <1>2, <1>3 DEF CallInv, Own, Matches, Sweeping, Same
<1>10. QueueInv(p)'
  BY <1>0, <1>1, <1>3, <1>8, <1>9, HeadMoves
<1>11. StoreInv'
  BY <1>1, <1>2 DEF StoreInv
<1> QED
  BY <1>4, <1>6, <1>10, <1>11, Served DEF ProcInv

LEMMA Settlements ==
    ASSUME LeaseInv, TypeOK', NEW p \in Proc, Serve(p),
           Head(calls[p]).op \notin {"claim", "renew"}, Matches(p, Head(calls[p]).epoch),
           store' = Settled(Head(calls[p])),
           calls' = [calls EXCEPT ![p][1] = Answered(Head(calls[p]), "yes")]
    PROVE  LeaseInv'
<1>0. PICK c, r : c = Head(calls[p]) /\ r = Answered(c, "yes")
  OBVIOUS
<1>1. /\ TypeOK /\ StoreInv /\ SweepInv(p) /\ QueueInv(p) /\ calls[p] # <<>> /\ Same(p)
      /\ store \in Store /\ c \in Call /\ CallInv(p, c) /\ c.answer = "none"
      /\ \A d \in Left(p, 1, TRUE) : d \in Call /\ CallInv(p, d) /\ PairInv(c, d) /\ PairInv(d, c)
  BY <1>0, Serving
<1>2. c.op \in {"complete", "defer", "release"} /\ store' = Settled(c)
  BY <1>0, <1>1 DEF Call, Op
<1>3. /\ store'.lastEpoch = store.lastEpoch /\ store'.lease = NoLease
      /\ \/ store'.checkpoint = store.checkpoint
         \/ c.op = "complete" /\ store'.checkpoint = c.epoch
      /\ store.lease.owner = p /\ store.lease.epoch = c.epoch
  <2>1. CASE c.op = "complete"
    BY <1>0, <1>1, <1>2, <2>1 DEF Settled, Store, Matches
  <2>2. CASE c.op \in {"defer", "release"}
    BY <1>0, <1>1, <1>2, <2>2 DEF Settled, Store, Matches
  <2> QED
    BY <1>2, <2>1, <2>2
<1>4. store'.lease.epoch = 0
  BY <1>3 DEF NoLease
<1>5. /\ r \in Call /\ r.op = c.op /\ r.epoch = c.epoch /\ r.base = c.base
      /\ r.waited = c.waited /\ r.answer = "yes"
  BY <1>0, <1>1 DEF Answered, Call
<1>6. c.epoch # 0 /\ c.epoch \in Nat /\ c.epoch <= store.lastEpoch
  BY <1>1, <1>2 DEF CallInv, Own, Call
<1>7. \A q \in Proc \ {p} : Kept(q)
  BY <1>3, <1>4 DEF Kept, Own, Matches, Fresh
<1>8. SweepInv(p)'
  BY <1>1, <1>3, <1>4 DEF SweepInv, CallInv, Own, Matches, Fresh, Same
<1>9. \A d \in Left(p, 1, TRUE) :
        /\ d.op = "claim" /\ d.epoch # 0 => d.epoch # c.epoch
        /\ c.op = "complete" /\ d.op = "renew" => d.epoch # c.epoch
        /\ d.op = "renew" => d.epoch # 0
  BY <1>1 DEF PairInv, CallInv
<1>10. \A d \in Left(p, 1, TRUE) : CallInv(p, d)'
  <2> SUFFICES ASSUME NEW d \in Left(p, 1, TRUE)
               PROVE  CallInv(p, d)'
    OBVIOUS
  <2>1. d \in Call /\ CallInv(p, d) /\ Own(p, d.epoch)
    BY <1>1 DEF CallInv
  <2>2. Own(p, d.epoch)' /\ (d.epoch # 0 => ~Matches(p, d.epoch)' /\ ~Fresh(p, d.epoch)')
    BY <1>3, <1>4, <2>1 DEF Own, Matches, Fresh
  <2>3. d.op \in {"claim", "renew"} /\ d.epoch # 0 => d.epoch # store'.checkpoint
    BY <1>3, <1>9, <2>1 DEF CallInv
  <2> QED
    BY <1>1, <1>9, <2>1, <2>2, <2>3 DEF CallInv, Sweeping, Same
<1>11. \A d \in Left(p, 1, TRUE) : PairInv(r, d) /\ PairInv(d, r)
  BY <1>1, <1>5 DEF PairInv
<1>12. CallInv(p, r)'
  BY <1>1, <1>2, <1>3, <1>4, <1>5, <1>6 DEF CallInv, Own, Matches, Sweeping, Same
<1>13. QueueInv(p)'
  BY <1>0, <1>1, <1>5, <1>10, <1>11, <1>12, HeadMoves
<1>14. StoreInv'
  BY <1>1, <1>3, <1>4, <1>6 DEF StoreInv, Store
<1> QED
  BY <1>7, <1>8, <1>13, <1>14, Served DEF ProcInv

LEMMA ServeSteps ==
    ASSUME LeaseInv, TypeOK', NEW p \in Proc, Serve(p)
    PROVE  LeaseInv'
<1> DEFINE c == Head(calls[p])
<1>1. CASE c.op = "claim" /\ \E lag \in 0 .. MaxLag : ServeClaim(p, c, lag)
  BY <1>1, Refuses, Grants DEF ServeClaim
<1>2. CASE c.op = "renew" /\ \E lag \in 0 .. MaxLag : ServeRenewal(p, c, lag)
  <2>1. PICK lag \in 0 .. MaxLag : ServeRenewal(p, c, lag)
    BY <1>2
  <2>2. CASE Matches(p, c.epoch) /\ Held(lag)
    BY <1>2, <2>1, <2>2, Renewals DEF ServeRenewal
  <2>3. CASE ~(Matches(p, c.epoch) /\ Held(lag))
    <3>1. ~Fresh(p, c.epoch)
      <4>1. store \in Store /\ c.epoch # 0
        BY <1>2, Serving DEF CallInv
      <4> QED
        BY <2>3, <4>1 DEF Fresh, Matches, Held, Store, Lease, NoLease
    <3> QED
      BY <1>2, <2>1, <2>3, <3>1, Refuses DEF ServeRenewal
  <2> QED
    BY <2>2, <2>3
<1>3. CASE c.op \notin {"claim", "renew"} /\ ServeSettlement(p, c)
  BY <1>3, Refuses, Settlements DEF ServeSettlement
<1>4. CASE ServeFails(p, c)
  BY <1>4, Refuses DEF ServeFails
<1> QED
  BY <1>1, <1>2, <1>3, <1>4 DEF Serve

-----------------------------------------------------------------------------
(* Theorems *)

LEMMA LeaseInit == Init => LeaseInv
<1> SUFFICES ASSUME Init
             PROVE  LeaseInv
  OBVIOUS
<1>1. TypeOK
  BY SweepTypeInit
<1>2. StoreInv
  BY DEF Init, StoreInv, NoLease
<1>3. ASSUME NEW p \in Proc
      PROVE  ProcInv(p)
  <2>1. SweepInv(p)
    BY DEF Init, SweepInv, InSweep, Own, NoLease
  <2>2. QueueInv(p)
    BY DEF Init, QueueInv
  <2> QED
    BY <2>1, <2>2 DEF ProcInv
<1> QED
  BY <1>1, <1>2, <1>3 DEF LeaseInv

LEMMA LeaseStep == LeaseInv /\ [Next]_vars => LeaseInv'
<1> SUFFICES ASSUME LeaseInv, [Next]_vars
             PROVE  LeaseInv'
  OBVIOUS
<1>1. TypeOK'
  BY SweepTypeStep DEF LeaseInv
<1>2. CASE Tick
  BY <1>1, <1>2, TickSteps
<1>3. ASSUME NEW p \in Proc, Serve(p) \/ Acts(p)
      PROVE  LeaseInv'
  BY <1>1, <1>3, ServeSteps, ActSteps
<1>4. CASE UNCHANGED vars
  <2>1. \A p \in Proc : Kept(p) /\ Same(p) /\ calls'[p] = calls[p]
    BY <1>4 DEF vars, Kept, Same, Own, Matches, Fresh
  <2>2. \A p \in Proc : ProcInv(p)'
    BY <1>1, <2>1, Bystander DEF LeaseInv
  <2>3. StoreInv'
    BY <1>4 DEF vars, StoreInv, LeaseInv
  <2> QED
    BY <1>1, <2>2, <2>3 DEF LeaseInv
<1> QED
  BY <1>2, <1>3, <1>4 DEF Next, Acts

LEMMA LeaseHolds == Spec => []LeaseInv
BY LeaseInit, LeaseStep, PTL DEF Spec

(* A sweep that has committed is never told that it lost its lease, and    *)
(* none is told so while it holds it.                                      *)
THEOREM NeverFalselyLost == Spec => []NoFalseLoss
<1>1. LeaseInv => NoFalseLoss
  BY DEF LeaseInv, ProcInv, SweepInv, NoFalseLoss, Fresh
<1> QED
  BY <1>1, LeaseHolds, PTL

(* What takes the lease away, or moves the checkpoint, is a settlement by  *)
(* its owner.                                                              *)
LEMMA OnlySettled ==
    ASSUME LeaseInv, [Next]_vars,
           \/ store'.checkpoint # store.checkpoint
           \/ store.lease # NoLease /\ store'.lease = NoLease
    PROVE  \E p \in Proc :
              /\ calls[p] # <<>> /\ CallInv(p, Head(calls[p])) /\ Head(calls[p]) \in Call
              /\ Head(calls[p]).op \in {"complete", "defer", "release"}
              /\ Matches(p, Head(calls[p]).epoch)
              /\ store' = Settled(Head(calls[p]))
<1>1. store \in Store /\ TypeOK /\ \A p \in Proc : SweepInv(p) /\ QueueInv(p)
  BY DEF LeaseInv, TypeOK, ProcInv
<1>2. ~Tick
  <2> SUFFICES ASSUME Tick
               PROVE  FALSE
    OBVIOUS
  <2>1. store'.lease = Aged /\ store'.checkpoint = store.checkpoint
    BY <1>1 DEF Tick, Store
  <2>2. store.lease \in Lease \union {NoLease}
    BY <1>1 DEF Store
  <2>3. store.lease # NoLease => store.lease.epoch # 0 /\ Aged.epoch = store.lease.epoch
    BY <2>2 DEF Aged, Lease
  <2>4. store.lease # NoLease => Aged # NoLease
    BY <2>3 DEF NoLease
  <2> QED
    BY <2>1, <2>4
<1>3. ~UNCHANGED store
  OBVIOUS
<1>4. \A p \in Proc : ~Acts(p)
  BY <1>1, <1>3, Alone
<1>5. PICK p \in Proc : Serve(p)
  BY <1>2, <1>3, <1>4 DEF Next, Acts, vars
<1> DEFINE c == Head(calls[p])
<1>6. c \in Call /\ CallInv(p, c) /\ calls[p] # <<>>
  BY <1>5, Serving
<1>7. \A lag : ~ServeClaim(p, c, lag)
  <2>1. \A lag : /\ Grant(p, lag).checkpoint = store.checkpoint
                 /\ Grant(p, lag).lease.epoch = store.lastEpoch + 1 /\ store.lastEpoch \in Nat
    BY <1>1 DEF Grant, Store
  <2>2. \A lag : Grant(p, lag).lease # NoLease
    BY <2>1 DEF NoLease
  <2>3. \A lag : store' # Grant(p, lag)
    BY <2>1, <2>2
  <2> QED
    BY <1>3, <2>3 DEF ServeClaim
<1>8. \A lag : ~ServeRenewal(p, c, lag)
  BY <1>1, <1>3 DEF ServeRenewal, Held, Store, Lease, NoLease
<1>9. ServeSettlement(p, c) /\ c.op \notin {"claim", "renew"}
  BY <1>3, <1>5, <1>7, <1>8 DEF Serve, ServeFails
<1> QED
  BY <1>3, <1>6, <1>9 DEF ServeSettlement, Call, Op

(* A commit replaces the checkpoint that its sweep started from.           *)
THEOREM CheckpointsKept == Spec => NoCheckpointLost
<1> DEFINE Replaces ==
      \E p \in Proc : /\ calls[p] # <<>>
                      /\ Head(calls[p]).op = "complete"
                      /\ Head(calls[p]).epoch = store'.checkpoint
                      /\ Head(calls[p]).base.checkpoint = store.checkpoint
<1>1. LeaseInv /\ [Next]_vars => [store'.checkpoint # store.checkpoint => Replaces]_vars
  <2> SUFFICES ASSUME LeaseInv, [Next]_vars, store'.checkpoint # store.checkpoint
               PROVE  Replaces
    OBVIOUS
  <2>1. PICK p \in Proc :
          /\ calls[p] # <<>> /\ CallInv(p, Head(calls[p])) /\ Head(calls[p]) \in Call
          /\ Head(calls[p]).op \in {"complete", "defer", "release"}
          /\ Matches(p, Head(calls[p]).epoch)
          /\ store' = Settled(Head(calls[p]))
    BY OnlySettled
  <2>2. store \in Store
    BY DEF LeaseInv, TypeOK
  <2>3. Head(calls[p]).op = "complete" /\ Head(calls[p]).epoch = store'.checkpoint
    BY <2>1, <2>2 DEF Settled, Store
  <2>4. Head(calls[p]).base.checkpoint = store.checkpoint
    BY <2>1, <2>3 DEF CallInv
  <2> QED
    BY <2>1, <2>3, <2>4
<1> QED
  BY <1>1, LeaseHolds, PTL DEF Spec, NoCheckpointLost

(* A sweep under way loses its lease only to its own commit or to another  *)
(* owner.                                                                  *)
THEOREM LeaseKept == Spec => SweepKeepsLease
<1> DEFINE Keeps == \A p \in Proc :
             (/\ Sweeping(p) /\ Sweeping(p)'
              /\ sweeps[p] = sweeps'[p]
              /\ Matches(p, sweeps[p])
              /\ store'.lease = NoLease)
             => /\ calls[p] # <<>>
                /\ Head(calls[p]).op = "complete"
                /\ Head(calls[p]).epoch = sweeps[p]
<1>1. LeaseInv /\ [Next]_vars => [Keeps]_vars
  <2> SUFFICES ASSUME LeaseInv, [Next]_vars, NEW p \in Proc,
                      Sweeping(p), Matches(p, sweeps[p]), store'.lease = NoLease
               PROVE  /\ calls[p] # <<>>
                      /\ Head(calls[p]).op = "complete"
                      /\ Head(calls[p]).epoch = sweeps[p]
    OBVIOUS
  <2>1. sweeps[p] # 0
    BY DEF LeaseInv, ProcInv, SweepInv, InSweep, Sweeping
  <2>2. store.lease # NoLease
    BY <2>1 DEF Matches, NoLease
  <2>3. PICK q \in Proc :
          /\ calls[q] # <<>> /\ CallInv(q, Head(calls[q])) /\ Head(calls[q]) \in Call
          /\ Head(calls[q]).op \in {"complete", "defer", "release"}
          /\ Matches(q, Head(calls[q]).epoch)
          /\ store' = Settled(Head(calls[q]))
    BY <2>2, OnlySettled
  <2>4. q = p /\ Head(calls[q]).epoch = sweeps[p]
    BY <2>3 DEF Matches
  <2> QED
    BY <2>3, <2>4 DEF CallInv
<1> QED
  BY <1>1, LeaseHolds, PTL DEF Spec, SweepKeepsLease
=============================================================================
