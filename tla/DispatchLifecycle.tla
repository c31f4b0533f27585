------------------------- MODULE DispatchLifecycle -------------------------
(***************************************************************************)
(* Durable ownership of dispatched work units.                             *)
(*                                                                         *)
(* Several factory processes share one state store.  The store keeps one   *)
(* lifecycle row per work unit, with a lease (owner, epoch, expiry).  A    *)
(* process caches the epoch it was granted and sends it with every renewal,*)
(* promotion, save and release, so that the store can refuse a process     *)
(* that has been replaced.  This module composes the store operations of   *)
(* state/in-memory-state-store.ts and state/file-state-store.ts with the   *)
(* part of orchestrator/factory.ts that claims, renews, drives, saves,     *)
(* hands back and shuts down.                                              *)
(*                                                                         *)
(* Time is relative: ttl is leaseUntilMs minus the present, in renewal     *)
(* periods.  A caller reads its clock before it waits for the store, so an *)
(* operation runs with a clock that may be up to MaxLag periods behind.    *)
(***************************************************************************)
EXTENDS Integers, FiniteSets

LOCAL INSTANCE TLC

CONSTANTS Proc,         \* factory processes; a restarted process is a new one
          Key,          \* work units
          Repo,         \* repositories whose pull request a row records
          Agent,        \* agent placements a row records
          BatchSize,    \* dispatch.batchSize
          LeaseTerm,    \* DISPATCH_LIFECYCLE_LEASE_MS in renewal periods
          MaxLag,       \* how far behind a caller's clock may run
          MaxAttempts,  \* DISPATCH_LIFECYCLE_MAX_RELEASE_ATTEMPTS
          MaxEpoch,     \* bound: the largest epoch a claim may grant
          Reliable,     \* processes that neither crash nor stop
          Asking,       \* work units whose agents may ask a human
          Blocked,      \* work units that may be parked behind a dependency
          Unreleasable, \* work units whose agents' release may fail
          Hooked        \* work units with an onTicketDispatch hook

ASSUME SizesAssumption ==
    /\ BatchSize \in Nat \ {0}
    /\ LeaseTerm \in Nat \ {0}
    /\ MaxLag \in Nat
    /\ MaxLag < LeaseTerm
    /\ MaxAttempts \in Nat
    /\ MaxEpoch \in Nat
    /\ Reliable \subseteq Proc
    /\ Asking \subseteq Key
    /\ Blocked \subseteq Key
    /\ Unreleasable \subseteq Key
    /\ Hooked \subseteq Key

VARIABLES lifecycles,   \* the store: one row per work unit
          epochs,       \* #dispatchLifecycleEpochs: 0 is "no entry"
          inFlight,     \* the batch record a process holds for a key
          retryTimers,  \* #dispatchLifecycleRetryTimers
          drives,       \* where a drive of the key stands
          persisting,   \* the one save of a key a process has under way
          renewing,     \* the epoch the renewal loop has sent, 0 for none
          handback,     \* relinquishment under way
          attempts,     \* #dispatchLifecycleReleaseAttempts
          abandoned,    \* #dispatchLifecycleReleaseAbandoned
          status,       \* where a process is in its life
          parked,       \* the store: a parked clarification not yet resumed
          announced     \* granted ticket notifications, for the properties

vars == <<lifecycles, epochs, inFlight, retryTimers, drives, persisting,
          renewing, handback, attempts, abandoned, status, parked, announced>>

local == <<epochs, inFlight, retryTimers, drives, persisting, renewing,
           handback, attempts, abandoned, status>>

-----------------------------------------------------------------------------
(* Types *)

(* The phases that the store and these properties tell apart.              *)
(* "dispatching" stands for the phases that hold a batch slot and          *)
(* "releasing" for writeback-applied and releasing, which do not.          *)
Phase == {"queued", "dispatching", "waiting", "releasing", "terminal"}

OccupiesSlot(phase) == phase = "dispatching"

Relinquished == -(MaxLag + 1)           \* Number.MIN_SAFE_INTEGER
Ttl == Relinquished .. LeaseTerm
Lag == 0 .. MaxLag

Lifecycle == [phase : Phase, owner : Proc, epoch : Nat \ {0}, ttl : Ttl,
              prs : SUBSET Repo, notified : BOOLEAN, agents : SUBSET Agent]
NoLifecycle == [phase |-> "none"]

InFlight == [phase : Phase, agents : SUBSET Agent]
NoRecord == [phase |-> "none"]

(* One save of a key, with the row it will write.  "closing" is a terminal *)
(* save whose cached epoch is not yet dropped: the progress reports are    *)
(* awaited in between.                                                     *)
Persist == [pc : {"writing", "closing"}, epoch : Nat \ {0},
            notify : BOOLEAN, phase : Phase, prs : SUBSET Repo,
            notified : BOOLEAN, agents : SUBSET Agent]
Idle == [pc |-> "idle"]

Drive == {"none", "adopting", "reading", "owned", "waking", "resuming", "resumed"}

(* Relinquishment of a key: none, asked for, or the epoch it will release. *)
NoHandback == 0
HandbackAsked == -1
Handback == Nat \union {HandbackAsked}

Status == {"new", "running", "stopping", "draining", "stopped", "crashed"}

TypeOK ==
    /\ lifecycles \in [Key -> Lifecycle \union {NoLifecycle}]
    /\ epochs \in [Proc -> [Key -> Nat]]
    /\ inFlight \in [Proc -> [Key -> InFlight \union {NoRecord}]]
    /\ retryTimers \in [Proc -> SUBSET Key]
    /\ drives \in [Proc -> [Key -> Drive]]
    /\ persisting \in [Proc -> [Key -> Persist \union {Idle}]]
    /\ renewing \in [Proc -> [Key -> Nat]]
    /\ handback \in [Proc -> [Key -> Handback]]
    /\ attempts \in [Proc -> [Key -> 0 .. MaxAttempts]]
    /\ abandoned \in [Proc -> SUBSET Key]
    /\ status \in [Proc -> Status]
    /\ parked \in SUBSET Key
    /\ announced \in [Key -> Nat]
-----------------------------------------------------------------------------
(* The store's operations on one row *)

Terminal(l) == l.phase = "terminal"

(* lease.leaseUntilMs > nowMs, on a clock that is lag periods behind *)
Live(l, lag) == l.ttl + lag > 0

(* Mutant of the fence: it forgets the epoch. *)
FencedByOwner(l, p, e, lag) == l # NoLifecycle /\ l.owner = p /\ Live(l, lag)

(* The fence of renewal, promotion and save *)
Fenced(l, p, e, lag) ==
    l # NoLifecycle /\ l.owner = p /\ l.epoch = e /\ Live(l, lag)

(* Mutant: a finished row is claimed like any other. *)
ClaimableWhenFinished(l, p, lag) ==
    l # NoLifecycle /\ ~(l.owner # p /\ Live(l, lag))

Claimable(l, p, lag) ==
    /\ l # NoLifecycle
    /\ ~Terminal(l)
    /\ ~(l.owner # p /\ Live(l, lag))

(* Mutant: a takeover does not advance the epoch. *)
ClaimEpochKept(l, p) == l.epoch

(* The process that owns the row keeps its epoch, another one advances it. *)
ClaimEpoch(l, p) == IF l.owner = p THEN l.epoch ELSE l.epoch + 1

ClaimedBy(l, p, lag) ==
    [l EXCEPT !.owner = p, !.epoch = ClaimEpoch(l, p), !.ttl = LeaseTerm - lag]

RenewedBy(l, lag) == [l EXCEPT !.ttl = LeaseTerm - lag]

(* BatchTracker.canStart, on the records this process holds itself; the    *)
(* record of a parked work unit no longer counts.                          *)
CanStart(p) ==
    Cardinality({k \in Key \ parked : OccupiesSlot(inFlight[p][k].phase)}) < BatchSize

SlotHolders == {k \in Key : OccupiesSlot(lifecycles[k].phase)}

(* activeDispatchLifecycleCount(lifecycles, key) >= batchSize *)
BatchFull(k) == Cardinality(SlotHolders \ {k}) >= BatchSize

Promotable(k, p, lag) ==
    /\ lifecycles[k].phase \in {"queued", "waiting"}
    /\ Fenced(lifecycles[k], p, epochs[p][k], lag)
    /\ ~BatchFull(k)

SetLifecycle(k, l) == lifecycles' = [lifecycles EXCEPT ![k] = l]
SetEpoch(p, k, e) == epochs' = [epochs EXCEPT ![p][k] = e]
SetDrive(p, k, d) == drives' = [drives EXCEPT ![p][k] = d]
SetRecord(p, k, r) == inFlight' = [inFlight EXCEPT ![p][k] = r]
SetPersist(p, k, c) == persisting' = [persisting EXCEPT ![p][k] = c]

Up(p) == status[p] \in {"running", "stopping", "draining"}

(* #scheduleDispatchLifecycleRetry: at most one timer a key, none while    *)
(* the process is stopping.                                                *)
ArmRetry(p, k) ==
    retryTimers' = IF status[p] = "running"
                   THEN [retryTimers EXCEPT ![p] = @ \union {k}]
                   ELSE retryTimers

(* Mutant: a refused drive is not tried again. *)
GiveUp(p, k) == SetDrive(p, k, "none") /\ UNCHANGED retryTimers

TryLater(p, k) == SetDrive(p, k, "none") /\ ArmRetry(p, k)

ClearReleaseAttempts(p, k) ==
    /\ attempts' = [attempts EXCEPT ![p][k] = 0]
    /\ abandoned' = [abandoned EXCEPT ![p] = @ \ {k}]

(* BatchTracker.restore returns the record the process already holds; only *)
(* a releasing row is taken from the store.                                *)
Restored(p, k, l) ==
    [phase |-> l.phase,
     agents |-> IF inFlight[p][k] = NoRecord \/ l.phase = "releasing"
                THEN l.agents ELSE inFlight[p][k].agents]

-----------------------------------------------------------------------------
(* Startup and dispatch *)

Init ==
    /\ lifecycles = [k \in Key |-> NoLifecycle]
    /\ epochs = [p \in Proc |-> [k \in Key |-> 0]]
    /\ inFlight = [p \in Proc |-> [k \in Key |-> NoRecord]]
    /\ retryTimers = [p \in Proc |-> {}]
    /\ drives = [p \in Proc |-> [k \in Key |-> "none"]]
    /\ persisting = [p \in Proc |-> [k \in Key |-> Idle]]
    /\ renewing = [p \in Proc |-> [k \in Key |-> 0]]
    /\ handback = [p \in Proc |-> [k \in Key |-> NoHandback]]
    /\ attempts = [p \in Proc |-> [k \in Key |-> 0]]
    /\ abandoned = [p \in Proc |-> {}]
    /\ status = [p \in Proc |-> "new"]
    /\ parked = {}
    /\ announced = [k \in Key |-> 0]

(* One renewal period passes. *)
Tick ==
    /\ lifecycles' = [k \in Key |->
            LET l == lifecycles[k] IN
            IF l # NoLifecycle /\ l.ttl > -MaxLag
            THEN [l EXCEPT !.ttl = @ - 1] ELSE l]
    /\ UNCHANGED <<local, parked, announced>>

(* Startup lists the rows that are not terminal and adopts them one by one.*)
Start(p) ==
    /\ status[p] = "new"
    /\ status' = [status EXCEPT ![p] = "running"]
    /\ drives' = [drives EXCEPT ![p] = [k \in Key |->
            IF lifecycles[k] # NoLifecycle /\ ~Terminal(lifecycles[k])
            THEN "adopting" ELSE "none"]]
    /\ UNCHANGED <<lifecycles, epochs, inFlight, retryTimers, persisting,
                   renewing, handback, attempts, abandoned, parked, announced>>

(* A refused row is retried, so that it is reclaimed once its lease lapses;*)
(* a waiting one is held but not driven.                                   *)
Adopt(p, k) ==
    LET l == lifecycles[k] IN
    /\ Up(p)
    /\ drives[p][k] = "adopting"
    /\ SetDrive(p, k, "none")
    /\ \E lag \in Lag :
         \/ /\ Claimable(l, p, lag)
            /\ ClaimEpoch(l, p) <= MaxEpoch
            /\ SetLifecycle(k, ClaimedBy(l, p, lag))
            /\ SetEpoch(p, k, ClaimEpoch(l, p))
            /\ IF l.phase = "dispatching"
               THEN SetRecord(p, k, Restored(p, k, l))
               ELSE UNCHANGED inFlight
            /\ \/ l.phase # "waiting" /\ ArmRetry(p, k)
               \/ l.phase \in {"waiting", "dispatching"} /\ UNCHANGED retryTimers
         \/ /\ ~Claimable(l, p, lag)
            /\ ArmRetry(p, k)
            /\ UNCHANGED <<lifecycles, epochs, inFlight>>
    /\ UNCHANGED <<persisting, renewing, handback, attempts, abandoned,
                   status, parked, announced>>

(* A work unit without a row is dispatched: the seed is queued when the    *)
(* batch is full.  It may come with the pull request of an adopted branch. *)
Dispatch(p, k, prs) ==
    LET phase == IF Cardinality(SlotHolders) >= BatchSize
                 THEN "queued" ELSE "dispatching" IN
    /\ status[p] = "running"
    /\ lifecycles[k] = NoLifecycle
    /\ \E lag \in Lag :
         SetLifecycle(k, [phase |-> phase, owner |-> p, epoch |-> 1,
                          ttl |-> LeaseTerm - lag, prs |-> prs,
                          notified |-> FALSE, agents |-> {}])
    /\ SetEpoch(p, k, 1)
    /\ IF phase = "queued"
       THEN ArmRetry(p, k) /\ UNCHANGED inFlight
       ELSE /\ SetRecord(p, k, [phase |-> phase, agents |-> {}])
            /\ UNCHANGED retryTimers
    /\ UNCHANGED <<drives, persisting, renewing, handback, attempts,
                   abandoned, status, parked, announced>>

-----------------------------------------------------------------------------
(* Drives: what a retry timer starts *)

RetryFires(p, k) ==
    /\ status[p] = "running"
    /\ k \in retryTimers[p]
    /\ drives[p][k] = "none"
    /\ retryTimers' = [retryTimers EXCEPT ![p] = @ \ {k}]
    /\ SetDrive(p, k, "reading")
    /\ UNCHANGED <<lifecycles, epochs, inFlight, persisting, renewing,
                   handback, attempts, abandoned, status, parked, announced>>

DriveClaim(p, k) ==
    LET l == lifecycles[k] IN
    /\ Up(p)
    /\ drives[p][k] = "reading"
    /\ \/ /\ l.phase \in {"none", "terminal", "waiting"}
          /\ SetDrive(p, k, "none")
          /\ UNCHANGED <<lifecycles, epochs, retryTimers>>
       \/ /\ l.phase \notin {"none", "terminal", "waiting"}
          /\ epochs[p][k] # 0
          /\ SetDrive(p, k, "owned")
          /\ UNCHANGED <<lifecycles, epochs, retryTimers>>
       \/ /\ l.phase \notin {"none", "terminal", "waiting"}
          /\ epochs[p][k] = 0
          /\ \E lag \in Lag :
               \/ /\ Claimable(l, p, lag)
                  /\ ClaimEpoch(l, p) <= MaxEpoch
                  /\ SetLifecycle(k, ClaimedBy(l, p, lag))
                  /\ SetEpoch(p, k, ClaimEpoch(l, p))
                  /\ SetDrive(p, k, "owned")
                  /\ UNCHANGED retryTimers
               \/ /\ ~Claimable(l, p, lag)
                  /\ TryLater(p, k)
                  /\ UNCHANGED <<lifecycles, epochs>>
    /\ UNCHANGED <<inFlight, persisting, renewing, handback, attempts,
                   abandoned, status, parked, announced>>

(* A queued row is promoted, or parked behind a dependency, or waits for   *)
(* capacity.                                                               *)
DriveQueued(p, k) ==
    LET l == lifecycles[k] IN
    /\ Up(p)
    /\ drives[p][k] = "owned"
    /\ l.phase = "queued"
    /\ \E lag \in Lag :
         \/ /\ Promotable(k, p, lag)
            /\ SetLifecycle(k, [l EXCEPT !.phase = "dispatching"])
            /\ UNCHANGED <<retryTimers, drives>>
         \/ /\ ~Promotable(k, p, lag)
            /\ TryLater(p, k)
            /\ UNCHANGED lifecycles
         \/ /\ k \in Blocked
            /\ SetDrive(p, k, "none")
            /\ UNCHANGED <<lifecycles, retryTimers>>
    /\ UNCHANGED <<epochs, inFlight, persisting, renewing, handback, attempts,
                   abandoned, status, parked, announced>>

(* #assertDispatchLifecycleOwner renews before the phase's handler runs.   *)
DriveOwned(p, k) ==
    LET l == lifecycles[k] IN
    /\ Up(p)
    /\ drives[p][k] = "owned"
    /\ l.phase # "queued"
    /\ SetDrive(p, k, "none")
    /\ \E lag \in Lag :
         IF epochs[p][k] # 0 /\ Fenced(l, p, epochs[p][k], lag)
         THEN /\ SetLifecycle(k, RenewedBy(l, lag))
              /\ SetRecord(p, k, Restored(p, k, l))
              /\ UNCHANGED epochs
         ELSE SetEpoch(p, k, 0) /\ UNCHANGED <<lifecycles, inFlight>>
    /\ UNCHANGED <<retryTimers, persisting, renewing, handback, attempts,
                   abandoned, status, parked, announced>>

(* A human answer wakes a parked work unit: claim, then promotion if the   *)
(* row still waits.  A refused promotion leaves the claim and its epoch in *)
(* place.  The clarification is completed once the team runs again; until  *)
(* then any process may start the wake over.                               *)
Wake(p, k) ==
    LET l == lifecycles[k] IN
    /\ status[p] = "running"
    /\ drives[p][k] = "none"
    /\ k \in parked
    /\ CanStart(p)
    /\ \E lag \in Lag :
         /\ Claimable(l, p, lag)
         /\ ClaimEpoch(l, p) <= MaxEpoch
         /\ SetLifecycle(k, ClaimedBy(l, p, lag))
    /\ SetEpoch(p, k, ClaimEpoch(l, p))
    /\ SetDrive(p, k, "waking")
    /\ UNCHANGED <<inFlight, retryTimers, persisting, renewing, handback,
                   attempts, abandoned, status, parked, announced>>

WakePromote(p, k) ==
    LET l == lifecycles[k]
        Resumed == [Restored(p, k, l) EXCEPT !.phase = "dispatching"] IN
    /\ Up(p)
    /\ drives[p][k] = "waking"
    /\ l # NoLifecycle
    /\ \E lag \in Lag :
         \/ /\ l.phase = "waiting"
            /\ Promotable(k, p, lag)
            /\ SetLifecycle(k, [l EXCEPT !.phase = "dispatching"])
            /\ SetRecord(p, k, Resumed)
            /\ SetDrive(p, k, "resuming")
         \/ /\ l.phase = "waiting"
            /\ ~Promotable(k, p, lag)
            /\ SetDrive(p, k, "none")
            /\ UNCHANGED <<lifecycles, inFlight>>
         \/ /\ l.phase # "waiting"
            /\ SetRecord(p, k, Resumed)
            /\ SetDrive(p, k, "resuming")
            /\ UNCHANGED lifecycles
    /\ UNCHANGED <<epochs, retryTimers, persisting, renewing, handback,
                   attempts, abandoned, status, parked, announced>>

WakeComplete(p, k) ==
    /\ Up(p)
    /\ drives[p][k] = "resumed"
    /\ persisting[p][k] = Idle
    /\ SetDrive(p, k, "none")
    /\ parked' = parked \ {k}
    /\ UNCHANGED <<lifecycles, epochs, inFlight, retryTimers, persisting,
                   renewing, handback, attempts, abandoned, status, announced>>

-----------------------------------------------------------------------------
(* The renewal loop: one call at a time, sent with the cached epoch.  A    *)
(* refusal drops whatever epoch is cached by then.                         *)

RenewSend(p, k) ==
    /\ Up(p)
    /\ epochs[p][k] # 0
    /\ \A j \in Key : renewing[p][j] = 0
    /\ renewing' = [renewing EXCEPT ![p][k] = epochs[p][k]]
    /\ UNCHANGED <<lifecycles, epochs, inFlight, retryTimers, drives,
                   persisting, handback, attempts, abandoned, status, parked, announced>>

RenewReceived(p, k) ==
    LET l == lifecycles[k] IN
    /\ status[p] # "crashed"
    /\ renewing[p][k] # 0
    /\ renewing' = [renewing EXCEPT ![p][k] = 0]
    /\ \E lag \in Lag :
         IF Fenced(l, p, renewing[p][k], lag)
         THEN /\ SetLifecycle(k, RenewedBy(l, lag))
              /\ UNCHANGED <<epochs, retryTimers>>
         ELSE /\ SetEpoch(p, k, 0)
              /\ IF l.phase \in {"none", "terminal", "waiting"}
                 THEN UNCHANGED retryTimers ELSE ArmRetry(p, k)
              /\ UNCHANGED lifecycles
    /\ UNCHANGED <<inFlight, drives, persisting, handback, attempts, abandoned,
                   status, parked, announced>>

-----------------------------------------------------------------------------
(* The work of a held record, and the saves that persist it *)

(* The phases a handler of a record in this phase may save.  The saves that*)
(* checkpoint single agents of a releasing row leave what is modelled as   *)
(* it is.                                                                  *)
PhasesAfter(phase) ==
    CASE phase = "dispatching" -> {"dispatching", "waiting", "releasing", "terminal"}
      [] phase = "releasing"   -> {"terminal"}
      [] OTHER                 -> {}

Place(p, k, a) ==
    /\ Up(p)
    /\ inFlight[p][k].phase = "dispatching"
    /\ a \notin inFlight[p][k].agents
    /\ inFlight' = [inFlight EXCEPT ![p][k].agents = @ \union {a}]
    /\ UNCHANGED <<lifecycles, epochs, retryTimers, drives, persisting, renewing,
                   handback, attempts, abandoned, status, parked, announced>>

(* What a save says of the agents comes from the record, which a wake      *)
(* holds as it was restored even when a park has dropped it meanwhile.     *)
HeldAgents(p, k) ==
    IF inFlight[p][k] = NoRecord THEN lifecycles[k].agents ELSE inFlight[p][k].agents

(* Mutant: the notification is not carried over. *)
SnapshotForgets(p, k, phase, prs) ==
    [pc |-> "writing", epoch |-> epochs[p][k], notify |-> FALSE, phase |-> phase,
     prs |-> prs \union lifecycles[k].prs, notified |-> FALSE,
     agents |-> HeldAgents(p, k)]

(* The row a save will write: receipts and the notification come from the  *)
(* row it has read, the agents from the record.                            *)
Snapshot(p, k, phase, prs) ==
    [pc |-> "writing", epoch |-> epochs[p][k], notify |-> FALSE, phase |-> phase,
     prs |-> prs \union lifecycles[k].prs, notified |-> lifecycles[k].notified,
     agents |-> HeldAgents(p, k)]

(* The save a wake makes before it brings the team back.  When it is       *)
(* refused, here or by the store, the wake gives the record up and leaves  *)
(* the clarification to another wake.                                      *)
WakeSave(p, k) ==
    /\ Up(p)
    /\ drives[p][k] = "resuming"
    /\ persisting[p][k] = Idle
    /\ IF epochs[p][k] = 0 \/ lifecycles[k] = NoLifecycle
       THEN TryLater(p, k) /\ SetRecord(p, k, NoRecord) /\ UNCHANGED persisting
       ELSE /\ SetPersist(p, k, Snapshot(p, k, "dispatching", {}))
            /\ SetDrive(p, k, "resumed")
            /\ UNCHANGED <<retryTimers, inFlight>>
    /\ UNCHANGED <<lifecycles, epochs, renewing, handback, attempts, abandoned,
                   status, parked, announced>>

(* #saveDispatchLifecycle: saves of one key run one after another.  The    *)
(* epoch and the row are read first.  A park marks the clarification       *)
(* parked before it saves the row; a release that succeeded refunds its    *)
(* budget before it saves the row.                                         *)
SaveStart(p, k, phase, prs) ==
    LET l == lifecycles[k] IN
    /\ Up(p)
    /\ phase \in PhasesAfter(inFlight[p][k].phase)
    /\ prs # {} => phase = "dispatching"
    /\ phase = "waiting" => k \in Asking
    /\ persisting[p][k] = Idle
    /\ IF epochs[p][k] = 0 \/ l = NoLifecycle
       THEN ArmRetry(p, k) /\ UNCHANGED persisting
       ELSE /\ SetPersist(p, k, Snapshot(p, k, phase, prs))
            /\ UNCHANGED retryTimers
    /\ parked' = IF phase = "waiting" THEN parked \union {k} ELSE parked
    /\ IF inFlight[p][k].phase = "releasing"
       THEN ClearReleaseAttempts(p, k) ELSE UNCHANGED <<attempts, abandoned>>
    /\ UNCHANGED <<lifecycles, epochs, inFlight, drives, renewing, handback,
                   status, announced>>

(* #claimTicketDispatchNotification: the whole row that was read is saved  *)
(* back, with the notification of its run reserved.                        *)
NotifyStart(p, k) ==
    LET l == lifecycles[k] IN
    /\ Up(p)
    /\ k \in Hooked
    /\ inFlight[p][k].phase = "dispatching"
    /\ persisting[p][k] = Idle
    /\ IF epochs[p][k] = 0 \/ l = NoLifecycle
       THEN ArmRetry(p, k) /\ UNCHANGED persisting
       ELSE /\ ~l.notified
            /\ SetPersist(p, k,
                 [pc |-> "writing", epoch |-> epochs[p][k], notify |-> TRUE,
                  phase |-> l.phase, prs |-> l.prs, notified |-> TRUE,
                  agents |-> l.agents])
            /\ UNCHANGED retryTimers
    /\ UNCHANGED <<lifecycles, epochs, inFlight, drives, renewing, handback,
                   attempts, abandoned, status, parked, announced>>

SaveAccepted(p, k) ==
    LET l == lifecycles[k]
        c == persisting[p][k] IN
    /\ Up(p)
    /\ c.pc = "writing"
    /\ \E lag \in Lag : Fenced(l, p, c.epoch, lag)
    /\ SetLifecycle(k, [l EXCEPT !.phase = c.phase, !.prs = c.prs,
                          !.notified = c.notified, !.agents = c.agents])
    /\ SetPersist(p, k, IF c.phase = "terminal"
                        THEN [c EXCEPT !.pc = "closing"] ELSE Idle)
    /\ SetRecord(p, k, IF c.notify \/ inFlight[p][k] = NoRecord THEN inFlight[p][k]
                       ELSE IF c.phase = "waiting" THEN NoRecord
                       ELSE [inFlight[p][k] EXCEPT !.phase = c.phase])
    /\ announced' = IF c.notify THEN [announced EXCEPT ![k] = @ + 1] ELSE announced
    /\ UNCHANGED <<epochs, retryTimers, drives, renewing, handback, attempts,
                   abandoned, status, parked>>

SaveRefused(p, k) ==
    LET c == persisting[p][k] IN
    /\ Up(p)
    /\ c.pc = "writing"
    /\ \E lag \in Lag : ~Fenced(lifecycles[k], p, c.epoch, lag)
    /\ SetPersist(p, k, Idle)
    /\ SetEpoch(p, k, 0)
    /\ ArmRetry(p, k)
    /\ IF drives[p][k] = "resumed"
       THEN SetDrive(p, k, "none") /\ SetRecord(p, k, NoRecord)
       ELSE UNCHANGED <<drives, inFlight>>
    /\ UNCHANGED <<lifecycles, renewing, handback, attempts, abandoned, status,
                   parked, announced>>

(* A terminal save drops the cached epoch, whatever it has become.         *)
SaveClosed(p, k) ==
    /\ Up(p)
    /\ persisting[p][k].pc = "closing"
    /\ SetPersist(p, k, Idle)
    /\ SetEpoch(p, k, 0)
    /\ SetRecord(p, k, NoRecord)
    /\ UNCHANGED <<lifecycles, retryTimers, drives, renewing, handback, attempts,
                   abandoned, status, parked, announced>>

-----------------------------------------------------------------------------
(* Release retries, dead letters and the handback of the lease *)

(* Mutant: one attempt too many. *)
BudgetSpentLate(p, k) == k \in abandoned[p] \/ attempts[p][k] > MaxAttempts

BudgetSpent(p, k) == k \in abandoned[p] \/ attempts[p][k] = MaxAttempts

(* One relinquishment of a key at a time. *)
AskHandback(p, k) ==
    handback' = [handback EXCEPT ![p][k] =
                   IF @ = NoHandback THEN HandbackAsked ELSE @]

(* #chargeReleaseAttempt: a failed release is retried until its budget is  *)
(* spent; then the record is dropped and the lease is handed back.         *)
ReleaseFails(p, k) ==
    /\ status[p] = "running"
    /\ k \in Unreleasable
    /\ inFlight[p][k].phase = "releasing"
    /\ persisting[p][k] = Idle
    /\ k \notin retryTimers[p]
    /\ IF BudgetSpent(p, k)
       THEN /\ abandoned' = [abandoned EXCEPT ![p] = @ \union {k}]
            /\ attempts' = [attempts EXCEPT ![p][k] = 0]
            /\ AskHandback(p, k)
            /\ SetRecord(p, k, NoRecord)
            /\ UNCHANGED retryTimers
       ELSE /\ attempts' = [attempts EXCEPT ![p][k] = @ + 1]
            /\ ArmRetry(p, k)
            /\ UNCHANGED <<abandoned, handback, inFlight>>
    /\ UNCHANGED <<lifecycles, epochs, drives, persisting, renewing, status,
                   parked, announced>>

(* #relinquishDispatchLifecycleLease drops the epoch before it releases.   *)
HandbackStart(p, k) ==
    /\ Up(p)
    /\ handback[p][k] = HandbackAsked
    /\ handback' = [handback EXCEPT ![p][k] = epochs[p][k]]
    /\ SetEpoch(p, k, 0)
    /\ UNCHANGED <<lifecycles, inFlight, retryTimers, drives, persisting,
                   renewing, attempts, abandoned, status, parked, announced>>

ReleasedBy(l, p, e) ==
    IF l # NoLifecycle /\ l.owner = p /\ l.epoch = e
    THEN [l EXCEPT !.ttl = Relinquished] ELSE l

HandbackReleased(p, k) ==
    /\ Up(p)
    /\ handback[p][k] > 0
    /\ SetLifecycle(k, ReleasedBy(lifecycles[k], p, handback[p][k]))
    /\ handback' = [handback EXCEPT ![p][k] = NoHandback]
    /\ UNCHANGED <<epochs, inFlight, retryTimers, drives, persisting, renewing,
                   attempts, abandoned, status, parked, announced>>

-----------------------------------------------------------------------------
(* Shutdown and crash *)

Stop(p) ==
    /\ status[p] = "running"
    /\ p \notin Reliable
    /\ status' = [status EXCEPT ![p] = "stopping"]
    /\ retryTimers' = [retryTimers EXCEPT ![p] = {}]
    /\ UNCHANGED <<lifecycles, epochs, inFlight, drives, persisting, renewing,
                   handback, attempts, abandoned, parked, announced>>

(* Mutant: only the rows whose epoch is cached are released. *)
ReleaseCached(p) ==
    /\ lifecycles' = [k \in Key |->
            IF lifecycles[k] # NoLifecycle /\ lifecycles[k].owner = p /\ epochs[p][k] # 0
            THEN [lifecycles[k] EXCEPT !.ttl = Relinquished] ELSE lifecycles[k]]
    /\ epochs' = [epochs EXCEPT ![p] = [k \in Key |-> 0]]

(* #releaseOwnedDispatchLifecycleLeases releases what the cache says and   *)
(* what the store says is this process's own.                              *)
ReleaseOwned(p) ==
    /\ lifecycles' = [k \in Key |->
            IF lifecycles[k] # NoLifecycle /\ lifecycles[k].owner = p
            THEN [lifecycles[k] EXCEPT !.ttl = Relinquished] ELSE lifecycles[k]]
    /\ epochs' = [epochs EXCEPT ![p] = [k \in Key |-> 0]]

StopSweep(p) ==
    /\ status[p] = "stopping"
    /\ status' = [status EXCEPT ![p] = "draining"]
    /\ ReleaseOwned(p)
    /\ UNCHANGED <<inFlight, retryTimers, drives, persisting, renewing, handback,
                   attempts, abandoned, parked, announced>>

(* The second sweep, once the drives have settled, catches the claims that *)
(* raced the first.                                                        *)
StopFinal(p) ==
    /\ status[p] = "draining"
    /\ \A k \in Key : /\ drives[p][k] = "none"
                      /\ persisting[p][k] = Idle
                      /\ handback[p][k] = NoHandback
    /\ status' = [status EXCEPT ![p] = "stopped"]
    /\ ReleaseOwned(p)
    /\ inFlight' = [inFlight EXCEPT ![p] = [k \in Key |-> NoRecord]]
    /\ attempts' = [attempts EXCEPT ![p] = [k \in Key |-> 0]]
    /\ abandoned' = [abandoned EXCEPT ![p] = {}]
    /\ UNCHANGED <<retryTimers, drives, persisting, renewing, handback, parked, announced>>

Crash(p) ==
    /\ Up(p)
    /\ p \notin Reliable
    /\ status' = [status EXCEPT ![p] = "crashed"]
    /\ epochs' = [epochs EXCEPT ![p] = [k \in Key |-> 0]]
    /\ inFlight' = [inFlight EXCEPT ![p] = [k \in Key |-> NoRecord]]
    /\ retryTimers' = [retryTimers EXCEPT ![p] = {}]
    /\ drives' = [drives EXCEPT ![p] = [k \in Key |-> "none"]]
    /\ persisting' = [persisting EXCEPT ![p] = [k \in Key |-> Idle]]
    /\ renewing' = [renewing EXCEPT ![p] = [k \in Key |-> 0]]
    /\ handback' = [handback EXCEPT ![p] = [k \in Key |-> NoHandback]]
    /\ attempts' = [attempts EXCEPT ![p] = [k \in Key |-> 0]]
    /\ abandoned' = [abandoned EXCEPT ![p] = {}]
    /\ UNCHANGED <<lifecycles, parked, announced>>

-----------------------------------------------------------------------------

DriveStep(p, k) ==
    \/ RetryFires(p, k)
    \/ DriveClaim(p, k)
    \/ DriveQueued(p, k)
    \/ DriveOwned(p, k)

ProcessStep(p, k) ==
    \/ Adopt(p, k)
    \/ \E prs \in SUBSET Repo : Dispatch(p, k, prs)
    \/ DriveStep(p, k)
    \/ Wake(p, k)
    \/ WakePromote(p, k)
    \/ WakeSave(p, k)
    \/ WakeComplete(p, k)
    \/ RenewSend(p, k)
    \/ RenewReceived(p, k)
    \/ \E a \in Agent : Place(p, k, a)
    \/ \E phase \in Phase, prs \in SUBSET Repo : SaveStart(p, k, phase, prs)
    \/ NotifyStart(p, k)
    \/ SaveAccepted(p, k)
    \/ SaveRefused(p, k)
    \/ SaveClosed(p, k)
    \/ ReleaseFails(p, k)
    \/ HandbackStart(p, k)
    \/ HandbackReleased(p, k)

Next ==
    \/ Tick
    \/ \E p \in Proc : Start(p) \/ Stop(p) \/ StopSweep(p) \/ StopFinal(p) \/ Crash(p)
    \/ \E p \in Proc, k \in Key : ProcessStep(p, k)

(* A pass over the agents of a releasing work unit ends: it fails, or the  *)
(* row is finished.                                                        *)
ReleasePass(p, k) ==
    /\ inFlight[p][k].phase = "releasing"
    /\ ReleaseFails(p, k) \/ SaveStart(p, k, "terminal", {})

Spec == Init /\ [][Next]_vars

(* Processes are interchangeable where none is set apart by a constant.    *)
Symmetry == Permutations(Proc)

(* Timers fire and awaited calls of a live process finish: every step of a *)
(* drive, a renewal, a store call, a release pass, an adoption and a       *)
(* shutdown is eventually taken.  Nothing is assumed of what starts work   *)
(* or interrupts it: dispatches, progress, wakes, stops and crashes may    *)
(* never come.  A renewal pass visits every epoch in turn, so a row's turn *)
(* comes although another row's renewal is often under way.                *)
Fairness ==
    /\ WF_vars(Tick)
    /\ \A p \in Proc : WF_vars(StopSweep(p) \/ StopFinal(p))
    /\ \A p \in Proc, k \in Key :
         /\ WF_vars(Adopt(p, k))
         /\ WF_vars(RetryFires(p, k))
         /\ WF_vars(\/ DriveClaim(p, k) \/ DriveQueued(p, k) \/ DriveOwned(p, k)
                    \/ WakePromote(p, k) \/ WakeSave(p, k) \/ WakeComplete(p, k))
         /\ SF_vars(RenewSend(p, k))
         /\ WF_vars(RenewReceived(p, k))
         /\ WF_vars(SaveAccepted(p, k) \/ SaveRefused(p, k) \/ SaveClosed(p, k))
         /\ WF_vars(ReleasePass(p, k))
         /\ WF_vars(HandbackStart(p, k) \/ HandbackReleased(p, k))

LiveSpec == Spec /\ Fairness

-----------------------------------------------------------------------------
(* Safety *)

(* A pull request receipt that a row has recorded is never dropped by a    *)
(* later save, whichever process makes it and whatever it had read         *)
(* (mergePublishedPullRequests under the fence of saveDispatchLifecycle).  *)
PullRequestsNeverLost ==
    [][\A k \in Key : lifecycles[k] # NoLifecycle =>
           /\ lifecycles'[k] # NoLifecycle
           /\ lifecycles[k].prs \subseteq lifecycles'[k].prs]_vars

(* The ticket notification of a work unit is granted to at most one caller,*)
(* over every process, takeover and restart                                *)
(* (#claimTicketDispatchNotification reserves before it notifies).         *)
NotifyAtMostOnce == \A k \in Key : announced[k] <= 1

(* A finished work unit stays finished: no late claim, promotion or save,  *)
(* from any process, changes what its row says or who owns it.             *)
TerminalIsFinal ==
    [][\A k \in Key : Terminal(lifecycles[k]) =>
           lifecycles'[k] = [lifecycles[k] EXCEPT !.ttl = lifecycles'[k].ttl]]_vars

(* A process that has stopped leaves no row leased: a claim that raced its *)
(* first relinquishment sweep is caught by the second.                     *)
StoppedHoldsNothing ==
    \A p \in Proc, k \in Key :
        (/\ status[p] = "stopped"
         /\ lifecycles[k] # NoLifecycle
         /\ lifecycles[k].owner = p)
        => lifecycles[k].ttl = Relinquished

-----------------------------------------------------------------------------
(* Why they hold: what relates a process's cache to the row *)

Epoch(l) == IF l = NoLifecycle THEN 0 ELSE l.epoch

Saving(p, k) == persisting[p][k].pc = "writing"

(* The row has not changed hands since the save in flight was started. *)
SavesOwnTerm(p, k) ==
    /\ Saving(p, k)
    /\ lifecycles[k].owner = p
    /\ lifecycles[k].epoch = persisting[p][k].epoch

(* No process ever knows an epoch the row has not reached. *)
EpochsBehind ==
    \A p \in Proc, k \in Key :
        /\ epochs[p][k] <= Epoch(lifecycles[k])
        /\ Saving(p, k) => persisting[p][k].epoch <= Epoch(lifecycles[k])

(* A save that the fence would let through was read from the row it is     *)
(* about to replace: nothing it carries over is out of date.               *)
SnapshotCurrent ==
    \A p \in Proc, k \in Key : SavesOwnTerm(p, k) =>
        LET l == lifecycles[k]
            c == persisting[p][k] IN
        /\ ~Terminal(l)
        /\ l.prs \subseteq c.prs
        /\ c.notify => ~l.notified /\ c.notified /\ c.prs = l.prs /\ c.phase # "terminal"
        /\ ~c.notify => c.notified = l.notified

(* The epoch that finished a row is cached only until the save has closed. *)
TerminalClosing ==
    \A p \in Proc, k \in Key :
        (/\ Terminal(lifecycles[k])
         /\ lifecycles[k].owner = p
         /\ lifecycles[k].epoch = epochs[p][k])
        => persisting[p][k].pc = "closing"

NoticesCounted ==
    \A k \in Key :
        announced[k] = IF lifecycles[k] # NoLifecycle /\ lifecycles[k].notified
                       THEN 1 ELSE 0

(* A save under way is either current or refused by the fence, over any    *)
(* number of takeovers, reclaims and relinquishments in between: the       *)
(* inductive form of what saveDispatchLifecycle's fence is for.            *)
SavesCurrentOrFenced ==
    EpochsBehind /\ SnapshotCurrent /\ TerminalClosing /\ NoticesCounted

-----------------------------------------------------------------------------
(* Refinement *)

UnitView == [k \in Key |->
    IF lifecycles[k] = NoLifecycle THEN [finished |-> FALSE]
    ELSE [finished |-> Terminal(lifecycles[k]), holder |-> lifecycles[k].owner,
          term |-> lifecycles[k].epoch, prs |-> lifecycles[k].prs,
          notified |-> lifecycles[k].notified]]

Units == INSTANCE WorkUnit WITH unit <- UnitView, notices <- announced

(* Every step of the leases, caches and saves is a step of a plain work    *)
(* unit or leaves it alone: a stale process never changes a unit, terms    *)
(* only rise with the holder, and what the store records only accumulates. *)
RefinesWorkUnit == Units!Spec

-----------------------------------------------------------------------------
(* Liveness *)

Dead(p) == status[p] \in {"crashed", "stopped"}

Orphaned(k) ==
    /\ lifecycles[k].phase \notin {"none", "terminal", "waiting"}
    /\ Dead(lifecycles[k].owner)
    /\ lifecycles[k].epoch < MaxEpoch
    /\ k \notin parked

(* "Keep this process attached so it reclaims the row after expiry without *)
(* another start/dispatch/fleet event" (#adoptInFlightAgents): once a      *)
(* process has found a row at startup, the death of whoever owns the row   *)
(* is never left unanswered.                                               *)
AttachedStaysAttached ==
    \A q \in Reliable, k \in Key :
        drives[q][k] = "adopting" ~> []<>~Orphaned(k)
=============================================================================
