---------------------- MODULE DispatchLifecycleProofs ----------------------
(***************************************************************************)
(* Theorems about DispatchLifecycle, for every set of processes, work      *)
(* units and repositories and every lease length, lag and budget.          *)
(***************************************************************************)
EXTENDS DispatchLifecycle, TLAPS

-----------------------------------------------------------------------------
(* Types *)

(* What the store writes into a row is a row.                              *)
LEMMA RowTypes ==
    ASSUME NEW l \in Lifecycle, NEW p \in Proc, NEW lag \in Lag
    PROVE  /\ ClaimedBy(l, p, lag) \in Lifecycle
           /\ RenewedBy(l, lag) \in Lifecycle
           /\ [l EXCEPT !.ttl = Relinquished] \in Lifecycle
           /\ ClaimEpoch(l, p) \in Nat \ {0}
           /\ \A phase \in Phase : [l EXCEPT !.phase = phase] \in Lifecycle
<1>1. LeaseTerm - lag \in Ttl /\ Relinquished \in Ttl
  BY SizesAssumption DEF Ttl, Lag, Relinquished
<1>2. ClaimEpoch(l, p) \in Nat \ {0}
  BY DEF ClaimEpoch, Lifecycle
<1> QED
  BY <1>1, <1>2 DEF ClaimedBy, RenewedBy, Lifecycle

(* A drive's record has the types of the row it is restored from.          *)
LEMMA RestoredType ==
    ASSUME TypeOK, NEW p \in Proc, NEW k \in Key, NEW l \in Lifecycle
    PROVE  /\ Restored(p, k, l) \in InFlight
           /\ [Restored(p, k, l) EXCEPT !.phase = "dispatching"] \in InFlight
<1>1. inFlight[p][k] \in InFlight \union {NoRecord}
  BY DEF TypeOK
<1>2. inFlight[p][k] # NoRecord => inFlight[p][k].agents \in SUBSET Agent
  BY <1>1 DEF InFlight
<1>3. l.phase \in Phase /\ l.agents \in SUBSET Agent
  BY DEF Lifecycle
<1>4. "dispatching" \in Phase
  BY DEF Phase
<1> QED
  BY <1>2, <1>3, <1>4 DEF Restored, InFlight

LEMMA TypeInit == Init => TypeOK
BY SizesAssumption DEF Init, TypeOK, NoLifecycle, NoRecord, Drive, Idle, NoHandback, Handback, Status

Row == Lifecycle \union {NoLifecycle}

(* The rows that a claim, a renewal, a promotion and a release write.      *)
LEMMA RowWrites ==
    ASSUME NEW l \in Row, NEW p \in Proc, NEW lag \in Lag, NEW e
    PROVE  /\ l.phase # "none" => l \in Lifecycle
           /\ Claimable(l, p, lag) =>
                /\ ClaimedBy(l, p, lag) \in Row
                /\ ClaimEpoch(l, p) \in Nat
           /\ Fenced(l, p, e, lag) => RenewedBy(l, lag) \in Row
           /\ l.phase # "none" => [l EXCEPT !.phase = "dispatching"] \in Row
           /\ ReleasedBy(l, p, e) \in Row
<1>2. NoLifecycle.phase = "none" /\ NoLifecycle \notin Lifecycle
  BY DEF NoLifecycle, Lifecycle, Phase
<1>3. l \in Lifecycle =>
        /\ ClaimedBy(l, p, lag) \in Lifecycle
        /\ ClaimEpoch(l, p) \in Nat \ {0}
        /\ RenewedBy(l, lag) \in Lifecycle
        /\ [l EXCEPT !.phase = "dispatching"] \in Lifecycle
        /\ [l EXCEPT !.ttl = Relinquished] \in Lifecycle
  BY RowTypes DEF Phase
<1>4. Claimable(l, p, lag) => l # NoLifecycle
  BY DEF Claimable
<1>5. Fenced(l, p, e, lag) => l # NoLifecycle
  BY DEF Fenced
<1>6. ReleasedBy(l, p, e) \in Row
  BY <1>3 DEF ReleasedBy, Row
<1> QED
  BY <1>2, <1>3, <1>4, <1>5, <1>6 DEF Row

(* A table keeps its type when one of its entries is replaced.             *)
LEMMA ExceptOne ==
    ASSUME NEW S, NEW T, NEW f \in [S -> T], NEW s \in S, NEW x \in T
    PROVE  [f EXCEPT ![s] = x] \in [S -> T]
OBVIOUS

LEMMA ExceptTwo ==
    ASSUME NEW R, NEW S, NEW T, NEW f \in [R -> [S -> T]],
           NEW r \in R, NEW s \in S, NEW x \in T
    PROVE  [f EXCEPT ![r][s] = x] \in [R -> [S -> T]]
OBVIOUS

(* What an armed retry changes is the set of timers.                       *)
LEMMA ArmRetryType ==
    ASSUME TypeOK, NEW p \in Proc, NEW k \in Key, ArmRetry(p, k)
    PROVE  retryTimers' \in [Proc -> SUBSET Key]
BY DEF TypeOK, ArmRetry

LEMMA SetDriveType ==
    ASSUME TypeOK, NEW p \in Proc, NEW k \in Key, NEW d \in Drive, SetDrive(p, k, d)
    PROVE  drives' \in [Proc -> [Key -> Drive]]
BY DEF TypeOK, SetDrive

LEMMA SetEpochType ==
    ASSUME TypeOK, NEW p \in Proc, NEW k \in Key, NEW e \in Nat, SetEpoch(p, k, e)
    PROVE  epochs' \in [Proc -> [Key -> Nat]]
BY DEF TypeOK, SetEpoch

LEMMA SetLifecycleType ==
    ASSUME TypeOK, NEW k \in Key, NEW l \in Row, SetLifecycle(k, l)
    PROVE  lifecycles' \in [Key -> Row]
BY DEF TypeOK, Row, SetLifecycle

LEMMA SetRecordType ==
    ASSUME TypeOK, NEW p \in Proc, NEW k \in Key, NEW r \in InFlight \union {NoRecord},
           SetRecord(p, k, r)
    PROVE  inFlight' \in [Proc -> [Key -> InFlight \union {NoRecord}]]
BY DEF TypeOK, SetRecord

LEMMA SetPersistType ==
    ASSUME TypeOK, NEW p \in Proc, NEW k \in Key, NEW c \in Persist \union {Idle},
           SetPersist(p, k, c)
    PROVE  persisting' \in [Proc -> [Key -> Persist \union {Idle}]]
BY DEF TypeOK, SetPersist

(* A claim that the store grants is typed, in the row and in the cache.    *)
LEMMA ClaimType ==
    ASSUME TypeOK, NEW p \in Proc, NEW k \in Key, NEW lag \in Lag,
           Claimable(lifecycles[k], p, lag)
    PROVE  /\ ClaimedBy(lifecycles[k], p, lag) \in Row
           /\ ClaimEpoch(lifecycles[k], p) \in Nat
<1>1. lifecycles[k] \in Row
  BY DEF TypeOK, Row
<1> QED
  BY <1>1, RowWrites

(* A row in a real phase, and a row that passed a fence, exists.           *)
LEMMA RowPhase ==
    ASSUME NEW l \in Row, l.phase \in Phase
    PROVE  l \in Lifecycle /\ [l EXCEPT !.phase = "dispatching"] \in Lifecycle
<1>1. NoLifecycle.phase \notin Phase
  BY DEF NoLifecycle, Phase
<1>2. l \in Lifecycle
  BY <1>1 DEF Row
<1> QED
  BY <1>2 DEF Lifecycle, Phase

LEMMA RowAt == ASSUME TypeOK, NEW k \in Key PROVE lifecycles[k] \in Row
BY DEF TypeOK, Row

LEMMA RowTable == TypeOK => lifecycles \in [Key -> Row]
BY DEF TypeOK, Row

LEMMA RestoredAny ==
    ASSUME TypeOK, NEW p \in Proc, NEW k \in Key, lifecycles[k] # NoLifecycle
    PROVE  [Restored(p, k, lifecycles[k]) EXCEPT !.phase = "dispatching"] \in InFlight
BY RowAt, RestoredType DEF Row

LEMMA FencedRow ==
    ASSUME NEW l \in Row, NEW p, NEW e, NEW lag, Fenced(l, p, e, lag)
    PROVE  l \in Lifecycle
BY DEF Row, Fenced

(* What a save says of the agents, and a save under way, have their types. *)
LEMMA HeldAgentsType ==
    ASSUME TypeOK, NEW p \in Proc, NEW k \in Key, lifecycles[k] \in Lifecycle
    PROVE  HeldAgents(p, k) \in SUBSET Agent
<1>1. inFlight[p][k] \in InFlight \union {NoRecord}
  BY DEF TypeOK
<1> QED
  BY <1>1 DEF HeldAgents, InFlight, Lifecycle

LEMMA BusyPersist ==
    ASSUME TypeOK, NEW p \in Proc, NEW k \in Key, persisting[p][k].pc # "idle"
    PROVE  persisting[p][k] \in Persist
BY DEF TypeOK, Idle

LEMMA ReleasedRow ==
    ASSUME NEW l \in Row, NEW p \in Proc, NEW e
    PROVE  ReleasedBy(l, p, e) \in Row
<1>1. 0 \in Lag
  BY SizesAssumption DEF Lag
<1> QED
  BY <1>1, RowWrites

(* A sweep only shortens leases and empties one process's cache.           *)
LEMMA ReleaseOwnedType ==
    ASSUME TypeOK, NEW p \in Proc, ReleaseOwned(p)
    PROVE  /\ lifecycles' \in [Key -> Row]
           /\ epochs' \in [Proc -> [Key -> Nat]]
<1>1. ASSUME NEW k \in Key, lifecycles[k] # NoLifecycle
      PROVE  [lifecycles[k] EXCEPT !.ttl = Relinquished] \in Row
  <2>1. lifecycles[k] \in Lifecycle
    BY <1>1, RowAt DEF Row
  <2>2. Relinquished \in Ttl
    BY SizesAssumption DEF Ttl, Relinquished
  <2> QED
    BY <2>1, <2>2 DEF Lifecycle, Row
<1>2. lifecycles' \in [Key -> Row]
  BY <1>1, RowAt DEF ReleaseOwned
<1>3. epochs' \in [Proc -> [Key -> Nat]]
  BY DEF TypeOK, ReleaseOwned
<1> QED
  BY <1>2, <1>3

LEMMA TypeStep == TypeOK /\ [Next]_vars => TypeOK'
<1> SUFFICES ASSUME TypeOK, [Next]_vars PROVE TypeOK'
  OBVIOUS
<1>1. ASSUME NEW p \in Proc, NEW k \in Key, DriveClaim(p, k) PROVE TypeOK'
  <2>0. "none" \in Drive /\ "owned" \in Drive
    BY DEF Drive
  <2>1. lifecycles' \in [Key -> Row] /\ epochs' \in [Proc -> [Key -> Nat]]
    <3>1. CASE lifecycles' = lifecycles /\ epochs' = epochs
      BY <3>1 DEF TypeOK, Row
    <3>2. CASE \E lag \in Lag :
               /\ Claimable(lifecycles[k], p, lag)
               /\ SetLifecycle(k, ClaimedBy(lifecycles[k], p, lag))
               /\ SetEpoch(p, k, ClaimEpoch(lifecycles[k], p))
      BY <3>2, ClaimType, SetLifecycleType, SetEpochType
    <3> QED
      BY <1>1, <3>1, <3>2 DEF DriveClaim, TryLater
  <2>2. retryTimers' \in [Proc -> SUBSET Key]
    <3>1. retryTimers' = retryTimers \/ ArmRetry(p, k)
      BY <1>1 DEF DriveClaim, TryLater
    <3> QED
      BY <3>1, ArmRetryType DEF TypeOK
  <2>3. drives' \in [Proc -> [Key -> Drive]]
    <3>1. SetDrive(p, k, "none") \/ SetDrive(p, k, "owned")
      BY <1>1 DEF DriveClaim, TryLater
    <3> QED
      BY <2>0, <3>1, SetDriveType
  <2> QED
    BY <1>1, <2>1, <2>2, <2>3 DEF TypeOK, DriveClaim, TryLater, Row
<1>2. ASSUME NEW p \in Proc, NEW k \in Key, Adopt(p, k) PROVE TypeOK'
  <2>1. lifecycles' \in [Key -> Row] /\ epochs' \in [Proc -> [Key -> Nat]]
    <3>1. CASE lifecycles' = lifecycles /\ epochs' = epochs
      BY <3>1 DEF TypeOK, Row
    <3>2. CASE \E lag \in Lag :
               /\ Claimable(lifecycles[k], p, lag)
               /\ SetLifecycle(k, ClaimedBy(lifecycles[k], p, lag))
               /\ SetEpoch(p, k, ClaimEpoch(lifecycles[k], p))
      BY <3>2, ClaimType, SetLifecycleType, SetEpochType
    <3> QED
      BY <1>2, <3>1, <3>2 DEF Adopt
  <2>2. inFlight' \in [Proc -> [Key -> InFlight \union {NoRecord}]]
    <3>1. CASE inFlight' = inFlight
      BY <3>1 DEF TypeOK
    <3>2. CASE /\ lifecycles[k].phase = "dispatching"
               /\ SetRecord(p, k, Restored(p, k, lifecycles[k]))
      <4>1. lifecycles[k] \in Lifecycle
        BY <3>2, RowAt, RowPhase DEF Phase
      <4> QED
        BY <3>2, <4>1, RestoredType, SetRecordType
    <3> QED
      BY <1>2, <3>1, <3>2 DEF Adopt
  <2>3. retryTimers' \in [Proc -> SUBSET Key]
    <3>1. retryTimers' = retryTimers \/ ArmRetry(p, k)
      BY <1>2 DEF Adopt
    <3> QED
      BY <3>1, ArmRetryType DEF TypeOK
  <2>4. drives' \in [Proc -> [Key -> Drive]]
    BY <1>2, SetDriveType DEF Adopt, Drive
  <2> QED
    BY <1>2, <2>1, <2>2, <2>3, <2>4 DEF TypeOK, Adopt, Row
<1>3. ASSUME NEW p \in Proc, NEW k \in Key, NEW prs \in SUBSET Repo, Dispatch(p, k, prs)
      PROVE  TypeOK'
  <2> DEFINE phase == IF Cardinality(SlotHolders) >= BatchSize
                      THEN "queued" ELSE "dispatching"
  <2>1. phase \in Phase
    BY DEF Phase
  <2>2. lifecycles' \in [Key -> Row]
    <3>1. PICK lag \in Lag :
            SetLifecycle(k, [phase |-> phase, owner |-> p, epoch |-> 1,
                             ttl |-> LeaseTerm - lag, prs |-> prs,
                             notified |-> FALSE, agents |-> {}])
      BY <1>3 DEF Dispatch
    <3>2. LeaseTerm - lag \in Ttl
      BY SizesAssumption DEF Ttl, Lag, Relinquished
    <3>3. [phase |-> phase, owner |-> p, epoch |-> 1, ttl |-> LeaseTerm - lag,
           prs |-> prs, notified |-> FALSE, agents |-> {}] \in Row
      BY <2>1, <3>2 DEF Row, Lifecycle
    <3> QED
      BY <3>1, <3>3, SetLifecycleType
  <2>3. epochs' \in [Proc -> [Key -> Nat]]
    BY <1>3, SetEpochType DEF Dispatch
  <2>4. inFlight' \in [Proc -> [Key -> InFlight \union {NoRecord}]]
    <3>1. [phase |-> phase, agents |-> {}] \in InFlight \union {NoRecord}
      BY <2>1 DEF InFlight
    <3>2. inFlight' = inFlight \/ SetRecord(p, k, [phase |-> phase, agents |-> {}])
      BY <1>3 DEF Dispatch
    <3> QED
      BY <3>1, <3>2, SetRecordType DEF TypeOK
  <2>5. retryTimers' \in [Proc -> SUBSET Key]
    <3>1. retryTimers' = retryTimers \/ ArmRetry(p, k)
      BY <1>3 DEF Dispatch
    <3> QED
      BY <3>1, ArmRetryType DEF TypeOK
  <2> QED
    BY <1>3, <2>2, <2>3, <2>4, <2>5 DEF TypeOK, Dispatch, Row
<1>4. ASSUME NEW p \in Proc, NEW k \in Key, RetryFires(p, k) PROVE TypeOK'
  <2>1. drives' \in [Proc -> [Key -> Drive]]
    BY <1>4, SetDriveType DEF RetryFires, Drive
  <2>2. retryTimers' \in [Proc -> SUBSET Key]
    BY <1>4 DEF RetryFires, TypeOK
  <2> QED
    BY <1>4, <2>1, <2>2 DEF TypeOK, RetryFires
<1>5. ASSUME NEW p \in Proc, NEW k \in Key, DriveQueued(p, k) PROVE TypeOK'
  <2>1. lifecycles' \in [Key -> Row]
    <3>1. CASE lifecycles' = lifecycles
      BY <3>1 DEF TypeOK, Row
    <3>2. CASE SetLifecycle(k, [lifecycles[k] EXCEPT !.phase = "dispatching"])
      <4>1. [lifecycles[k] EXCEPT !.phase = "dispatching"] \in Row
        BY <1>5, RowAt, RowPhase DEF DriveQueued, TryLater, Phase, Row
      <4> QED
        BY <3>2, <4>1, SetLifecycleType
    <3> QED
      BY <1>5, <3>1, <3>2 DEF DriveQueued, TryLater
  <2>2. retryTimers' \in [Proc -> SUBSET Key]
    <3>1. retryTimers' = retryTimers \/ ArmRetry(p, k)
      BY <1>5 DEF DriveQueued, TryLater
    <3> QED
      BY <3>1, ArmRetryType DEF TypeOK
  <2>3. drives' \in [Proc -> [Key -> Drive]]
    <3>1. drives' = drives \/ SetDrive(p, k, "none")
      BY <1>5 DEF DriveQueued, TryLater
    <3> QED
      BY <3>1, SetDriveType DEF TypeOK, Drive
  <2> QED
    BY <1>5, <2>1, <2>2, <2>3 DEF TypeOK, DriveQueued, TryLater, Row
<1>6. ASSUME NEW p \in Proc, NEW k \in Key, DriveOwned(p, k) PROVE TypeOK'
  <2>1. \/ \E lag \in Lag :
             /\ Fenced(lifecycles[k], p, epochs[p][k], lag)
             /\ SetLifecycle(k, RenewedBy(lifecycles[k], lag))
             /\ SetRecord(p, k, Restored(p, k, lifecycles[k]))
             /\ UNCHANGED epochs
        \/ SetEpoch(p, k, 0) /\ UNCHANGED <<lifecycles, inFlight>>
    BY <1>6 DEF DriveOwned
  <2>2. /\ lifecycles' \in [Key -> Row]
        /\ epochs' \in [Proc -> [Key -> Nat]]
        /\ inFlight' \in [Proc -> [Key -> InFlight \union {NoRecord}]]
    <3>1. CASE SetEpoch(p, k, 0) /\ UNCHANGED <<lifecycles, inFlight>>
      BY <3>1, SetEpochType DEF TypeOK, Row
    <3>2. ASSUME NEW lag \in Lag,
                 Fenced(lifecycles[k], p, epochs[p][k], lag),
                 SetLifecycle(k, RenewedBy(lifecycles[k], lag)),
                 SetRecord(p, k, Restored(p, k, lifecycles[k])),
                 UNCHANGED epochs
          PROVE  /\ lifecycles' \in [Key -> Row]
                 /\ epochs' \in [Proc -> [Key -> Nat]]
                 /\ inFlight' \in [Proc -> [Key -> InFlight \union {NoRecord}]]
      <4>1. lifecycles[k] \in Lifecycle
        BY <3>2, FencedRow DEF TypeOK, Row
      <4>2. RenewedBy(lifecycles[k], lag) \in Row
        BY <4>1, RowTypes DEF Row
      <4>3. Restored(p, k, lifecycles[k]) \in InFlight
        BY <4>1, RestoredType
      <4>4. lifecycles' \in [Key -> Row]
        BY <3>2, <4>2, SetLifecycleType
      <4>5. inFlight' \in [Proc -> [Key -> InFlight \union {NoRecord}]]
        BY <3>2, <4>3, SetRecordType
      <4> QED
        BY <3>2, <4>4, <4>5 DEF TypeOK
    <3> QED
      BY <2>1, <3>1, <3>2
  <2>3. drives' \in [Proc -> [Key -> Drive]]
    BY <1>6, SetDriveType DEF DriveOwned, Drive
  <2> QED
    BY <1>6, <2>2, <2>3 DEF TypeOK, DriveOwned, Row
<1>7. ASSUME NEW p \in Proc, NEW k \in Key, Wake(p, k) PROVE TypeOK'
  <2>1. PICK lag \in Lag : /\ Claimable(lifecycles[k], p, lag)
                           /\ SetLifecycle(k, ClaimedBy(lifecycles[k], p, lag))
    BY <1>7 DEF Wake
  <2>2. lifecycles' \in [Key -> Row]
    BY <2>1, ClaimType, SetLifecycleType
  <2>3. epochs' \in [Proc -> [Key -> Nat]]
    BY <1>7, <2>1, ClaimType, SetEpochType DEF Wake
  <2>4. drives' \in [Proc -> [Key -> Drive]]
    BY <1>7, SetDriveType DEF Wake, Drive
  <2> QED
    BY <1>7, <2>2, <2>3, <2>4 DEF TypeOK, Wake, Row
<1>8. ASSUME NEW p \in Proc, NEW k \in Key, WakePromote(p, k) PROVE TypeOK'
  <2> DEFINE l == lifecycles[k]
             Resumed == [Restored(p, k, l) EXCEPT !.phase = "dispatching"]
  <2>1. lifecycles' \in [Key -> Row]
    <3>1. CASE lifecycles' = lifecycles
      BY <3>1, RowTable
    <3>2. CASE l.phase = "waiting" /\ SetLifecycle(k, [l EXCEPT !.phase = "dispatching"])
      <4>1. [l EXCEPT !.phase = "dispatching"] \in Row
        BY <3>2, RowAt, RowPhase DEF Phase, Row
      <4> QED
        BY <3>2, <4>1, SetLifecycleType
    <3> QED
      BY <1>8, <3>1, <3>2 DEF WakePromote
  <2>2. inFlight' \in [Proc -> [Key -> InFlight \union {NoRecord}]]
    <3>1. inFlight' = inFlight \/ SetRecord(p, k, Resumed)
      BY <1>8 DEF WakePromote
    <3>2. Resumed \in InFlight \union {NoRecord}
      BY <1>8, RestoredAny DEF WakePromote
    <3> QED
      BY <3>1, <3>2, SetRecordType DEF TypeOK
  <2>3. drives' \in [Proc -> [Key -> Drive]]
    <3>1. SetDrive(p, k, "none") \/ SetDrive(p, k, "resuming")
      BY <1>8 DEF WakePromote
    <3> QED
      BY <3>1, SetDriveType DEF Drive
  <2> QED
    BY <1>8, <2>1, <2>2, <2>3 DEF TypeOK, WakePromote, Row
<1>9. ASSUME NEW p \in Proc, NEW k \in Key, WakeComplete(p, k) PROVE TypeOK'
  <2>1. drives' \in [Proc -> [Key -> Drive]]
    BY <1>9, SetDriveType DEF WakeComplete, Drive
  <2> QED
    BY <1>9, <2>1 DEF TypeOK, WakeComplete
<1>10. ASSUME NEW p \in Proc, NEW k \in Key, RenewSend(p, k) PROVE TypeOK'
  <2>1. renewing' \in [Proc -> [Key -> Nat]]
    BY <1>10 DEF TypeOK, RenewSend
  <2> QED
    BY <1>10, <2>1 DEF TypeOK, RenewSend
<1>11. ASSUME NEW p \in Proc, NEW k \in Key, RenewReceived(p, k) PROVE TypeOK'
  <2>1. \/ \E lag \in Lag : /\ Fenced(lifecycles[k], p, renewing[p][k], lag)
                            /\ SetLifecycle(k, RenewedBy(lifecycles[k], lag))
                            /\ UNCHANGED <<epochs, retryTimers>>
        \/ /\ SetEpoch(p, k, 0)
           /\ UNCHANGED retryTimers \/ ArmRetry(p, k)
           /\ UNCHANGED lifecycles
    BY <1>11 DEF RenewReceived
  <2>2. lifecycles' \in [Key -> Row]
    <3>1. CASE lifecycles' = lifecycles
      BY <3>1, RowTable
    <3>2. ASSUME NEW lag \in Lag, Fenced(lifecycles[k], p, renewing[p][k], lag),
                 SetLifecycle(k, RenewedBy(lifecycles[k], lag))
          PROVE  lifecycles' \in [Key -> Row]
      <4>1. RenewedBy(lifecycles[k], lag) \in Row
        BY <3>2, RowAt, FencedRow, RowTypes DEF Row
      <4> QED
        BY <3>2, <4>1, SetLifecycleType
    <3> QED
      BY <2>1, <3>1, <3>2
  <2>3. epochs' \in [Proc -> [Key -> Nat]]
    <3>1. epochs' = epochs \/ SetEpoch(p, k, 0)
      BY <2>1
    <3> QED
      BY <3>1, SetEpochType DEF TypeOK
  <2>4. retryTimers' \in [Proc -> SUBSET Key]
    <3>1. retryTimers' = retryTimers \/ ArmRetry(p, k)
      BY <2>1
    <3> QED
      BY <3>1, ArmRetryType DEF TypeOK
  <2>5. renewing' \in [Proc -> [Key -> Nat]]
    BY <1>11 DEF TypeOK, RenewReceived
  <2> QED
    BY <1>11, <2>2, <2>3, <2>4, <2>5 DEF TypeOK, RenewReceived, Row
<1>12. ASSUME NEW p \in Proc, NEW k \in Key, NEW a \in Agent, Place(p, k, a)
       PROVE  TypeOK'
  <2>1. inFlight[p][k] \in InFlight
    <3>1. inFlight[p][k] \in InFlight \union {NoRecord}
      BY DEF TypeOK
    <3> QED
      BY <1>12, <3>1 DEF Place, NoRecord
  <2>2. [inFlight[p][k] EXCEPT !.agents = @ \union {a}] \in InFlight
    BY <2>1 DEF InFlight
  <2>3. SetRecord(p, k, [inFlight[p][k] EXCEPT !.agents = @ \union {a}])
    BY <1>12 DEF Place, SetRecord
  <2>4. inFlight' \in [Proc -> [Key -> InFlight \union {NoRecord}]]
    BY <2>2, <2>3, SetRecordType
  <2> QED
    BY <1>12, <2>4 DEF TypeOK, Place
<1>13. ASSUME NEW p \in Proc, NEW k \in Key, NEW phase \in Phase, NEW prs \in SUBSET Repo,
              SaveStart(p, k, phase, prs)
       PROVE  TypeOK'
  <2> DEFINE c == [pc |-> "writing", epoch |-> epochs[p][k], notify |-> FALSE,
                   phase |-> phase, prs |-> prs \union lifecycles[k].prs,
                   notified |-> lifecycles[k].notified,
                   agents |-> HeldAgents(p, k)]
  <2>1. persisting' \in [Proc -> [Key -> Persist \union {Idle}]]
    <3>1. CASE persisting' = persisting
      BY <3>1 DEF TypeOK
    <3>2. CASE epochs[p][k] # 0 /\ lifecycles[k] # NoLifecycle /\ SetPersist(p, k, c)
      <4>1. lifecycles[k] \in Lifecycle
        BY <3>2, RowAt DEF Row
      <4>2. HeldAgents(p, k) \in SUBSET Agent
        BY <4>1, HeldAgentsType
      <4>3. epochs[p][k] \in Nat \ {0}
        BY <3>2 DEF TypeOK
      <4>4. c \in Persist
        BY <4>1, <4>2, <4>3 DEF Persist, Lifecycle
      <4> QED
        BY <3>2, <4>4, SetPersistType
    <3> QED
      BY <1>13, <3>1, <3>2 DEF SaveStart, Snapshot
  <2>2. retryTimers' \in [Proc -> SUBSET Key]
    <3>1. retryTimers' = retryTimers \/ ArmRetry(p, k)
      BY <1>13 DEF SaveStart, Snapshot
    <3> QED
      BY <3>1, ArmRetryType DEF TypeOK
  <2>3. parked' \in SUBSET Key
    BY <1>13 DEF TypeOK, SaveStart, Snapshot
  <2>4. /\ attempts' \in [Proc -> [Key -> 0 .. MaxAttempts]]
        /\ abandoned' \in [Proc -> SUBSET Key]
    <3>1. CASE ClearReleaseAttempts(p, k)
      BY <3>1, SizesAssumption DEF TypeOK, ClearReleaseAttempts
    <3>2. CASE UNCHANGED <<attempts, abandoned>>
      BY <3>2 DEF TypeOK
    <3> QED
      BY <1>13, <3>1, <3>2 DEF SaveStart, Snapshot
  <2> QED
    BY <1>13, <2>1, <2>2, <2>3, <2>4 DEF TypeOK, SaveStart, Snapshot
<1>w. ASSUME NEW p \in Proc, NEW k \in Key, WakeSave(p, k) PROVE TypeOK'
  <2> DEFINE c == [pc |-> "writing", epoch |-> epochs[p][k], notify |-> FALSE,
                   phase |-> "dispatching", prs |-> {} \union lifecycles[k].prs,
                   notified |-> lifecycles[k].notified,
                   agents |-> HeldAgents(p, k)]
  <2>1. CASE /\ TryLater(p, k) /\ SetRecord(p, k, NoRecord)
             /\ UNCHANGED <<persisting, lifecycles, epochs, renewing, handback,
                            attempts, abandoned, status, parked, announced>>
    <3>1. drives' \in [Proc -> [Key -> Drive]] /\ retryTimers' \in [Proc -> SUBSET Key]
      BY <2>1, SetDriveType, ArmRetryType DEF TryLater, Drive
    <3>2. inFlight' \in [Proc -> [Key -> InFlight \union {NoRecord}]]
      BY <2>1, SetRecordType
    <3> QED
      BY <2>1, <3>1, <3>2 DEF TypeOK
  <2>2. CASE /\ epochs[p][k] # 0 /\ lifecycles[k] # NoLifecycle
             /\ SetPersist(p, k, c) /\ SetDrive(p, k, "resumed")
             /\ UNCHANGED <<retryTimers, inFlight, lifecycles, epochs, renewing,
                            handback, attempts, abandoned, status, parked, announced>>
    <3>1. lifecycles[k] \in Lifecycle
      BY <2>2, RowAt DEF Row
    <3>2. HeldAgents(p, k) \in SUBSET Agent
      BY <3>1, HeldAgentsType
    <3>3. epochs[p][k] \in Nat \ {0}
      BY <2>2 DEF TypeOK
    <3>4. c \in Persist
      BY <3>1, <3>2, <3>3 DEF Persist, Lifecycle, Phase
    <3>5. persisting' \in [Proc -> [Key -> Persist \union {Idle}]]
      BY <2>2, <3>4, SetPersistType
    <3>6. drives' \in [Proc -> [Key -> Drive]]
      BY <2>2, SetDriveType DEF Drive
    <3> QED
      BY <2>2, <3>5, <3>6 DEF TypeOK
  <2> QED
    BY <1>w, <2>1, <2>2 DEF WakeSave, Snapshot
<1>14. ASSUME NEW p \in Proc, NEW k \in Key, NotifyStart(p, k) PROVE TypeOK'
  <2> DEFINE c == [pc |-> "writing", epoch |-> epochs[p][k], notify |-> TRUE,
                   phase |-> lifecycles[k].phase, prs |-> lifecycles[k].prs,
                   notified |-> TRUE, agents |-> lifecycles[k].agents]
  <2>1. persisting' \in [Proc -> [Key -> Persist \union {Idle}]]
    <3>1. CASE persisting' = persisting
      BY <3>1 DEF TypeOK
    <3>2. CASE epochs[p][k] # 0 /\ lifecycles[k] # NoLifecycle /\ SetPersist(p, k, c)
      <4>1. lifecycles[k] \in Lifecycle
        BY <3>2, RowAt DEF Row
      <4>2. epochs[p][k] \in Nat \ {0}
        BY <3>2 DEF TypeOK
      <4>3. c \in Persist
        BY <4>1, <4>2 DEF Persist, Lifecycle
      <4> QED
        BY <3>2, <4>3, SetPersistType
    <3> QED
      BY <1>14, <3>1, <3>2 DEF NotifyStart
  <2>2. retryTimers' \in [Proc -> SUBSET Key]
    <3>1. retryTimers' = retryTimers \/ ArmRetry(p, k)
      BY <1>14 DEF NotifyStart
    <3> QED
      BY <3>1, ArmRetryType DEF TypeOK
  <2> QED
    BY <1>14, <2>1, <2>2 DEF TypeOK, NotifyStart
<1>15. ASSUME NEW p \in Proc, NEW k \in Key, SaveAccepted(p, k) PROVE TypeOK'
  <2> DEFINE l == lifecycles[k]
             c == persisting[p][k]
             r == inFlight[p][k]
  <2>1. c \in Persist
    BY <1>15, BusyPersist DEF SaveAccepted
  <2>2. l \in Lifecycle
    BY <1>15, RowAt, FencedRow DEF SaveAccepted
  <2>3. lifecycles' \in [Key -> Row]
    <3>1. [l EXCEPT !.phase = c.phase, !.prs = c.prs,
                    !.notified = c.notified, !.agents = c.agents] \in Row
      BY <2>1, <2>2 DEF Lifecycle, Persist, Row
    <3> QED
      BY <1>15, <3>1, SetLifecycleType DEF SaveAccepted
  <2>4. persisting' \in [Proc -> [Key -> Persist \union {Idle}]]
    <3>1. [c EXCEPT !.pc = "closing"] \in Persist
      BY <2>1 DEF Persist
    <3> QED
      BY <1>15, <3>1, SetPersistType DEF SaveAccepted
  <2>5. inFlight' \in [Proc -> [Key -> InFlight \union {NoRecord}]]
    <3>1. r \in InFlight \union {NoRecord}
      BY DEF TypeOK
    <3>2. r # NoRecord => [r EXCEPT !.phase = c.phase] \in InFlight
      BY <2>1, <3>1 DEF InFlight, Persist
    <3> DEFINE saved == IF c.notify \/ r = NoRecord THEN r
                        ELSE IF c.phase = "waiting" THEN NoRecord
                        ELSE [r EXCEPT !.phase = c.phase]
    <3>3. SetRecord(p, k, saved)
      BY <1>15 DEF SaveAccepted
    <3>4. saved \in InFlight \union {NoRecord}
      BY <3>1, <3>2
    <3> HIDE DEF saved
    <3> QED
      BY <3>3, <3>4, SetRecordType
  <2>6. announced' \in [Key -> Nat]
    BY <1>15 DEF TypeOK, SaveAccepted
  <2> QED
    BY <1>15, <2>3, <2>4, <2>5, <2>6 DEF TypeOK, SaveAccepted, Row
<1>16. ASSUME NEW p \in Proc, NEW k \in Key, SaveRefused(p, k) PROVE TypeOK'
  <2>1. persisting' \in [Proc -> [Key -> Persist \union {Idle}]]
    BY <1>16, SetPersistType DEF SaveRefused
  <2>2. epochs' \in [Proc -> [Key -> Nat]]
    BY <1>16, SetEpochType DEF SaveRefused
  <2>3. retryTimers' \in [Proc -> SUBSET Key]
    BY <1>16, ArmRetryType DEF SaveRefused
  <2>4. drives' \in [Proc -> [Key -> Drive]]
    <3>1. drives' = drives \/ SetDrive(p, k, "none")
      BY <1>16 DEF SaveRefused
    <3> QED
      BY <3>1, SetDriveType DEF TypeOK, Drive
  <2>5. inFlight' \in [Proc -> [Key -> InFlight \union {NoRecord}]]
    <3>1. inFlight' = inFlight \/ SetRecord(p, k, NoRecord)
      BY <1>16 DEF SaveRefused
    <3> QED
      BY <3>1, SetRecordType DEF TypeOK
  <2> QED
    BY <1>16, <2>1, <2>2, <2>3, <2>4, <2>5 DEF TypeOK, SaveRefused
<1>17. ASSUME NEW p \in Proc, NEW k \in Key, SaveClosed(p, k) PROVE TypeOK'
  <2>1. persisting' \in [Proc -> [Key -> Persist \union {Idle}]]
    BY <1>17, SetPersistType DEF SaveClosed
  <2>2. epochs' \in [Proc -> [Key -> Nat]]
    BY <1>17, SetEpochType DEF SaveClosed
  <2>3. inFlight' \in [Proc -> [Key -> InFlight \union {NoRecord}]]
    BY <1>17, SetRecordType DEF SaveClosed
  <2> QED
    BY <1>17, <2>1, <2>2, <2>3 DEF TypeOK, SaveClosed
<1>18. ASSUME NEW p \in Proc, NEW k \in Key, ReleaseFails(p, k) PROVE TypeOK'
  <2>1. /\ attempts' \in [Proc -> [Key -> 0 .. MaxAttempts]]
        /\ abandoned' \in [Proc -> SUBSET Key]
        /\ handback' \in [Proc -> [Key -> Handback]]
    <3>1. CASE k \in abandoned[p] \/ attempts[p][k] = MaxAttempts
      <4>1. /\ abandoned' = [abandoned EXCEPT ![p] = @ \union {k}]
            /\ attempts' = [attempts EXCEPT ![p][k] = 0]
            /\ handback' = [handback EXCEPT ![p][k] =
                              IF @ = NoHandback THEN HandbackAsked ELSE @]
        BY <1>18, <3>1 DEF ReleaseFails, BudgetSpent, AskHandback
      <4>2. handback' \in [Proc -> [Key -> Handback]]
        <5> DEFINE h == IF handback[p][k] = NoHandback THEN HandbackAsked
                        ELSE handback[p][k]
        <5>1. handback \in [Proc -> [Key -> Handback]]
          BY DEF TypeOK
        <5>2. h \in Handback
          BY <5>1 DEF Handback
        <5>3. handback' = [handback EXCEPT ![p][k] = h]
          BY <4>1
        <5> HIDE DEF h
        <5> QED
          BY <5>1, <5>2, <5>3, ExceptTwo
      <4>3. attempts' \in [Proc -> [Key -> 0 .. MaxAttempts]]
        BY <4>1, SizesAssumption DEF TypeOK
      <4>4. abandoned' \in [Proc -> SUBSET Key]
        BY <4>1 DEF TypeOK
      <4> QED
        BY <4>2, <4>3, <4>4
    <3>2. CASE ~(k \in abandoned[p] \/ attempts[p][k] = MaxAttempts)
      <4>1. /\ attempts' = [attempts EXCEPT ![p][k] = @ + 1]
            /\ UNCHANGED <<abandoned, handback>>
        BY <1>18, <3>2 DEF ReleaseFails, BudgetSpent, AskHandback
      <4>2. attempts[p][k] + 1 \in 0 .. MaxAttempts
        <5>1. attempts[p][k] \in 0 .. MaxAttempts
          BY DEF TypeOK
        <5> QED
          BY <3>2, <5>1, SizesAssumption
      <4> QED
        BY <4>1, <4>2 DEF TypeOK
    <3> QED
      BY <3>1, <3>2
  <2>2. inFlight' \in [Proc -> [Key -> InFlight \union {NoRecord}]]
    <3>1. inFlight' = inFlight \/ SetRecord(p, k, NoRecord)
      BY <1>18 DEF ReleaseFails, BudgetSpent, AskHandback
    <3> QED
      BY <3>1, SetRecordType DEF TypeOK
  <2>3. retryTimers' \in [Proc -> SUBSET Key]
    <3>1. retryTimers' = retryTimers \/ ArmRetry(p, k)
      BY <1>18 DEF ReleaseFails, BudgetSpent, AskHandback
    <3> QED
      BY <3>1, ArmRetryType DEF TypeOK
  <2> QED
    BY <1>18, <2>1, <2>2, <2>3 DEF TypeOK, ReleaseFails, BudgetSpent, AskHandback
<1>19. ASSUME NEW p \in Proc, NEW k \in Key, HandbackStart(p, k) PROVE TypeOK'
  <2>1. epochs' \in [Proc -> [Key -> Nat]]
    BY <1>19, SetEpochType DEF HandbackStart
  <2>2. handback' \in [Proc -> [Key -> Handback]]
    BY <1>19 DEF TypeOK, HandbackStart, Handback
  <2> QED
    BY <1>19, <2>1, <2>2 DEF TypeOK, HandbackStart
<1>20. ASSUME NEW p \in Proc, NEW k \in Key, HandbackReleased(p, k) PROVE TypeOK'
  <2>1. ReleasedBy(lifecycles[k], p, handback[p][k]) \in Row
    BY RowAt, ReleasedRow
  <2>2. lifecycles' \in [Key -> Row]
    BY <1>20, <2>1, SetLifecycleType DEF HandbackReleased
  <2>3. handback' \in [Proc -> [Key -> Handback]]
    BY <1>20 DEF TypeOK, HandbackReleased, Handback, NoHandback
  <2> QED
    BY <1>20, <2>2, <2>3 DEF TypeOK, HandbackReleased, Row
<1>21. ASSUME NEW p \in Proc, Start(p) PROVE TypeOK'
  BY <1>21 DEF TypeOK, Start, Drive, Status
<1>22. ASSUME NEW p \in Proc, Stop(p) PROVE TypeOK'
  BY <1>22 DEF TypeOK, Stop, Status
<1>23. ASSUME NEW p \in Proc, StopSweep(p) PROVE TypeOK'
  <2>1. lifecycles' \in [Key -> Row] /\ epochs' \in [Proc -> [Key -> Nat]]
    BY <1>23, ReleaseOwnedType DEF StopSweep
  <2>2. status' \in [Proc -> Status]
    BY <1>23 DEF TypeOK, StopSweep, Status
  <2> QED
    BY <1>23, <2>1, <2>2 DEF TypeOK, StopSweep, Row
<1>24. ASSUME NEW p \in Proc, StopFinal(p) PROVE TypeOK'
  <2>1. lifecycles' \in [Key -> Row] /\ epochs' \in [Proc -> [Key -> Nat]]
    BY <1>24, ReleaseOwnedType DEF StopFinal
  <2>2. /\ status' \in [Proc -> Status]
        /\ inFlight' \in [Proc -> [Key -> InFlight \union {NoRecord}]]
        /\ attempts' \in [Proc -> [Key -> 0 .. MaxAttempts]]
        /\ abandoned' \in [Proc -> SUBSET Key]
    BY <1>24, SizesAssumption DEF TypeOK, StopFinal, Status
  <2> QED
    BY <1>24, <2>1, <2>2 DEF TypeOK, StopFinal, Row
<1>25. ASSUME NEW p \in Proc, Crash(p) PROVE TypeOK'
  <2>1. /\ status' \in [Proc -> Status]
        /\ epochs' \in [Proc -> [Key -> Nat]]
        /\ inFlight' \in [Proc -> [Key -> InFlight \union {NoRecord}]]
        /\ retryTimers' \in [Proc -> SUBSET Key]
    BY <1>25 DEF TypeOK, Crash, Status
  <2>2. /\ drives' \in [Proc -> [Key -> Drive]]
        /\ persisting' \in [Proc -> [Key -> Persist \union {Idle}]]
        /\ renewing' \in [Proc -> [Key -> Nat]]
    BY <1>25 DEF TypeOK, Crash, Drive
  <2>3. /\ handback' \in [Proc -> [Key -> Handback]]
        /\ attempts' \in [Proc -> [Key -> 0 .. MaxAttempts]]
        /\ abandoned' \in [Proc -> SUBSET Key]
    BY <1>25, SizesAssumption DEF TypeOK, Crash, Handback, NoHandback
  <2> QED
    BY <1>25, <2>1, <2>2, <2>3 DEF TypeOK, Crash
<1>26. ASSUME Tick PROVE TypeOK'
  <2>1. lifecycles' \in [Key -> Row]
    <3> SUFFICES ASSUME NEW k \in Key, lifecycles[k] # NoLifecycle,
                        lifecycles[k].ttl > -MaxLag
                 PROVE  [lifecycles[k] EXCEPT !.ttl = @ - 1] \in Row
      BY <1>26, RowAt DEF Tick
    <3>1. lifecycles[k] \in Lifecycle
      BY RowAt DEF Row
    <3>2. lifecycles[k].ttl - 1 \in Ttl
      BY <3>1, SizesAssumption DEF Lifecycle, Ttl, Relinquished
    <3> QED
      BY <3>1, <3>2 DEF Lifecycle, Row
  <2> QED
    BY <1>26, <2>1 DEF TypeOK, Tick, local, Row
<1>27. CASE UNCHANGED vars
  BY <1>27 DEF TypeOK, vars
<1> QED
  BY <1>1, <1>2, <1>3, <1>4, <1>5, <1>6, <1>7, <1>8, <1>9, <1>10, <1>11, <1>12,
     <1>13, <1>w, <1>14, <1>15, <1>16, <1>17, <1>18, <1>19, <1>20, <1>21, <1>22, <1>23,
     <1>24, <1>25, <1>26, <1>27
     DEF Next, ProcessStep, DriveStep

(* Every variable keeps its type, whatever the constants are.              *)
THEOREM TypeCorrect == Spec => []TypeOK
<1>1. TypeOK /\ [Next]_vars => TypeOK'
  BY TypeStep
<1> QED
  BY TypeInit, <1>1, PTL DEF Spec

-----------------------------------------------------------------------------
(* Safety: a step changes the row of one work unit in one of five ways, or *)
(* leaves all of it but the lease alone; StepKinds says which, with what   *)
(* happens to the caches of the processes.  SavesCurrentOrFenced and the   *)
(* properties of rows then follow kind by kind.                            *)

(* Every part of a row but its lease is as it was. *)
SameButLease(l, m) ==
    \/ m = l
    \/ l \in Lifecycle /\ \E t \in Ttl : m = [l EXCEPT !.ttl = t]

(* What a process remembers of k: its epoch and its save. *)
CacheKept(p, k) ==
    epochs'[p][k] = epochs[p][k] /\ persisting'[p][k] = persisting[p][k]

CacheQuiet(p, k) ==
    \/ CacheKept(p, k)
    \/ epochs'[p][k] = 0 /\ persisting'[p][k] \in {persisting[p][k], Idle}

OthersKept(p, k) == \A q \in Proc \ {p} : CacheKept(q, k)

Keeps(k) ==
    /\ SameButLease(lifecycles[k], lifecycles'[k])
    /\ announced'[k] = announced[k]
    /\ \A p \in Proc : CacheQuiet(p, k)

Begins(p, k) ==
    LET l == lifecycles[k]
        c == persisting'[p][k] IN
    /\ persisting[p][k] = Idle
    /\ epochs[p][k] # 0
    /\ l # NoLifecycle
    /\ c.pc = "writing"
    /\ c.epoch = epochs[p][k]
    /\ \/ c.notify = FALSE /\ l.prs \subseteq c.prs /\ c.notified = l.notified
       \/ c.notify = TRUE /\ c.notified = TRUE /\ c.phase = l.phase
          /\ c.prs = l.prs /\ l.notified = FALSE
    /\ lifecycles'[k] = l
    /\ announced'[k] = announced[k]
    /\ epochs'[p][k] = epochs[p][k]
    /\ OthersKept(p, k)

Opens(p, k) ==
    /\ lifecycles[k] = NoLifecycle
    /\ lifecycles'[k] \in Lifecycle
    /\ lifecycles'[k].phase # "terminal"
    /\ lifecycles'[k].owner = p
    /\ lifecycles'[k].epoch = 1
    /\ lifecycles'[k].notified = FALSE
    /\ announced'[k] = announced[k]
    /\ epochs'[p][k] = 1
    /\ persisting'[p][k] = persisting[p][k]
    /\ OthersKept(p, k)

Claims(p, k) ==
    /\ \E lag \in Lag : /\ Claimable(lifecycles[k], p, lag)
                        /\ lifecycles'[k] = ClaimedBy(lifecycles[k], p, lag)
    /\ announced'[k] = announced[k]
    /\ epochs'[p][k] = ClaimEpoch(lifecycles[k], p)
    /\ persisting'[p][k] = persisting[p][k]
    /\ OthersKept(p, k)

Promotes(k) ==
    /\ lifecycles[k].phase \in {"queued", "waiting"}
    /\ lifecycles'[k] = [lifecycles[k] EXCEPT !.phase = "dispatching"]
    /\ announced'[k] = announced[k]
    /\ \A p \in Proc : CacheKept(p, k)

Saves(p, k) ==
    LET l == lifecycles[k]
        c == persisting[p][k] IN
    /\ c.pc = "writing"
    /\ \E lag \in Lag : Fenced(l, p, c.epoch, lag)
    /\ lifecycles'[k] = [l EXCEPT !.phase = c.phase, !.prs = c.prs,
                           !.notified = c.notified, !.agents = c.agents]
    /\ persisting'[p][k] = IF c.phase = "terminal"
                           THEN [c EXCEPT !.pc = "closing"] ELSE Idle
    /\ announced'[k] = IF c.notify THEN announced[k] + 1 ELSE announced[k]
    /\ epochs'[p][k] = epochs[p][k]
    /\ OthersKept(p, k)

Kind(k) ==
    \/ Keeps(k)
    \/ Promotes(k)
    \/ \E p \in Proc : Begins(p, k) \/ Opens(p, k) \/ Claims(p, k) \/ Saves(p, k)

LEMMA ExceptElsewhere ==
    ASSUME NEW R, NEW S, NEW T, NEW f \in [R -> [S -> T]],
           NEW r \in R, NEW s \in S, NEW x, NEW q \in R, NEW t \in S,
           q # r \/ t # s
    PROVE  [f EXCEPT ![r][s] = x][q][t] = f[q][t]
OBVIOUS

LEMMA EpochElsewhere ==
    ASSUME TypeOK, NEW p \in Proc, NEW j \in Key, NEW e, SetEpoch(p, j, e),
           NEW q \in Proc, NEW k \in Key, q # p \/ k # j
    PROVE  epochs'[q][k] = epochs[q][k]
<1>1. epochs \in [Proc -> [Key -> Nat]]
  BY DEF TypeOK
<1> QED
  BY <1>1, ExceptElsewhere DEF SetEpoch

LEMMA PersistElsewhere ==
    ASSUME TypeOK, NEW p \in Proc, NEW j \in Key, NEW c, SetPersist(p, j, c),
           NEW q \in Proc, NEW k \in Key, q # p \/ k # j
    PROVE  persisting'[q][k] = persisting[q][k]
<1>1. persisting \in [Proc -> [Key -> Persist \union {Idle}]]
  BY DEF TypeOK
<1> QED
  BY <1>1, ExceptElsewhere DEF SetPersist

LEMMA EpochHere ==
    ASSUME TypeOK, NEW p \in Proc, NEW k \in Key, NEW e, SetEpoch(p, k, e)
    PROVE  epochs'[p][k] = e
BY DEF TypeOK, SetEpoch

LEMMA PersistHere ==
    ASSUME TypeOK, NEW p \in Proc, NEW k \in Key, NEW c, SetPersist(p, k, c)
    PROVE  persisting'[p][k] = c
BY DEF TypeOK, SetPersist

LEMMA LifecycleHere ==
    ASSUME TypeOK, NEW k \in Key, NEW l, SetLifecycle(k, l)
    PROVE  lifecycles'[k] = l
BY DEF TypeOK, SetLifecycle

(* A step of one work unit leaves the rows of the others alone.            *)
LEMMA OtherRows ==
    ASSUME TypeOK, NEW p \in Proc, NEW j \in Key, ProcessStep(p, j),
           NEW k \in Key, k # j
    PROVE  lifecycles'[k] = lifecycles[k]
<1>1. lifecycles' = lifecycles \/ \E l : SetLifecycle(j, l)
  BY DEF ProcessStep, DriveStep, Adopt, Dispatch, RetryFires, DriveClaim, TryLater,
         DriveQueued, TryLater, DriveOwned, Wake, WakePromote, WakeSave, WakeComplete, RenewSend,
         RenewReceived, Place, SaveStart, Snapshot, NotifyStart, SaveAccepted, SaveRefused,
         SaveClosed, ReleaseFails, BudgetSpent, AskHandback, HandbackStart, HandbackReleased
<1> QED
  BY <1>1 DEF SetLifecycle, TypeOK

(* A step of one work unit leaves the others alone.                        *)
LEMMA OtherKeys ==
    ASSUME TypeOK, NEW p \in Proc, NEW j \in Key, ProcessStep(p, j),
           NEW k \in Key, k # j
    PROVE  Keeps(k)
<1>1. lifecycles'[k] = lifecycles[k]
  BY OtherRows
<1>2. \A q \in Proc : epochs'[q][k] = epochs[q][k]
  <2>1. epochs' = epochs \/ \E e : SetEpoch(p, j, e)
    BY DEF ProcessStep, DriveStep, Adopt, Dispatch, RetryFires, DriveClaim, TryLater,
           DriveQueued, TryLater, DriveOwned, Wake, WakePromote, WakeSave, WakeComplete, RenewSend,
           RenewReceived, Place, SaveStart, Snapshot, NotifyStart, SaveAccepted, SaveRefused,
           SaveClosed, ReleaseFails, BudgetSpent, AskHandback, HandbackStart, HandbackReleased
  <2> QED
    BY <2>1, EpochElsewhere
<1>3. \A q \in Proc : persisting'[q][k] = persisting[q][k]
  <2>1. persisting' = persisting \/ \E c : SetPersist(p, j, c)
    BY DEF ProcessStep, DriveStep, Adopt, Dispatch, RetryFires, DriveClaim, TryLater,
           DriveQueued, TryLater, DriveOwned, Wake, WakePromote, WakeSave, WakeComplete, RenewSend,
           RenewReceived, Place, SaveStart, Snapshot, NotifyStart, SaveAccepted, SaveRefused,
           SaveClosed, ReleaseFails, BudgetSpent, AskHandback, HandbackStart, HandbackReleased
  <2> QED
    BY <2>1, PersistElsewhere
<1>4. announced'[k] = announced[k]
  <2>1. announced' = announced \/ announced' = [announced EXCEPT ![j] = @ + 1]
    BY DEF ProcessStep, DriveStep, Adopt, Dispatch, RetryFires, DriveClaim, TryLater,
           DriveQueued, TryLater, DriveOwned, Wake, WakePromote, WakeSave, WakeComplete, RenewSend,
           RenewReceived, Place, SaveStart, Snapshot, NotifyStart, SaveAccepted, SaveRefused,
           SaveClosed, ReleaseFails, BudgetSpent, AskHandback, HandbackStart, HandbackReleased
  <2> QED
    BY <2>1 DEF TypeOK
<1> QED
  BY <1>1, <1>2, <1>3, <1>4 DEF Keeps, SameButLease, CacheQuiet, CacheKept

(* The kinds of the steps of one work unit.                                *)
LEMMA OwnKey ==
    ASSUME TypeOK, NEW p \in Proc, NEW k \in Key, ProcessStep(p, k)
    PROVE  Kind(k)
<1>t. lifecycles[k] \in Row
  BY RowAt
<1>q. ASSUME UNCHANGED <<lifecycles, announced, epochs, persisting>> PROVE Keeps(k)
  BY <1>q DEF Keeps, SameButLease, CacheQuiet, CacheKept
(* Steps that write neither the row, the epochs nor the saves. *)
<1>1. CASE \/ RetryFires(p, k) \/ WakeComplete(p, k) \/ RenewSend(p, k)
           \/ \E a \in Agent : Place(p, k, a)
           \/ ReleaseFails(p, k)
  <2>1. UNCHANGED <<lifecycles, announced, epochs, persisting>>
    BY <1>1 DEF RetryFires, WakeComplete, RenewSend, Place, ReleaseFails, BudgetSpent, AskHandback
  <2> QED
    BY <2>1, <1>q DEF Kind
(* Claims *)
<1>2. ASSUME NEW lag \in Lag, Claimable(lifecycles[k], p, lag),
             SetLifecycle(k, ClaimedBy(lifecycles[k], p, lag)),
             SetEpoch(p, k, ClaimEpoch(lifecycles[k], p)),
             UNCHANGED <<announced, persisting>>
      PROVE  Claims(p, k)
  <2>1. /\ lifecycles'[k] = ClaimedBy(lifecycles[k], p, lag)
        /\ epochs'[p][k] = ClaimEpoch(lifecycles[k], p)
    BY <1>2, LifecycleHere, EpochHere
  <2>2. OthersKept(p, k)
    BY <1>2, EpochElsewhere DEF OthersKept, CacheKept
  <2> QED
    BY <1>2, <2>1, <2>2 DEF Claims
<1>3. CASE Adopt(p, k)
  <2>1. CASE UNCHANGED <<lifecycles, epochs>>
    BY <1>3, <2>1, <1>q DEF Adopt, Kind
  <2>2. CASE \E lag \in Lag : /\ Claimable(lifecycles[k], p, lag)
                              /\ SetLifecycle(k, ClaimedBy(lifecycles[k], p, lag))
                              /\ SetEpoch(p, k, ClaimEpoch(lifecycles[k], p))
    <3>1. UNCHANGED <<announced, persisting>>
      BY <1>3 DEF Adopt
    <3> QED
      BY <1>2, <2>2, <3>1 DEF Kind
  <2> QED
    BY <1>3, <2>1, <2>2 DEF Adopt
<1>4. CASE DriveClaim(p, k)
  <2>1. CASE UNCHANGED <<lifecycles, epochs>>
    BY <1>4, <2>1, <1>q DEF DriveClaim, TryLater, Kind
  <2>2. CASE \E lag \in Lag : /\ Claimable(lifecycles[k], p, lag)
                              /\ SetLifecycle(k, ClaimedBy(lifecycles[k], p, lag))
                              /\ SetEpoch(p, k, ClaimEpoch(lifecycles[k], p))
    <3>1. UNCHANGED <<announced, persisting>>
      BY <1>4 DEF DriveClaim, TryLater
    <3> QED
      BY <1>2, <2>2, <3>1 DEF Kind
  <2> QED
    BY <1>4, <2>1, <2>2 DEF DriveClaim, TryLater
<1>5. CASE Wake(p, k)
  BY <1>2, <1>5 DEF Wake, Kind
(* Promotions *)
<1>6. ASSUME lifecycles[k].phase \in {"queued", "waiting"},
             SetLifecycle(k, [lifecycles[k] EXCEPT !.phase = "dispatching"]),
             UNCHANGED <<announced, epochs, persisting>>
      PROVE  Promotes(k)
  BY <1>6, LifecycleHere DEF Promotes, CacheKept
<1>7. CASE DriveQueued(p, k)
  <2>1. UNCHANGED <<announced, epochs, persisting>> /\ lifecycles[k].phase = "queued"
    BY <1>7 DEF DriveQueued, TryLater
  <2>2. UNCHANGED lifecycles \/ SetLifecycle(k, [lifecycles[k] EXCEPT !.phase = "dispatching"])
    BY <1>7 DEF DriveQueued, TryLater
  <2> QED
    BY <1>q, <1>6, <2>1, <2>2 DEF Kind
<1>8. CASE WakePromote(p, k)
  <2>1. UNCHANGED <<announced, epochs, persisting>>
    BY <1>8 DEF WakePromote
  <2>2. UNCHANGED lifecycles
        \/ /\ lifecycles[k].phase = "waiting"
           /\ SetLifecycle(k, [lifecycles[k] EXCEPT !.phase = "dispatching"])
    BY <1>8 DEF WakePromote
  <2> QED
    BY <1>q, <1>6, <2>1, <2>2 DEF Kind
(* Leases alone *)
<1>9. ASSUME NEW m, SetLifecycle(k, m), SameButLease(lifecycles[k], m),
             UNCHANGED <<announced, persisting>>,
             UNCHANGED epochs \/ SetEpoch(p, k, 0)
      PROVE  Keeps(k)
  <2>1. \A q \in Proc : epochs'[q][k] = epochs[q][k] \/ epochs'[q][k] = 0
    BY <1>9, EpochHere, EpochElsewhere
  <2> QED
    BY <1>9, <2>1, LifecycleHere DEF Keeps, CacheQuiet, CacheKept
<1>10. ASSUME SetEpoch(p, k, 0), UNCHANGED <<lifecycles, announced, persisting>>
       PROVE  Keeps(k)
  <2>1. \A q \in Proc : epochs'[q][k] = epochs[q][k] \/ epochs'[q][k] = 0
    BY <1>10, EpochHere, EpochElsewhere
  <2> QED
    BY <1>10, <2>1 DEF Keeps, CacheQuiet, CacheKept, SameButLease
<1>11. ASSUME NEW lag \in Lag, NEW e, Fenced(lifecycles[k], p, e, lag)
       PROVE  SameButLease(lifecycles[k], RenewedBy(lifecycles[k], lag))
  <2>1. LeaseTerm - lag \in Ttl
    BY SizesAssumption DEF Ttl, Lag, Relinquished
  <2> QED
    BY <1>11, <2>1, <1>t, FencedRow DEF SameButLease, RenewedBy
<1>12. CASE DriveOwned(p, k)
  <2>1. UNCHANGED <<announced, persisting>>
    BY <1>12 DEF DriveOwned
  <2>2. \/ SetEpoch(p, k, 0) /\ UNCHANGED lifecycles
        \/ \E lag \in Lag : /\ Fenced(lifecycles[k], p, epochs[p][k], lag)
                            /\ SetLifecycle(k, RenewedBy(lifecycles[k], lag))
                            /\ UNCHANGED epochs
    BY <1>12 DEF DriveOwned
  <2> QED
    BY <1>9, <1>10, <1>11, <2>1, <2>2 DEF Kind
<1>13. CASE RenewReceived(p, k)
  <2>1. UNCHANGED <<announced, persisting>>
    BY <1>13 DEF RenewReceived
  <2>2. \/ SetEpoch(p, k, 0) /\ UNCHANGED lifecycles
        \/ \E lag \in Lag : /\ Fenced(lifecycles[k], p, renewing[p][k], lag)
                            /\ SetLifecycle(k, RenewedBy(lifecycles[k], lag))
                            /\ UNCHANGED epochs
    BY <1>13 DEF RenewReceived
  <2> QED
    BY <1>9, <1>10, <1>11, <2>1, <2>2 DEF Kind
<1>14. CASE HandbackStart(p, k)
  BY <1>10, <1>14 DEF HandbackStart, Kind
<1>15. CASE HandbackReleased(p, k)
  <2>1. SameButLease(lifecycles[k], ReleasedBy(lifecycles[k], p, handback[p][k]))
    <3>1. Relinquished \in Ttl
      BY SizesAssumption DEF Ttl, Relinquished
    <3> QED
      BY <1>t, <3>1 DEF SameButLease, ReleasedBy, Row
  <2> QED
    BY <1>9, <1>15, <2>1 DEF HandbackReleased, Kind
(* Dispatches *)
<1>16. ASSUME NEW prs \in SUBSET Repo, Dispatch(p, k, prs) PROVE Opens(p, k)
  <2> DEFINE phase == IF Cardinality(SlotHolders) >= BatchSize
                      THEN "queued" ELSE "dispatching"
  <2>1. PICK lag \in Lag :
          SetLifecycle(k, [phase |-> phase, owner |-> p, epoch |-> 1,
                           ttl |-> LeaseTerm - lag, prs |-> prs,
                           notified |-> FALSE, agents |-> {}])
    BY <1>16 DEF Dispatch
  <2>2. lifecycles'[k] = [phase |-> phase, owner |-> p, epoch |-> 1,
                          ttl |-> LeaseTerm - lag, prs |-> prs,
                          notified |-> FALSE, agents |-> {}]
    BY <2>1, LifecycleHere
  <2>3. LeaseTerm - lag \in Ttl
    BY SizesAssumption DEF Ttl, Lag, Relinquished
  <2>4. lifecycles'[k] \in Lifecycle /\ lifecycles'[k].phase # "terminal"
    BY <2>2, <2>3 DEF Lifecycle, Phase
  <2>5. lifecycles[k] = NoLifecycle /\ UNCHANGED <<announced, persisting>>
    BY <1>16 DEF Dispatch
  <2>6. epochs'[p][k] = 1 /\ OthersKept(p, k)
    BY <1>16, <2>5, EpochHere, EpochElsewhere DEF Dispatch, OthersKept, CacheKept
  <2> QED
    BY <2>2, <2>4, <2>5, <2>6 DEF Opens
(* Saves *)
<1>17. ASSUME NEW c, SetPersist(p, k, c), UNCHANGED epochs
       PROVE  /\ persisting'[p][k] = c
              /\ epochs'[p][k] = epochs[p][k]
              /\ OthersKept(p, k)
  BY <1>17, PersistHere, PersistElsewhere DEF OthersKept, CacheKept
<1>18. ASSUME NEW phase \in Phase, NEW prs \in SUBSET Repo, SaveStart(p, k, phase, prs)
       PROVE  Keeps(k) \/ Begins(p, k)
  <2> DEFINE c == [pc |-> "writing", epoch |-> epochs[p][k], notify |-> FALSE,
                   phase |-> phase, prs |-> prs \union lifecycles[k].prs,
                   notified |-> lifecycles[k].notified,
                   agents |-> HeldAgents(p, k)]
  <2>1. UNCHANGED <<lifecycles, announced, epochs>> /\ persisting[p][k] = Idle
    BY <1>18 DEF SaveStart, Snapshot
  <2>2. CASE UNCHANGED persisting
    BY <1>q, <2>1, <2>2
  <2>3. CASE epochs[p][k] # 0 /\ lifecycles[k] # NoLifecycle /\ SetPersist(p, k, c)
    <3>1. persisting'[p][k] = c /\ OthersKept(p, k)
      BY <1>17, <2>1, <2>3
    <3> QED
      BY <2>1, <2>3, <3>1 DEF Begins
  <2> QED
    BY <1>18, <2>2, <2>3 DEF SaveStart, Snapshot
<1>w. CASE WakeSave(p, k)
  <2> DEFINE c == [pc |-> "writing", epoch |-> epochs[p][k], notify |-> FALSE,
                   phase |-> "dispatching", prs |-> {} \union lifecycles[k].prs,
                   notified |-> lifecycles[k].notified,
                   agents |-> HeldAgents(p, k)]
  <2>1. UNCHANGED <<lifecycles, announced, epochs>> /\ persisting[p][k] = Idle
    BY <1>w DEF WakeSave
  <2>2. CASE UNCHANGED persisting
    BY <1>q, <2>1, <2>2 DEF Kind
  <2>3. CASE epochs[p][k] # 0 /\ lifecycles[k] # NoLifecycle /\ SetPersist(p, k, c)
    <3>1. persisting'[p][k] = c /\ OthersKept(p, k)
      BY <1>17, <2>1, <2>3
    <3>2. Begins(p, k)
      BY <2>1, <2>3, <3>1 DEF Begins, Phase
    <3> QED
      BY <3>2 DEF Kind
  <2> QED
    BY <1>w, <2>2, <2>3 DEF WakeSave, Snapshot
<1>19. CASE NotifyStart(p, k)
  <2> DEFINE c == [pc |-> "writing", epoch |-> epochs[p][k], notify |-> TRUE,
                   phase |-> lifecycles[k].phase, prs |-> lifecycles[k].prs,
                   notified |-> TRUE, agents |-> lifecycles[k].agents]
  <2>1. UNCHANGED <<lifecycles, announced, epochs>> /\ persisting[p][k] = Idle
    BY <1>19 DEF NotifyStart
  <2>2. CASE UNCHANGED persisting
    BY <1>q, <2>1, <2>2 DEF Kind
  <2>3. CASE /\ epochs[p][k] # 0 /\ lifecycles[k] # NoLifecycle
             /\ ~lifecycles[k].notified /\ SetPersist(p, k, c)
    <3>1. persisting'[p][k] = c /\ OthersKept(p, k)
      BY <1>17, <2>1, <2>3
    <3>2. lifecycles[k].notified = FALSE
      BY <2>3, <1>t DEF Row, Lifecycle
    <3>3. Begins(p, k)
      BY <2>1, <2>3, <3>1, <3>2 DEF Begins
    <3> QED
      BY <3>3 DEF Kind
  <2> QED
    BY <1>19, <2>2, <2>3 DEF NotifyStart
<1>20. CASE SaveAccepted(p, k)
  <2> DEFINE l == lifecycles[k]
             c == persisting[p][k]
  <2>1. lifecycles'[k] = [l EXCEPT !.phase = c.phase, !.prs = c.prs,
                            !.notified = c.notified, !.agents = c.agents]
    BY <1>20, LifecycleHere DEF SaveAccepted
  <2>2. persisting'[p][k] = (IF c.phase = "terminal"
                             THEN [c EXCEPT !.pc = "closing"] ELSE Idle)
        /\ epochs'[p][k] = epochs[p][k] /\ OthersKept(p, k)
    BY <1>17, <1>20 DEF SaveAccepted
  <2>3. announced'[k] = IF c.notify THEN announced[k] + 1 ELSE announced[k]
    BY <1>20 DEF SaveAccepted, TypeOK
  <2>4. c.pc = "writing" /\ \E lag \in Lag : Fenced(l, p, c.epoch, lag)
    BY <1>20 DEF SaveAccepted
  <2>5. Saves(p, k)
    BY <2>1, <2>2, <2>3, <2>4 DEF Saves
  <2> QED
    BY <2>5 DEF Kind
<1>21. ASSUME SetPersist(p, k, Idle), SetEpoch(p, k, 0), UNCHANGED <<lifecycles, announced>>
       PROVE  Keeps(k)
  <2>1. \A q \in Proc : CacheQuiet(q, k)
    BY <1>21, PersistHere, PersistElsewhere, EpochHere, EpochElsewhere DEF CacheQuiet, CacheKept
  <2> QED
    BY <1>21, <2>1 DEF Keeps, SameButLease
<1>22. CASE SaveRefused(p, k)
  BY <1>21, <1>22 DEF SaveRefused, Kind
<1>23. CASE SaveClosed(p, k)
  BY <1>21, <1>23 DEF SaveClosed, Kind
<1> QED
  BY <1>1, <1>3, <1>4, <1>5, <1>7, <1>8, <1>12, <1>13, <1>14, <1>15, <1>16, <1>18,
     <1>w, <1>19, <1>20, <1>22, <1>23 DEF ProcessStep, DriveStep, Kind

(* A step moves one work unit at most.                                     *)
LEMMA OneKeyMoves ==
    TypeOK /\ [Next]_vars =>
      \/ \A k \in Key : Keeps(k)
      \/ \E k \in Key : Kind(k) /\ \A j \in Key \ {k} : Keeps(j)
<1> SUFFICES ASSUME TypeOK, [Next]_vars
             PROVE  \/ \A k \in Key : Keeps(k)
                    \/ \E k \in Key : Kind(k) /\ \A j \in Key \ {k} : Keeps(j)
  OBVIOUS
<1>q. ASSUME UNCHANGED <<lifecycles, announced, epochs, persisting>>, NEW k \in Key
      PROVE  Keeps(k)
  BY <1>q DEF Keeps, SameButLease, CacheQuiet, CacheKept
<1>1. CASE UNCHANGED vars
  BY <1>1, <1>q DEF vars
<1>2. ASSUME Tick, NEW k \in Key PROVE Keeps(k)
  <2>1. UNCHANGED <<announced, epochs, persisting>>
    BY <1>2 DEF Tick, local
  <2>2. SameButLease(lifecycles[k], lifecycles'[k])
    <3>1. lifecycles[k] \in Row
      BY RowAt
    <3>2. ASSUME lifecycles[k] # NoLifecycle, lifecycles[k].ttl > -MaxLag
          PROVE  lifecycles[k].ttl - 1 \in Ttl
      BY <3>1, <3>2, SizesAssumption DEF Row, Lifecycle, Ttl, Relinquished
    <3> QED
      BY <1>2, <3>1, <3>2 DEF Tick, SameButLease, Row
  <2> QED
    BY <2>1, <2>2 DEF Keeps, CacheQuiet, CacheKept
<1>3. ASSUME NEW p \in Proc, ReleaseOwned(p), UNCHANGED <<announced, persisting>>,
             NEW k \in Key
      PROVE  Keeps(k)
  <2>1. lifecycles[k] \in Row /\ Relinquished \in Ttl
    BY RowAt, SizesAssumption DEF Ttl, Relinquished
  <2>2. SameButLease(lifecycles[k], lifecycles'[k])
    BY <1>3, <2>1 DEF ReleaseOwned, SameButLease, Row
  <2>3. \A q \in Proc : epochs'[q][k] = epochs[q][k] \/ epochs'[q][k] = 0
    BY <1>3 DEF ReleaseOwned, TypeOK
  <2> QED
    BY <1>3, <2>2, <2>3 DEF Keeps, CacheQuiet, CacheKept
<1>4. ASSUME NEW p \in Proc, Start(p) \/ Stop(p), NEW k \in Key PROVE Keeps(k)
  BY <1>4, <1>q DEF Start, Stop
<1>5. ASSUME NEW p \in Proc, StopSweep(p) \/ StopFinal(p), NEW k \in Key PROVE Keeps(k)
  BY <1>3, <1>5 DEF StopSweep, StopFinal
<1>6. ASSUME NEW p \in Proc, Crash(p), NEW k \in Key PROVE Keeps(k)
  <2>1. \A q \in Proc : CacheQuiet(q, k)
    BY <1>6 DEF Crash, TypeOK, CacheQuiet, CacheKept
  <2> QED
    BY <1>6, <2>1 DEF Crash, Keeps, SameButLease
<1>7. ASSUME NEW p \in Proc, NEW k \in Key, ProcessStep(p, k)
      PROVE  Kind(k) /\ \A j \in Key \ {k} : Keeps(j)
  BY <1>7, OtherKeys, OwnKey
<1> QED
  BY <1>1, <1>2, <1>4, <1>5, <1>6, <1>7 DEF Next

LEMMA StepKinds == TypeOK /\ [Next]_vars => \A k \in Key : Kind(k)
BY OneKeyMoves DEF Kind

-----------------------------------------------------------------------------
(* The invariant *)

(* The invariant, for one work unit and one process.                       *)
Sound(p, k) ==
    LET l == lifecycles[k]
        c == persisting[p][k] IN
    /\ epochs[p][k] <= Epoch(l)
    /\ Saving(p, k) => c.epoch <= Epoch(l)
    /\ SavesOwnTerm(p, k) =>
         /\ ~Terminal(l)
         /\ l.prs \subseteq c.prs
         /\ c.notify => ~l.notified /\ c.notified /\ c.prs = l.prs /\ c.phase # "terminal"
         /\ ~c.notify => c.notified = l.notified
    /\ (Terminal(l) /\ l.owner = p /\ l.epoch = epochs[p][k]) => c.pc = "closing"

Counted(k) ==
    announced[k] = IF lifecycles[k] # NoLifecycle /\ lifecycles[k].notified
                   THEN 1 ELSE 0

LEMMA InvByKey ==
    SavesCurrentOrFenced <=>
        \A k \in Key : Counted(k) /\ \A p \in Proc : Sound(p, k)
BY DEF SavesCurrentOrFenced, EpochsBehind, SnapshotCurrent, TerminalClosing,
       NoticesCounted, Sound, Counted

LEMMA InvByKeyNext ==
    (\A k \in Key : Counted(k)' /\ \A p \in Proc : Sound(p, k)')
    => SavesCurrentOrFenced'
BY DEF SavesCurrentOrFenced, EpochsBehind, SnapshotCurrent, TerminalClosing,
       NoticesCounted, Sound, Counted

LEMMA InvInit == Init => SavesCurrentOrFenced
BY DEF Init, SavesCurrentOrFenced, EpochsBehind, SnapshotCurrent, TerminalClosing,
       NoticesCounted, Epoch, Saving, SavesOwnTerm, Terminal, NoLifecycle, Idle

(* The types of what one work unit and one process relate.                 *)
LEMMA PartTypes ==
    ASSUME TypeOK, NEW p \in Proc, NEW k \in Key
    PROVE  /\ lifecycles[k] \in Row
           /\ epochs[p][k] \in Nat
           /\ persisting[p][k] \in Persist \union {Idle}
           /\ announced[k] \in Nat
BY RowAt DEF TypeOK

(* What only the lease of a row, or only caches, change keeps it sound.    *)
LEMMA KeepsCounted ==
    ASSUME TypeOK, NEW k \in Key, Keeps(k), Counted(k)
    PROVE  Counted(k)'
<1>1. lifecycles[k] \in Row
  BY RowAt
<1>2. /\ lifecycles'[k] = NoLifecycle <=> lifecycles[k] = NoLifecycle
      /\ lifecycles[k] # NoLifecycle => lifecycles'[k].notified = lifecycles[k].notified
  BY <1>1 DEF Keeps, SameButLease, Lifecycle, NoLifecycle, Phase, Row
<1> QED
  BY <1>2 DEF Counted, Keeps

LEMMA KeepsSound ==
    ASSUME TypeOK, NEW p \in Proc, NEW k \in Key, Keeps(k), Counted(k), Sound(p, k)
    PROVE  Counted(k)' /\ Sound(p, k)'
<1> DEFINE l == lifecycles[k]
           m == lifecycles'[k]
<1>1. /\ (m = NoLifecycle <=> l = NoLifecycle)
      /\ m.phase = l.phase
      /\ l # NoLifecycle => /\ m.owner = l.owner
                            /\ m.epoch = l.epoch
                            /\ m.prs = l.prs
                            /\ m.notified = l.notified
  BY PartTypes DEF Keeps, SameButLease, Lifecycle, NoLifecycle, Phase, Row
<1>2. l # NoLifecycle \/ (m = l /\ Epoch(l) = 0)
  BY <1>1 DEF Epoch
<1>3. Counted(k)'
  BY <1>1 DEF Counted, Keeps
<1>4. Epoch(m) = Epoch(l) /\ Epoch(l) \in Nat
  BY <1>1, PartTypes DEF Epoch, Row, Lifecycle
<1>5. /\ epochs'[p][k] = epochs[p][k] \/ epochs'[p][k] = 0
      /\ persisting'[p][k] = persisting[p][k] \/ (persisting'[p][k] = Idle /\ epochs'[p][k] = 0)
  BY DEF Keeps, CacheQuiet, CacheKept
<1>6. Saving(p, k)' => Saving(p, k) /\ persisting'[p][k] = persisting[p][k]
  BY <1>5 DEF Saving, Idle
<1>7. epochs'[p][k] <= Epoch(m)
  BY <1>4, <1>5, PartTypes DEF Sound
<1>8. Saving(p, k)' => persisting'[p][k].epoch <= Epoch(m)
  BY <1>4, <1>6 DEF Sound
<1>9. SavesOwnTerm(p, k)' => SavesOwnTerm(p, k) /\ l # NoLifecycle
  <2>1. Saving(p, k) => l # NoLifecycle
    <3>1. Saving(p, k) => persisting[p][k].epoch \in Nat \ {0}
      BY PartTypes DEF Saving, Persist, Idle
    <3> QED
      BY <3>1 DEF Sound, Epoch
  <2> QED
    BY <1>1, <1>6, <2>1 DEF SavesOwnTerm
<1>10. Terminal(m) => l # NoLifecycle /\ Terminal(l)
  BY <1>1 DEF Terminal, NoLifecycle
<1>11. Terminal(m) /\ m.owner = p /\ m.epoch = epochs'[p][k] => persisting'[p][k].pc = "closing"
  <2>1. l # NoLifecycle => l.epoch # 0
    BY PartTypes DEF Row, Lifecycle
  <2> QED
    BY <1>1, <1>5, <1>10, <2>1 DEF Sound
<1>12. SavesOwnTerm(p, k)' =>
         /\ ~Terminal(m)
         /\ m.prs \subseteq persisting'[p][k].prs
         /\ persisting'[p][k].notify =>
              ~m.notified /\ persisting'[p][k].notified
              /\ persisting'[p][k].prs = m.prs /\ persisting'[p][k].phase # "terminal"
         /\ ~persisting'[p][k].notify => persisting'[p][k].notified = m.notified
  <2> SUFFICES ASSUME SavesOwnTerm(p, k)' PROVE
         /\ ~Terminal(m)
         /\ m.prs \subseteq persisting'[p][k].prs
         /\ persisting'[p][k].notify =>
              ~m.notified /\ persisting'[p][k].notified
              /\ persisting'[p][k].prs = m.prs /\ persisting'[p][k].phase # "terminal"
         /\ ~persisting'[p][k].notify => persisting'[p][k].notified = m.notified
    OBVIOUS
  <2>1. persisting'[p][k] = persisting[p][k]
    BY <1>6 DEF SavesOwnTerm
  <2> QED
    BY <1>1, <1>9, <1>10, <2>1 DEF Sound
<1> QED
  BY <1>3, <1>7, <1>8, <1>11, <1>12 DEF Sound

(* A process whose cache is kept stays sound while the row is its own and  *)
(* keeps what it records, and once the row is in another process's term.   *)
LEMMA KeptSound ==
    ASSUME TypeOK, NEW q \in Proc, NEW k \in Key, Sound(q, k), CacheKept(q, k),
           lifecycles[k] # NoLifecycle, lifecycles'[k] \in Lifecycle,
           lifecycles[k].epoch <= lifecycles'[k].epoch,
           ~Terminal(lifecycles'[k]) \/ lifecycles'[k].owner # q,
           \/ lifecycles'[k].owner # q
           \/ lifecycles'[k].epoch > lifecycles[k].epoch
           \/ /\ lifecycles'[k].owner = lifecycles[k].owner
              /\ lifecycles'[k].prs = lifecycles[k].prs
              /\ lifecycles'[k].notified = lifecycles[k].notified
    PROVE  Sound(q, k)'
<1> DEFINE l == lifecycles[k]
           m == lifecycles'[k]
           c == persisting[q][k]
<1>1. l \in Lifecycle /\ m # NoLifecycle
  BY PartTypes DEF Row, NoLifecycle, Lifecycle, Phase
<1>2. l.epoch \in Nat /\ m.epoch \in Nat /\ Epoch(l) = l.epoch /\ Epoch(m) = m.epoch
  BY <1>1 DEF Lifecycle, Epoch
<1>3. epochs'[q][k] = epochs[q][k] /\ persisting'[q][k] = c
  BY DEF CacheKept
<1>4. epochs'[q][k] <= Epoch(m)
  BY <1>2, <1>3, PartTypes DEF Sound
<1>5. Saving(q, k) => c.epoch \in Nat
  BY PartTypes DEF Saving, Persist, Idle
<1>6. Saving(q, k)' => persisting'[q][k].epoch <= Epoch(m)
  BY <1>2, <1>3, <1>5 DEF Sound, Saving
<1>7. ASSUME SavesOwnTerm(q, k)'
      PROVE  SavesOwnTerm(q, k) /\ m.prs = l.prs /\ m.notified = l.notified /\ ~Terminal(m)
  <2>1. Saving(q, k) /\ m.owner = q /\ m.epoch = c.epoch
    BY <1>3, <1>7 DEF SavesOwnTerm, Saving
  <2>2. c.epoch <= l.epoch
    BY <1>2, <2>1 DEF Sound
  <2>3. m.epoch = l.epoch
    BY <1>2, <1>5, <2>1, <2>2
  <2>4. m.owner = l.owner /\ m.prs = l.prs /\ m.notified = l.notified
    BY <1>2, <2>1, <2>3
  <2> QED
    BY <2>1, <2>3, <2>4 DEF SavesOwnTerm
<1> QED
  BY <1>3, <1>4, <1>6, <1>7 DEF Sound

LEMMA ClaimsSound ==
    ASSUME TypeOK, NEW p \in Proc, NEW k \in Key, Claims(p, k),
           Counted(k), \A q \in Proc : Sound(q, k)
    PROVE  Counted(k)' /\ \A q \in Proc : Sound(q, k)'
<1> DEFINE l == lifecycles[k]
           m == lifecycles'[k]
<1>1. PICK lag \in Lag : Claimable(l, p, lag) /\ m = ClaimedBy(l, p, lag)
  BY DEF Claims
<1>2. l \in Lifecycle /\ ~Terminal(l)
  BY <1>1, PartTypes DEF Claimable, Row
<1>3. m \in Lifecycle /\ m # NoLifecycle /\ l # NoLifecycle
  <2>1. m \in Lifecycle
    BY <1>1, <1>2, RowTypes
  <2> QED
    BY <1>2, <2>1 DEF NoLifecycle, Lifecycle, Phase
<1>4. /\ m.owner = p /\ m.epoch = ClaimEpoch(l, p)
      /\ m.phase = l.phase /\ m.prs = l.prs /\ m.notified = l.notified
  BY <1>1, <1>2 DEF ClaimedBy, Lifecycle
<1>5. l.epoch \in Nat /\ l.epoch <= m.epoch /\ (l.owner # p => m.epoch > l.epoch)
  BY <1>2, <1>4 DEF ClaimEpoch, Lifecycle
<1>6. Counted(k)'
  BY <1>3, <1>4 DEF Counted, Claims
<1>7. ~Terminal(m)
  BY <1>2, <1>4 DEF Terminal
<1>8. ASSUME NEW q \in Proc, q # p PROVE Sound(q, k)'
  BY <1>3, <1>4, <1>5, <1>7, <1>8, KeptSound DEF Claims, OthersKept
<1>9. Sound(p, k)'
  <2>1. epochs'[p][k] = m.epoch /\ persisting'[p][k] = persisting[p][k]
    BY <1>4 DEF Claims
  <2>2. epochs'[p][k] <= Epoch(m) /\ Epoch(m) = m.epoch /\ Epoch(l) = l.epoch
    BY <1>3, <2>1 DEF Epoch, Lifecycle
  <2>3. Saving(p, k) => persisting[p][k].epoch \in Nat
    BY PartTypes DEF Saving, Persist, Idle
  <2>4. m.epoch \in Nat
    BY <1>3 DEF Lifecycle
  <2>5. Saving(p, k)' => persisting'[p][k].epoch <= Epoch(m)
    BY <1>5, <2>1, <2>2, <2>3, <2>4 DEF Sound, Saving
  <2>6. SavesOwnTerm(p, k)' => SavesOwnTerm(p, k)
    <3>1. SavesOwnTerm(p, k)' => Saving(p, k) /\ m.epoch = persisting[p][k].epoch
      BY <2>1 DEF SavesOwnTerm, Saving
    <3>2. Saving(p, k) => persisting[p][k].epoch <= l.epoch
      BY <2>2 DEF Sound
    <3>3. SavesOwnTerm(p, k)' => l.owner = p
      BY <1>5, <2>3, <2>4, <3>1, <3>2
    <3>4. l.owner = p => m.epoch = l.epoch
      BY <1>4 DEF ClaimEpoch
    <3> QED
      BY <3>1, <3>3, <3>4 DEF SavesOwnTerm
  <2> QED
    BY <1>4, <1>7, <2>1, <2>2, <2>5, <2>6 DEF Sound
<1> QED
  BY <1>6, <1>8, <1>9

LEMMA PromotesSound ==
    ASSUME TypeOK, NEW k \in Key, Promotes(k),
           Counted(k), \A q \in Proc : Sound(q, k)
    PROVE  Counted(k)' /\ \A q \in Proc : Sound(q, k)'
<1> DEFINE l == lifecycles[k]
           m == lifecycles'[k]
<1>1. l \in Lifecycle /\ m \in Lifecycle
  <2>1. l.phase \in Phase /\ m = [l EXCEPT !.phase = "dispatching"]
    BY DEF Promotes, Phase
  <2>2. l \in Row
    BY RowAt
  <2>3. l \in Lifecycle /\ [l EXCEPT !.phase = "dispatching"] \in Lifecycle
    BY <2>1, <2>2, RowPhase
  <2> QED
    BY <2>1, <2>3
<1>2. l # NoLifecycle /\ m # NoLifecycle
  BY <1>1 DEF NoLifecycle, Lifecycle, Phase
<1>3. /\ m.phase = "dispatching" /\ m.owner = l.owner /\ m.epoch = l.epoch
      /\ m.prs = l.prs /\ m.notified = l.notified
  BY <1>1 DEF Promotes, Lifecycle
<1>4. Counted(k)'
  BY <1>2, <1>3 DEF Counted, Promotes
<1>5. ~Terminal(m) /\ l.epoch <= m.epoch
  BY <1>1, <1>3 DEF Terminal, Lifecycle
<1>6. ASSUME NEW q \in Proc PROVE Sound(q, k)'
  BY <1>1, <1>2, <1>3, <1>5, KeptSound DEF Promotes
<1> QED
  BY <1>4, <1>6

LEMMA OpensSound ==
    ASSUME TypeOK, NEW p \in Proc, NEW k \in Key, Opens(p, k),
           Counted(k), \A q \in Proc : Sound(q, k)
    PROVE  Counted(k)' /\ \A q \in Proc : Sound(q, k)'
<1> DEFINE m == lifecycles'[k]
<1>1. m # NoLifecycle /\ Epoch(m) = 1 /\ ~Terminal(m)
  BY DEF Opens, NoLifecycle, Lifecycle, Phase, Epoch, Terminal
<1>2. Counted(k)'
  BY <1>1 DEF Opens, Counted
<1>3. ASSUME NEW q \in Proc PROVE Sound(q, k)'
  <2>1. Epoch(lifecycles[k]) = 0
    BY DEF Opens, Epoch
  <2>2. ~Saving(q, k)
    <3>1. Saving(q, k) => persisting[q][k].epoch \in Nat \ {0}
      BY PartTypes DEF Saving, Persist, Idle
    <3> QED
      BY <2>1, <3>1 DEF Sound
  <2>3. persisting'[q][k] = persisting[q][k]
    BY DEF Opens, OthersKept, CacheKept
  <2>4. ~Saving(q, k)'
    BY <2>2, <2>3 DEF Saving
  <2>5. epochs'[q][k] <= 1
    <3>1. epochs[q][k] <= 0 /\ epochs[q][k] \in Nat
      BY <2>1, PartTypes DEF Sound
    <3>2. epochs'[q][k] = 1 \/ epochs'[q][k] = epochs[q][k]
      BY DEF Opens, OthersKept, CacheKept
    <3> QED
      BY <3>1, <3>2
  <2> QED
    BY <1>1, <2>4, <2>5 DEF Sound, SavesOwnTerm
<1> QED
  BY <1>2, <1>3

LEMMA BeginsSound ==
    ASSUME TypeOK, NEW p \in Proc, NEW k \in Key, Begins(p, k),
           Counted(k), \A q \in Proc : Sound(q, k)
    PROVE  Counted(k)' /\ \A q \in Proc : Sound(q, k)'
<1> DEFINE l == lifecycles[k]
           c == persisting'[p][k]
<1>1. lifecycles'[k] = l /\ l \in Lifecycle /\ l # NoLifecycle
  BY PartTypes DEF Begins, Row
<1>2. Counted(k)'
  BY <1>1 DEF Counted, Begins
<1>3. ASSUME NEW q \in Proc, q # p PROVE Sound(q, k)'
  <2>1. CacheKept(q, k)
    BY <1>3 DEF Begins, OthersKept
  <2> QED
    BY <1>1, <2>1 DEF CacheKept, Sound, SavesOwnTerm, Saving
<1>4. Sound(p, k)'
  <2>1. c.pc = "writing" /\ c.epoch = epochs[p][k] /\ epochs'[p][k] = epochs[p][k]
    BY DEF Begins
  <2>2. epochs[p][k] <= Epoch(l)
    BY DEF Sound
  <2>3. (l.owner = p /\ l.epoch = epochs[p][k]) => ~Terminal(l)
    BY DEF Sound, Begins, Idle
  <2>4. SavesOwnTerm(p, k)' => l.owner = p /\ l.epoch = epochs[p][k]
    BY <1>1, <2>1 DEF SavesOwnTerm
  <2>5. /\ l.prs \subseteq c.prs
        /\ \/ c.notify = FALSE /\ c.notified = l.notified
           \/ /\ c.notify = TRUE /\ c.notified = TRUE /\ c.phase = l.phase
              /\ c.prs = l.prs /\ l.notified = FALSE
    BY DEF Begins
  <2>6. ~Terminal(l) => l.phase # "terminal"
    BY DEF Terminal
  <2> QED
    BY <1>1, <2>1, <2>2, <2>3, <2>4, <2>5, <2>6 DEF Sound
<1> QED
  BY <1>2, <1>3, <1>4

LEMMA SavesSound ==
    ASSUME TypeOK, NEW p \in Proc, NEW k \in Key, Saves(p, k),
           Counted(k), \A q \in Proc : Sound(q, k)
    PROVE  Counted(k)' /\ \A q \in Proc : Sound(q, k)'
<1> DEFINE l == lifecycles[k]
           m == lifecycles'[k]
           c == persisting[p][k]
<1>1. l # NoLifecycle /\ l.owner = p /\ l.epoch = c.epoch /\ c.pc = "writing"
  BY DEF Saves, Fenced
<1>2. l \in Lifecycle /\ c \in Persist
  BY <1>1, PartTypes DEF Row, Idle
<1>3. m = [l EXCEPT !.phase = c.phase, !.prs = c.prs,
             !.notified = c.notified, !.agents = c.agents]
  BY DEF Saves
<1>4. /\ m \in Lifecycle /\ m # NoLifecycle
      /\ m.owner = p /\ m.epoch = l.epoch /\ m.phase = c.phase
      /\ m.notified = c.notified /\ m.prs = c.prs
  BY <1>1, <1>2, <1>3 DEF Lifecycle, Persist, NoLifecycle, Phase
<1>5. SavesOwnTerm(p, k)
  BY <1>1 DEF SavesOwnTerm, Saving
<1>6. Counted(k)'
  <2>1. CASE c.notify
    BY <1>1, <1>4, <1>5, <2>1 DEF Sound, Counted, Saves
  <2>2. CASE ~c.notify
    BY <1>1, <1>4, <1>5, <2>2 DEF Sound, Counted, Saves
  <2> QED
    BY <2>1, <2>2
<1>7. ASSUME NEW q \in Proc, q # p PROVE Sound(q, k)'
  <2>1. CacheKept(q, k) /\ l.epoch <= m.epoch
    BY <1>2, <1>4, <1>7 DEF Saves, OthersKept, Lifecycle
  <2> QED
    BY <1>1, <1>4, <1>7, <2>1, KeptSound
<1>8. Sound(p, k)'
  <2>1. /\ epochs'[p][k] = epochs[p][k]
        /\ persisting'[p][k].pc = "closing" <=> Terminal(m)
        /\ persisting'[p][k].pc # "writing"
    BY <1>2, <1>4 DEF Saves, Persist, Terminal, Idle
  <2>2. Epoch(m) = Epoch(l)
    BY <1>1, <1>4 DEF Epoch
  <2>3. ~Saving(p, k)'
    BY <2>1 DEF Saving
  <2> QED
    BY <2>1, <2>2, <2>3 DEF Sound, SavesOwnTerm
<1> QED
  BY <1>6, <1>7, <1>8

LEMMA InvStep == TypeOK /\ SavesCurrentOrFenced /\ [Next]_vars => SavesCurrentOrFenced'
<1> SUFFICES ASSUME TypeOK, SavesCurrentOrFenced, [Next]_vars, NEW k \in Key
             PROVE  Counted(k)' /\ \A q \in Proc : Sound(q, k)'
  BY InvByKeyNext
<1>1. Counted(k) /\ \A q \in Proc : Sound(q, k)
  BY InvByKey
<1>2. Kind(k)
  BY StepKinds
<1>3. CASE Keeps(k)
  BY <1>1, <1>3, KeepsCounted, KeepsSound
<1> QED
  BY <1>1, <1>2, <1>3, PromotesSound, BeginsSound, OpensSound, ClaimsSound,
     SavesSound DEF Kind

(* A save under way was read from the row it would replace, or the fence   *)
(* refuses it, in every reachable state.                                   *)
THEOREM SavesSafe == Spec => []SavesCurrentOrFenced
<1>1. TypeOK /\ SavesCurrentOrFenced /\ [Next]_vars => SavesCurrentOrFenced'
  BY InvStep
<1> QED
  BY InvInit, <1>1, TypeCorrect, PTL DEF Spec

(* The ticket notification is granted at most once, over every process,    *)
(* takeover and restart.                                                   *)
THEOREM NotifiedOnce == Spec => []NotifyAtMostOnce
<1>1. SavesCurrentOrFenced => NotifyAtMostOnce
  BY DEF SavesCurrentOrFenced, NoticesCounted, NotifyAtMostOnce
<1> QED
  BY <1>1, SavesSafe, PTL

(* A receipt that a row has recorded is never dropped.                     *)
THEOREM ReceiptsKept == Spec => PullRequestsNeverLost
<1>1. ASSUME TypeOK, SavesCurrentOrFenced, [Next]_vars, NEW k \in Key,
             lifecycles[k] # NoLifecycle
      PROVE  /\ lifecycles'[k] # NoLifecycle
             /\ lifecycles[k].prs \subseteq lifecycles'[k].prs
  <2> DEFINE l == lifecycles[k]
             m == lifecycles'[k]
  <2>1. l \in Lifecycle
    BY <1>1, PartTypes, RowAt DEF Row
  <2>2. CASE Keeps(k)
    <3>1. m = l \/ \E t \in Ttl : m = [l EXCEPT !.ttl = t]
      BY <2>2 DEF Keeps, SameButLease
    <3>2. m \in Lifecycle /\ m.prs = l.prs
      BY <2>1, <3>1 DEF Lifecycle
    <3> QED
      BY <3>2 DEF Lifecycle, NoLifecycle, Phase
  <2>3. CASE Promotes(k)
    BY <2>1, <2>3 DEF Promotes, Lifecycle, NoLifecycle, Phase
  <2>4. ASSUME NEW p \in Proc, Begins(p, k) \/ Opens(p, k) PROVE l.prs \subseteq m.prs /\ m # NoLifecycle
    BY <1>1, <2>4 DEF Begins, Opens
  <2>5. ASSUME NEW p \in Proc, Claims(p, k) PROVE l.prs \subseteq m.prs /\ m # NoLifecycle
    <3>1. PICK lag \in Lag : m = ClaimedBy(l, p, lag)
      BY <2>5 DEF Claims
    <3>2. m \in Lifecycle
      BY <2>1, <3>1, RowTypes
    <3>3. m.prs = l.prs
      BY <2>1, <3>1 DEF ClaimedBy, Lifecycle
    <3> QED
      BY <3>2, <3>3 DEF Lifecycle, NoLifecycle, Phase
  <2>6. ASSUME NEW p \in Proc, Saves(p, k) PROVE l.prs \subseteq m.prs /\ m # NoLifecycle
    <3> DEFINE c == persisting[p][k]
    <3>1. SavesOwnTerm(p, k)
      BY <2>6 DEF Saves, Fenced, SavesOwnTerm, Saving
    <3>2. l.prs \subseteq c.prs
      BY <1>1, <3>1, InvByKey DEF Sound
    <3>3. m = [l EXCEPT !.phase = c.phase, !.prs = c.prs,
                 !.notified = c.notified, !.agents = c.agents]
      BY <2>6 DEF Saves
    <3> QED
      BY <2>1, <3>2, <3>3 DEF Lifecycle, NoLifecycle, Phase
  <2> QED
    BY <1>1, <2>2, <2>3, <2>4, <2>5, <2>6, StepKinds DEF Kind
<1>2. TypeOK /\ SavesCurrentOrFenced /\ [Next]_vars =>
        [\A k \in Key : lifecycles[k] # NoLifecycle =>
           /\ lifecycles'[k] # NoLifecycle
           /\ lifecycles[k].prs \subseteq lifecycles'[k].prs]_vars
  BY <1>1
<1> QED
  BY <1>2, TypeCorrect, SavesSafe, PTL DEF Spec, PullRequestsNeverLost

(* A finished row stays as it was, but for its lease.                      *)
THEOREM FinishedForGood == Spec => TerminalIsFinal
<1>1. ASSUME TypeOK, SavesCurrentOrFenced, [Next]_vars, NEW k \in Key,
             Terminal(lifecycles[k])
      PROVE  lifecycles'[k] = [lifecycles[k] EXCEPT !.ttl = lifecycles'[k].ttl]
  <2> DEFINE l == lifecycles[k]
             m == lifecycles'[k]
  <2>1. l \in Lifecycle
    BY <1>1, RowAt DEF Row, Terminal, NoLifecycle
  <2>2. CASE m = l
    BY <2>1, <2>2 DEF Lifecycle
  <2>3. CASE \E t \in Ttl : m = [l EXCEPT !.ttl = t]
    BY <2>1, <2>3 DEF Lifecycle
  <2>4. Keeps(k) => m = l \/ \E t \in Ttl : m = [l EXCEPT !.ttl = t]
    BY DEF Keeps, SameButLease
  <2>5. ~Promotes(k)
    BY <1>1 DEF Promotes, Terminal
  <2>6. ASSUME NEW p \in Proc PROVE /\ ~Opens(p, k)
                                    /\ ~Claims(p, k)
                                    /\ Begins(p, k) => m = l
    BY <1>1, <2>1 DEF Opens, Claims, Claimable, Begins, Terminal, NoLifecycle
  <2>7. ASSUME NEW p \in Proc PROVE ~Saves(p, k)
    <3>1. Saves(p, k) => SavesOwnTerm(p, k)
      BY DEF Saves, Fenced, SavesOwnTerm, Saving
    <3> QED
      BY <1>1, <3>1, InvByKey DEF Sound
  <2> QED
    BY <1>1, <2>2, <2>3, <2>4, <2>5, <2>6, <2>7, StepKinds DEF Kind
<1>2. TypeOK /\ SavesCurrentOrFenced /\ [Next]_vars =>
        [\A k \in Key : Terminal(lifecycles[k]) =>
           lifecycles'[k] = [lifecycles[k] EXCEPT !.ttl = lifecycles'[k].ttl]]_vars
  BY <1>1
<1> QED
  BY <1>2, TypeCorrect, SavesSafe, PTL DEF Spec, TerminalIsFinal

-----------------------------------------------------------------------------
(* Shutdown *)

(* Only a live process makes a row its own; the answer to a renewal that a *)
(* stopped process had sent extends a lease that is still alive.           *)
LEMMA RowWriter ==
    ASSUME TypeOK, NEW q \in Proc, NEW k \in Key, ProcessStep(q, k)
    PROVE  \/ lifecycles'[k] = lifecycles[k]
           \/ lifecycles'[k].ttl = Relinquished
           \/ lifecycles'[k].owner = q /\ Up(q)
           \/ \E lag \in Lag : /\ lifecycles[k].owner = q /\ lifecycles'[k].owner = q
                               /\ lifecycles[k] # NoLifecycle
                               /\ Live(lifecycles[k], lag)
<1> DEFINE l == lifecycles[k]
           m == lifecycles'[k]
<1>t. l \in Row
  BY RowAt
<1>1. CASE UNCHANGED lifecycles
  BY <1>1
<1>2. ASSUME NEW lag \in Lag, Claimable(l, q, lag), Up(q),
             SetLifecycle(k, ClaimedBy(l, q, lag))
      PROVE  m.owner = q /\ Up(q)
  <2>1. l \in Lifecycle
    BY <1>2, <1>t DEF Claimable, Row
  <2> QED
    BY <1>2, <2>1, LifecycleHere DEF ClaimedBy, Lifecycle
<1>3. CASE Adopt(q, k)
  BY <1>2, <1>3 DEF Adopt
<1>4. CASE DriveClaim(q, k)
  BY <1>2, <1>4 DEF DriveClaim, TryLater
<1>5. CASE Wake(q, k)
  <2>1. Up(q)
    BY <1>5 DEF Wake, Up
  <2> QED
    BY <1>2, <1>5, <2>1 DEF Wake
<1>6. ASSUME NEW lag \in Lag, NEW e, Fenced(l, q, e, lag),
             NEW n, SetLifecycle(k, n), n.owner = l.owner
      PROVE  l.owner = q /\ m.owner = q /\ l # NoLifecycle /\ Live(l, lag)
  BY <1>6, LifecycleHere DEF Fenced
<1>o. l # NoLifecycle =>
        /\ \A lag \in Lag : RenewedBy(l, lag).owner = l.owner
        /\ [l EXCEPT !.phase = "dispatching"].owner = l.owner
  BY <1>t DEF RenewedBy, Row, Lifecycle
<1>f. ASSUME NEW lag, NEW e, Fenced(l, q, e, lag) PROVE l # NoLifecycle
  BY <1>f DEF Fenced
<1>7. ASSUME NEW prs \in SUBSET Repo, Dispatch(q, k, prs) PROVE m.owner = q /\ Up(q)
  <2>1. PICK phase, ttl :
          SetLifecycle(k, [phase |-> phase, owner |-> q, epoch |-> 1, ttl |-> ttl,
                           prs |-> prs, notified |-> FALSE, agents |-> {}])
    BY <1>7 DEF Dispatch
  <2> QED
    BY <1>7, <2>1, LifecycleHere DEF Dispatch, Up
<1>8. CASE DriveQueued(q, k) \/ WakePromote(q, k)
  <2>1. UNCHANGED lifecycles
        \/ \E lag \in Lag : /\ Fenced(l, q, epochs[q][k], lag)
                            /\ SetLifecycle(k, [l EXCEPT !.phase = "dispatching"])
    BY <1>8 DEF DriveQueued, TryLater, WakePromote, Promotable
  <2> QED
    BY <1>1, <1>6, <1>o, <1>f, <2>1
<1>9. CASE DriveOwned(q, k)
  <2>1. UNCHANGED lifecycles
        \/ \E lag \in Lag : /\ Fenced(l, q, epochs[q][k], lag)
                            /\ SetLifecycle(k, RenewedBy(l, lag))
    BY <1>9 DEF DriveOwned
  <2> QED
    BY <1>1, <1>6, <1>o, <1>f, <2>1
<1>10. CASE RenewReceived(q, k)
  <2>1. UNCHANGED lifecycles
        \/ \E lag \in Lag : /\ Fenced(l, q, renewing[q][k], lag)
                            /\ SetLifecycle(k, RenewedBy(l, lag))
    BY <1>10 DEF RenewReceived
  <2> QED
    BY <1>1, <1>6, <1>o, <1>f, <2>1
<1>11. CASE SaveAccepted(q, k)
  <2> DEFINE c == persisting[q][k]
  <2>1. PICK lag \in Lag : Fenced(l, q, c.epoch, lag)
    BY <1>11 DEF SaveAccepted
  <2>2. SetLifecycle(k, [l EXCEPT !.phase = c.phase, !.prs = c.prs,
                           !.notified = c.notified, !.agents = c.agents])
    BY <1>11 DEF SaveAccepted
  <2>3. l \in Lifecycle
    BY <1>f, <1>t, <2>1 DEF Row
  <2>4. [l EXCEPT !.phase = c.phase, !.prs = c.prs, !.notified = c.notified,
                  !.agents = c.agents].owner = l.owner
    BY <2>3 DEF Lifecycle
  <2> HIDE DEF c
  <2> QED
    BY <1>6, <2>1, <2>2, <2>4
<1>12. CASE HandbackReleased(q, k)
  <2>1. m = ReleasedBy(l, q, handback[q][k])
    BY <1>12, LifecycleHere DEF HandbackReleased
  <2> QED
    BY <1>t, <2>1 DEF ReleasedBy, Row, Lifecycle
<1>13. CASE \/ RetryFires(q, k) \/ WakeComplete(q, k) \/ RenewSend(q, k)
            \/ \E a \in Agent : Place(q, k, a)
            \/ \E phase \in Phase, prs \in SUBSET Repo : SaveStart(q, k, phase, prs)
            \/ WakeSave(q, k) \/ NotifyStart(q, k) \/ SaveRefused(q, k) \/ SaveClosed(q, k)
            \/ ReleaseFails(q, k) \/ HandbackStart(q, k)
  BY <1>1, <1>13 DEF RetryFires, WakeSave, WakeComplete, RenewSend, Place, SaveStart, Snapshot, NotifyStart,
     SaveRefused, SaveClosed, ReleaseFails, BudgetSpent, AskHandback, HandbackStart
<1> QED
  BY <1>3, <1>4, <1>5, <1>7, <1>8, <1>9, <1>10, <1>11, <1>12, <1>13
     DEF ProcessStep, DriveStep

(* A lease that was handed back is over on every clock.                    *)
LEMMA RelinquishedDead ==
    ASSUME NEW l, l.ttl = Relinquished, NEW lag \in Lag
    PROVE  ~Live(l, lag)
BY SizesAssumption DEF Relinquished, Live, Lag

(* A process that has stopped leaves no row leased, whatever was in flight *)
(* when it stopped (the second sweep of stop).                             *)
THEOREM StoppedClean == Spec => []StoppedHoldsNothing
<1>1. Init => StoppedHoldsNothing
  BY DEF Init, StoppedHoldsNothing
<1>2. TypeOK /\ TypeOK' /\ StoppedHoldsNothing /\ [Next]_vars => StoppedHoldsNothing'
  <2> SUFFICES ASSUME TypeOK, TypeOK', StoppedHoldsNothing, [Next]_vars,
                      NEW p \in Proc, NEW k \in Key,
                      status'[p] = "stopped", lifecycles'[k] # NoLifecycle,
                      lifecycles'[k].owner = p
               PROVE  lifecycles'[k].ttl = Relinquished
    BY DEF StoppedHoldsNothing
  <2> DEFINE l == lifecycles[k]
             m == lifecycles'[k]
  <2>t. l \in Row /\ m \in Lifecycle
    BY RowAt DEF TypeOK, Row
  <2>1. CASE UNCHANGED <<lifecycles, status>>
    BY <2>1 DEF StoppedHoldsNothing
  <2>2. CASE Tick
    <3>1. status' = status
      BY <2>2 DEF Tick, local
    <3>2. m = l \/ (l # NoLifecycle /\ l.ttl > -MaxLag /\ m = [l EXCEPT !.ttl = @ - 1])
      BY <2>2 DEF Tick
    <3>3. CASE m = l
      BY <3>1, <3>3 DEF StoppedHoldsNothing
    <3>4. CASE l # NoLifecycle /\ l.ttl > -MaxLag /\ m = [l EXCEPT !.ttl = @ - 1]
      <4>1. l \in Lifecycle
        BY <2>t, <3>4 DEF Row
      <4>2. l.owner = p
        BY <3>4, <4>1 DEF Lifecycle
      <4>3. l.ttl = Relinquished
        BY <3>1, <3>4, <4>2 DEF StoppedHoldsNothing
      <4> QED
        BY <3>4, <4>3, SizesAssumption DEF Relinquished
    <3> QED
      BY <3>2, <3>3, <3>4
  <2>3. ASSUME NEW q \in Proc, StopSweep(q) \/ StopFinal(q)
        PROVE  m.ttl = Relinquished
    <3>1. ReleaseOwned(q) /\ \A r \in Proc \ {q} : status'[r] = status[r]
      BY <2>3 DEF StopSweep, StopFinal, TypeOK
    <3>2. m = l \/ m = [l EXCEPT !.ttl = Relinquished]
      BY <3>1 DEF ReleaseOwned
    <3>3. l \in Lifecycle /\ l.owner = p
      BY <2>t, <3>2 DEF Row, Lifecycle, NoLifecycle, Phase
    <3>4. CASE q = p
      BY <3>1, <3>3, <3>4 DEF ReleaseOwned, Lifecycle, NoLifecycle, Phase
    <3>5. CASE q # p
      <4>1. status[p] = "stopped"
        BY <3>1, <3>5
      <4>2. l.ttl = Relinquished
        BY <3>3, <4>1 DEF StoppedHoldsNothing, Lifecycle, NoLifecycle, Phase
      <4> QED
        BY <3>2, <3>3, <4>2 DEF Lifecycle
    <3> QED
      BY <3>4, <3>5
  <2>4. ASSUME NEW q \in Proc, Start(q) \/ Stop(q) \/ Crash(q)
        PROVE  m.ttl = Relinquished
    <3>1. status[p] = "stopped" /\ lifecycles' = lifecycles
      BY <2>4 DEF Start, Stop, Crash, TypeOK
    <3> QED
      BY <3>1 DEF StoppedHoldsNothing
  <2>5. ASSUME NEW q \in Proc, NEW j \in Key, ProcessStep(q, j)
        PROVE  m.ttl = Relinquished
    <3>1. status' = status
      BY <2>5 DEF ProcessStep, DriveStep, Adopt, Dispatch, RetryFires, DriveClaim, TryLater,
         DriveQueued, TryLater, DriveOwned, Wake, WakePromote, WakeSave, WakeComplete, RenewSend,
         RenewReceived, Place, SaveStart, Snapshot, NotifyStart, SaveAccepted, SaveRefused,
         SaveClosed, ReleaseFails, BudgetSpent, AskHandback, HandbackStart, HandbackReleased
    <3>2. CASE m = l
      BY <3>1, <3>2 DEF StoppedHoldsNothing
    <3>3. CASE j # k
      BY <2>5, <3>2, <3>3, OtherRows
    <3>4. CASE j = k /\ m # l
      <4>1. \/ m.ttl = Relinquished
            \/ m.owner = q /\ Up(q)
            \/ \E lag \in Lag : /\ l.owner = q /\ m.owner = q /\ l # NoLifecycle
                                /\ Live(l, lag)
        BY <2>5, <3>4, RowWriter
      <4>2. status[p] = "stopped" /\ ~Up(p)
        BY <3>1 DEF Up
      <4>3. ASSUME NEW lag \in Lag, l.owner = p, l # NoLifecycle, Live(l, lag)
            PROVE  FALSE
        BY <4>2, <4>3, RelinquishedDead DEF StoppedHoldsNothing
      <4> QED
        BY <4>1, <4>2, <4>3
    <3> QED
      BY <3>2, <3>3, <3>4
  <2> QED
    BY <2>1, <2>2, <2>3, <2>4, <2>5 DEF Next, vars
<1> QED
  BY <1>1, <1>2, TypeCorrect, PTL DEF Spec

-----------------------------------------------------------------------------
(* The dispatch lifecycle implements the plain work unit of WorkUnit.      *)

View(l) ==
    IF l = NoLifecycle THEN [finished |-> FALSE]
    ELSE [finished |-> Terminal(l), holder |-> l.owner, term |-> l.epoch,
          prs |-> l.prs, notified |-> l.notified]

LEMMA ViewOfUnits == UnitView = [k \in Key |-> View(lifecycles[k])]
BY DEF UnitView, View

LEMMA ViewOfUnitsNext == UnitView' = [k \in Key |-> View(lifecycles'[k])]
BY DEF UnitView, View, Terminal

LEMMA KeepsView ==
    ASSUME TypeOK, NEW k \in Key, Keeps(k)
    PROVE  View(lifecycles'[k]) = View(lifecycles[k])
<1>1. lifecycles[k] \in Row
  BY RowAt
<1>2. CASE lifecycles'[k] = lifecycles[k]
  BY <1>2
<1>3. ASSUME lifecycles[k] \in Lifecycle, NEW t \in Ttl,
             lifecycles'[k] = [lifecycles[k] EXCEPT !.ttl = t]
      PROVE  View(lifecycles'[k]) = View(lifecycles[k])
  BY <1>3 DEF View, Terminal, Lifecycle, NoLifecycle, Phase
<1> QED
  BY <1>2, <1>3 DEF Keeps, SameButLease

(* When one work unit moves, the view of that one changes.                 *)
LEMMA ViewMoves ==
    ASSUME TypeOK, TypeOK', NEW k \in Key, \A j \in Key \ {k} : Keeps(j)
    PROVE  /\ UnitView' = [UnitView EXCEPT ![k] = View(lifecycles'[k])]
           /\ announced' = [announced EXCEPT ![k] = announced'[k]]
<1>1. \A j \in Key \ {k} : /\ View(lifecycles'[j]) = View(lifecycles[j])
                           /\ announced'[j] = announced[j]
  BY KeepsView DEF Keeps
<1>2. announced \in [Key -> Nat] /\ announced' \in [Key -> Nat]
  BY DEF TypeOK
<1>3. announced' = [announced EXCEPT ![k] = announced'[k]]
  BY <1>1, <1>2
<1>4. UnitView' = [UnitView EXCEPT ![k] = View(lifecycles'[k])]
  BY <1>1, ViewOfUnits, ViewOfUnitsNext
<1> QED
  BY <1>3, <1>4

LEMMA RefineInit == Init => Units!Init
BY DEF Init, Units!Init, Units!Unopened, UnitView

LEMMA RefineStep ==
    TypeOK /\ TypeOK' /\ SavesCurrentOrFenced /\ [Next]_vars => [Units!Next]_(Units!vars)
<1> SUFFICES ASSUME TypeOK, TypeOK', SavesCurrentOrFenced, [Next]_vars
             PROVE  Units!Next \/ (UnitView' = UnitView /\ announced' = announced)
  BY DEF Units!vars
<1>1. CASE \A k \in Key : Keeps(k)
  <2>1. UnitView' = UnitView
    BY <1>1, KeepsView, ViewOfUnits, ViewOfUnitsNext
  <2>2. announced' = announced
    <3>1. announced \in [Key -> Nat] /\ announced' \in [Key -> Nat]
      BY DEF TypeOK
    <3>2. \A k \in Key : announced'[k] = announced[k]
      BY <1>1 DEF Keeps
    <3> QED
      BY <3>1, <3>2
  <2> QED
    BY <2>1, <2>2
<1>2. ASSUME NEW k \in Key, Kind(k), \A j \in Key \ {k} : Keeps(j)
      PROVE  Units!Next \/ (UnitView' = UnitView /\ announced' = announced)
  <2> DEFINE l == lifecycles[k]
             m == lifecycles'[k]
  <2>1. /\ UnitView' = [UnitView EXCEPT ![k] = View(m)]
        /\ announced' = [announced EXCEPT ![k] = announced'[k]]
    BY <1>2, ViewMoves
  <2>2. UnitView[k] = View(l) /\ announced[k] \in Nat
    BY ViewOfUnits DEF TypeOK
  <2>3. l \in Row
    BY RowAt
  <2>q. ASSUME View(m) = View(l), announced'[k] = announced[k]
        PROVE  UnitView' = UnitView /\ announced' = announced
    <3>1. announced \in [Key -> Nat]
      BY DEF TypeOK
    <3>2. UnitView = [j \in Key |-> View(lifecycles[j])]
      BY ViewOfUnits
    <3>3. UnitView' = UnitView
      BY <2>1, <2>2, <2>q, <3>2
    <3> QED
      BY <2>1, <2>q, <3>1, <3>3
  <2>n. ASSUME announced'[k] = announced[k] PROVE announced' = announced
    BY <2>1, <2>n DEF TypeOK
  <2>4. CASE Keeps(k)
    BY <2>4, <2>q, KeepsView DEF Keeps
  <2>5. CASE Promotes(k)
    <3>1. l \in Lifecycle
      BY <2>3, <2>5 DEF Promotes, Row, NoLifecycle
    <3>2. View(m) = View(l)
      BY <2>5, <3>1 DEF Promotes, View, Terminal, Lifecycle, NoLifecycle, Phase
    <3> QED
      BY <2>5, <2>q, <3>2 DEF Promotes
  <2>6. ASSUME NEW p \in Proc, Begins(p, k)
        PROVE  UnitView' = UnitView /\ announced' = announced
    BY <2>6, <2>q DEF Begins
  <2>7. ASSUME NEW p \in Proc, Opens(p, k) PROVE Units!Open(k)
    <3>1. View(l) = [finished |-> FALSE]
      BY <2>7 DEF Opens, View
    <3>2. m \in Lifecycle /\ m # NoLifecycle
      BY <2>7 DEF Opens, NoLifecycle, Lifecycle, Phase
    <3>3. View(m) = [finished |-> FALSE, holder |-> p, term |-> 1,
                     prs |-> m.prs, notified |-> FALSE]
      BY <2>7, <3>2 DEF Opens, View, Terminal
    <3>4. m.prs \in SUBSET Repo
      BY <3>2 DEF Lifecycle
    <3>5. announced' = announced
      BY <2>7, <2>n DEF Opens
    <3> QED
      BY <2>1, <2>2, <3>1, <3>3, <3>4, <3>5 DEF Units!Open, Units!Unopened, Units!Becomes, Units!Held
  <2>8. ASSUME NEW p \in Proc, Claims(p, k)
        PROVE  Units!TakeOver(k) \/ (UnitView' = UnitView /\ announced' = announced)
    <3>1. PICK lag \in Lag : Claimable(l, p, lag) /\ m = ClaimedBy(l, p, lag)
      BY <2>8 DEF Claims
    <3>2. l \in Lifecycle /\ ~Terminal(l) /\ l # NoLifecycle
      BY <2>3, <3>1 DEF Claimable, Row
    <3>3. m \in Lifecycle
      BY <3>1, <3>2, RowTypes
    <3>4. /\ m # NoLifecycle /\ ~Terminal(m)
          /\ m.owner = p /\ m.epoch = ClaimEpoch(l, p)
          /\ m.prs = l.prs /\ m.notified = l.notified
      BY <3>1, <3>2, <3>3 DEF ClaimedBy, Lifecycle, NoLifecycle, Phase, Terminal
    <3>5. View(l) = [finished |-> FALSE, holder |-> l.owner, term |-> l.epoch,
                     prs |-> l.prs, notified |-> l.notified]
      <4>1. Terminal(l) = FALSE
        BY <3>2 DEF Terminal
      <4> QED
        BY <3>2, <4>1 DEF View
    <3>6. View(m) = [finished |-> FALSE, holder |-> p, term |-> ClaimEpoch(l, p),
                     prs |-> l.prs, notified |-> l.notified]
      <4>1. Terminal(m) = FALSE
        BY <3>4 DEF Terminal
      <4> QED
        BY <3>4, <4>1 DEF View
    <3>7. announced' = announced
      BY <2>8, <2>n DEF Claims
    <3>8. CASE l.owner = p
      BY <2>8, <2>q, <3>5, <3>6, <3>8 DEF ClaimEpoch, Claims
    <3>9. CASE l.owner # p
      <4>1. Units!Unfinished(k)
        BY <2>2, <3>5 DEF Units!Unfinished, Units!Unopened
      <4>2. View(m) = Units!Held(FALSE, p, UnitView[k].term + 1,
                                 UnitView[k].prs, UnitView[k].notified)
        BY <2>2, <3>5, <3>6, <3>9 DEF ClaimEpoch, Units!Held
      <4>3. p \in Proc \ {UnitView[k].holder}
        BY <2>2, <3>5, <3>9
      <4> QED
        BY <2>1, <3>7, <4>1, <4>2, <4>3 DEF Units!TakeOver, Units!Becomes
    <3> QED
      BY <3>8, <3>9
  <2>9. ASSUME NEW p \in Proc, Saves(p, k) PROVE Units!Announce(k) \/ Units!Progress(k)
    <3> DEFINE c == persisting[p][k]
    <3>1. SavesOwnTerm(p, k) /\ l # NoLifecycle /\ c.pc = "writing"
      BY <2>9 DEF Saves, Fenced, SavesOwnTerm, Saving
    <3>2. l \in Lifecycle /\ c \in Persist
      BY <2>3, <3>1, PartTypes DEF Row, Idle
    <3>3. /\ ~Terminal(l)
          /\ l.prs \subseteq c.prs
          /\ c.notify => ~l.notified /\ c.notified /\ c.prs = l.prs /\ c.phase # "terminal"
          /\ ~c.notify => c.notified = l.notified
      BY <3>1, InvByKey DEF Sound
    <3>4. m = [l EXCEPT !.phase = c.phase, !.prs = c.prs,
                 !.notified = c.notified, !.agents = c.agents]
      BY <2>9 DEF Saves
    <3>5. /\ m # NoLifecycle /\ m.phase = c.phase /\ m.owner = l.owner
          /\ m.epoch = l.epoch /\ m.prs = c.prs /\ m.notified = c.notified
      BY <3>2, <3>4 DEF Lifecycle, Persist, NoLifecycle, Phase
    <3>6. View(l) = [finished |-> FALSE, holder |-> l.owner, term |-> l.epoch,
                     prs |-> l.prs, notified |-> l.notified]
      <4>1. Terminal(l) = FALSE
        BY <3>3 DEF Terminal
      <4> QED
        BY <3>1, <4>1 DEF View
    <3> DEFINE done == c.phase = "terminal"
    <3>7. View(m) = [finished |-> done, holder |-> l.owner,
                     term |-> l.epoch, prs |-> c.prs, notified |-> c.notified]
      <4>1. Terminal(m) = (c.phase = "terminal")
        BY <3>5 DEF Terminal
      <4> QED
        BY <3>5, <4>1 DEF View
    <3>8. Units!Unfinished(k)
      BY <2>2, <3>6 DEF Units!Unfinished, Units!Unopened
    <3>9. c.notify \in BOOLEAN /\ c.notified \in BOOLEAN /\ c.prs \in SUBSET Repo
      BY <3>2 DEF Persist
    <3>10. CASE c.notify
      <4>1. View(m) = Units!Held(FALSE, UnitView[k].holder, UnitView[k].term,
                                 UnitView[k].prs, TRUE)
        <5>1. done = FALSE /\ c.notified = TRUE /\ c.prs = l.prs
          BY <3>3, <3>9, <3>10
        <5>2. /\ UnitView[k].holder = l.owner
              /\ UnitView[k].term = l.epoch
              /\ UnitView[k].prs = l.prs
          BY <2>2, <3>6
        <5> HIDE DEF done
        <5> QED
          BY <3>7, <5>1, <5>2, Zenon DEF Units!Held
      <4>2. announced' = [announced EXCEPT ![k] = @ + 1]
        BY <2>1, <2>9, <3>10 DEF Saves
      <4>3. ~UnitView[k].notified
        BY <2>2, <3>3, <3>6, <3>10
      <4> QED
        BY <2>1, <3>8, <4>1, <4>2, <4>3 DEF Units!Announce, Units!Becomes
    <3>11. CASE ~c.notify
      <4>1. announced' = announced
        BY <2>9, <2>n, <3>11 DEF Saves
      <4>2. l.prs \union c.prs = c.prs
        BY <3>3
      <4>3. View(m) = Units!Held(done, UnitView[k].holder,
                                 UnitView[k].term, UnitView[k].prs \union c.prs,
                                 UnitView[k].notified)
        <5>1. c.notified = l.notified
          BY <3>3, <3>11
        <5>2. /\ UnitView[k].holder = l.owner
              /\ UnitView[k].term = l.epoch
              /\ UnitView[k].prs = l.prs
              /\ UnitView[k].notified = l.notified
          BY <2>2, <3>6
        <5> HIDE DEF done
        <5> QED
          BY <3>7, <4>2, <5>1, <5>2, Zenon DEF Units!Held
      <4> QED
        <5>1. done \in BOOLEAN
          OBVIOUS
        <5> HIDE DEF done
        <5> QED
          BY <2>1, <3>8, <3>9, <4>1, <4>3, <5>1 DEF Units!Progress, Units!Becomes
    <3> QED
      BY <3>10, <3>11
  <2> QED
    BY <1>2, <2>4, <2>5, <2>6, <2>7, <2>8, <2>9 DEF Kind, Units!Next
<1> QED
  BY <1>1, <1>2, OneKeyMoves

(* Every behaviour of the leases, caches and saves is one of a plain work  *)
(* unit.                                                                   *)
THEOREM Refinement == Spec => RefinesWorkUnit
<1>1. TypeOK /\ TypeOK' /\ SavesCurrentOrFenced /\ [Next]_vars => [Units!Next]_(Units!vars)
  BY RefineStep
<1> QED
  BY RefineInit, <1>1, TypeCorrect, SavesSafe, PTL DEF Spec, RefinesWorkUnit, Units!Spec
=============================================================================
