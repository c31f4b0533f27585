--------------------------- MODULE MCCoreLiveness ---------------------------
(***************************************************************************)
(* Liveness of the dispatch lifecycle and of the discovery sweep on small  *)
(* instances for TLC. The components share no state, and each has parts of *)
(* its own: "part" is the one that a behaviour is about, the others stay   *)
(* in an initial state.                                                    *)
(***************************************************************************)
EXTENDS Naturals

CONSTANTS Parts,  \* the parts to check
          p1, p2, a1, k1, k2

VARIABLE part

VARIABLES lifecycles, epochs, inFlight, retryTimers, drives, persisting, renewing, handback,
          attempts, abandoned, status, parked, announced
VARIABLES store, calls, stage, sweeps, claimed, outcome, leaseLost, renewTimer, alive

Queue ==
    INSTANCE DispatchLifecycle WITH
      Repo <- {}, BatchSize <- 1, MaxLag <- 0, Unreleasable <- {}, Hooked <- {}, Asking <- {},
      Blocked <- {k2}, Proc <- {p1}, Key <- {k1, k2}, Agent <- {}, LeaseTerm <- 1,
      MaxAttempts <- 0, MaxEpoch <- 2, Reliable <- {p1}
Letter ==
    INSTANCE DispatchLifecycle WITH
      Repo <- {}, BatchSize <- 1, MaxLag <- 0, Unreleasable <- {k1}, Hooked <- {},
      Asking <- {k1}, Blocked <- {}, Proc <- {p1}, Key <- {k1}, Agent <- {a1}, LeaseTerm <- 2,
      MaxAttempts <- 1, MaxEpoch <- 2, Reliable <- {p1}
Takeover ==
    INSTANCE DispatchLifecycle WITH
      Repo <- {}, BatchSize <- 1, MaxLag <- 0, Unreleasable <- {}, Hooked <- {}, Asking <- {},
      Blocked <- {}, Proc <- {p1, p2}, Key <- {k1}, Agent <- {}, LeaseTerm <- 1,
      MaxAttempts <- 0, MaxEpoch <- 2, Reliable <- {p1}
Sweep ==
    INSTANCE DiscoverySweep WITH
      Proc <- {p1}, LeaseTerm <- 1, MaxLag <- 0, MaxBackoff <- 1, MaxOverloads <- 1,
      MaxEpoch <- 3, MaxCalls <- 2, StoreFails <- FALSE
Answers ==
    INSTANCE DiscoverySweep WITH
      Proc <- {p1, p2}, LeaseTerm <- 1, MaxLag <- 0, MaxBackoff <- 1, MaxOverloads <- 0,
      MaxEpoch <- 2, MaxCalls <- 1, StoreFails <- FALSE

rowVars == <<lifecycles, epochs, inFlight, retryTimers, drives, persisting, renewing, handback, attempts,
    abandoned, status, parked, announced>>
sweepVars == <<store, calls, stage, sweeps, claimed, outcome, leaseLost, renewTimer, alive>>

vars ==
    <<part, rowVars, sweepVars>>

Init ==
    /\ part \in Parts
    /\ IF part = "queue" THEN Queue!Init ELSE IF part = "letter" THEN Letter!Init ELSE
       Takeover!Init
    /\ IF part = "sweep" THEN Sweep!Init ELSE Answers!Init

Next ==
    \/ /\ part = "queue" /\ Queue!Next
       /\ UNCHANGED <<part, sweepVars>>
    \/ /\ part = "letter" /\ Letter!Next
       /\ UNCHANGED <<part, sweepVars>>
    \/ /\ part = "takeover" /\ Takeover!Next
       /\ UNCHANGED <<part, sweepVars>>
    \/ /\ part = "sweep" /\ Sweep!Next
       /\ UNCHANGED <<part, rowVars>>
    \/ /\ part = "answers" /\ Answers!Next
       /\ UNCHANGED <<part, rowVars>>

Spec == Init /\ [][Next]_vars

(* What the code and its scheduling justify, for each part: Timers fire    *)
(* and awaited calls of a live process finish; nobody has to dispatch, to  *)
(* wake, to stop or to crash. The timers of a live process fire; the store *)
(* may hang for ever, or answers.                                          *)
Fairness ==
    /\ WF_rowVars(part = "queue" /\ Queue!Tick)
    /\ \A p \in {p1} : WF_rowVars(part = "queue" /\ (Queue!StopSweep(p) \/ Queue!StopFinal(p)))
    /\ \A p \in {p1}, k \in {k1, k2} :
         /\ WF_rowVars(part = "queue" /\ Queue!Adopt(p, k))
         /\ WF_rowVars(part = "queue" /\ Queue!RetryFires(p, k))
         /\ WF_rowVars(part = "queue" /\ (Queue!DriveClaim(p, k) \/ Queue!DriveQueued(p, k)
                                        \/ Queue!DriveOwned(p, k) \/ Queue!WakePromote(p, k)
                                        \/ Queue!WakeSave(p, k) \/ Queue!WakeComplete(p, k)))
         /\ SF_rowVars(part = "queue" /\ Queue!RenewSend(p, k))
         /\ WF_rowVars(part = "queue" /\ Queue!RenewReceived(p, k))
         /\ WF_rowVars(part = "queue" /\ (Queue!SaveAccepted(p, k) \/ Queue!SaveRefused(p, k)
                                        \/ Queue!SaveClosed(p, k)))
         /\ WF_rowVars(part = "queue" /\ Queue!ReleasePass(p, k))
         /\ WF_rowVars(part = "queue" /\ (Queue!HandbackStart(p, k)
                                        \/ Queue!HandbackReleased(p, k)))
    /\ WF_rowVars(part = "letter" /\ Letter!Tick)
    /\ \A p \in {p1} : WF_rowVars(part = "letter" /\ (Letter!StopSweep(p)
                                                    \/ Letter!StopFinal(p)))
    /\ \A p \in {p1}, k \in {k1} :
         /\ WF_rowVars(part = "letter" /\ Letter!Adopt(p, k))
         /\ WF_rowVars(part = "letter" /\ Letter!RetryFires(p, k))
         /\ WF_rowVars(part = "letter" /\ (Letter!DriveClaim(p, k) \/ Letter!DriveQueued(p, k)
                                         \/ Letter!DriveOwned(p, k) \/ Letter!WakePromote(p, k)
                                         \/ Letter!WakeSave(p, k) \/ Letter!WakeComplete(p, k)))
         /\ WF_rowVars(part = "letter" /\ Letter!RenewSend(p, k))
         /\ WF_rowVars(part = "letter" /\ Letter!RenewReceived(p, k))
         /\ WF_rowVars(part = "letter" /\ (Letter!SaveAccepted(p, k) \/ Letter!SaveRefused(p, k)
                                         \/ Letter!SaveClosed(p, k)))
         /\ WF_rowVars(part = "letter" /\ Letter!ReleasePass(p, k))
         /\ WF_rowVars(part = "letter" /\ (Letter!HandbackStart(p, k)
                                         \/ Letter!HandbackReleased(p, k)))
    /\ WF_rowVars(part = "takeover" /\ Takeover!Tick)
    /\ \A p \in {p1, p2} : WF_rowVars(part = "takeover" /\ (Takeover!StopSweep(p)
                                                          \/ Takeover!StopFinal(p)))
    /\ \A p \in {p1, p2}, k \in {k1} :
         /\ WF_rowVars(part = "takeover" /\ Takeover!Adopt(p, k))
         /\ WF_rowVars(part = "takeover" /\ Takeover!RetryFires(p, k))
         /\ WF_rowVars(part = "takeover" /\ (Takeover!DriveClaim(p, k)
                                           \/ Takeover!DriveQueued(p, k)
                                           \/ Takeover!DriveOwned(p, k)
                                           \/ Takeover!WakePromote(p, k)
                                           \/ Takeover!WakeSave(p, k)
                                           \/ Takeover!WakeComplete(p, k)))
         /\ WF_rowVars(part = "takeover" /\ Takeover!RenewSend(p, k))
         /\ WF_rowVars(part = "takeover" /\ Takeover!RenewReceived(p, k))
         /\ WF_rowVars(part = "takeover" /\ (Takeover!SaveAccepted(p, k)
                                           \/ Takeover!SaveRefused(p, k)
                                           \/ Takeover!SaveClosed(p, k)))
         /\ WF_rowVars(part = "takeover" /\ Takeover!ReleasePass(p, k))
         /\ WF_rowVars(part = "takeover" /\ (Takeover!HandbackStart(p, k)
                                           \/ Takeover!HandbackReleased(p, k)))
    /\ \A p \in {p1} : WF_sweepVars(part = "sweep" /\ Sweep!Deadline(p))
    /\ \A p \in {p1, p2} : WF_sweepVars(part = "answers" /\ Answers!Deadline(p))
    /\ \A p \in {p1, p2} : WF_sweepVars(part = "answers" /\ Answers!Serve(p))
    /\ \A p \in {p1, p2} : WF_sweepVars(part = "answers" /\ Answers!Answer(p))

LiveSpec == Spec /\ Fairness

-----------------------------------------------------------------------------
(* A queued work unit beside a free slot; a row that a process is to       *)
(* release; a row whose owner has died; a sweep that is under way; a lease *)
(* granted to a process whose sweep has given up.                          *)
Stays ==
    CASE part = "queue" -> /\ lifecycles[k1].phase = "queued" /\ ~Queue!BatchFull(k1)
                           /\ Queue!Live(lifecycles[k1], 0)
      [] part = "letter" -> epochs[p1][k1] # 0 /\ lifecycles[k1].phase = "releasing"
      [] part = "takeover" -> Takeover!Orphaned(k1)
      [] part = "sweep" -> stage[p1] # "idle"
      [] part = "answers" -> /\ p1 \in alive /\ store.lease.owner = p1
                             /\ sweeps[p1] # store.lease.epoch

(* The process tries to promote it; it has given up the cleanup; it waits  *)
(* for the row.                                                            *)
Due ==
    CASE part = "queue" -> k1 \in retryTimers[p1] /\ lifecycles[k1].phase = "queued"
      [] part = "letter" -> k1 \in abandoned[p1] /\ epochs[p1][k1] # 0
      [] part = "takeover" -> k1 \in retryTimers[p1] /\ epochs[p1][k1] = 0 /\ Stays
      [] OTHER -> Stays

(* Nothing that is due stays as it is, whatever drives, renewals and       *)
(* lapses came between: a queued work unit is promoted when a slot is      *)
(* free, one whose cleanup was given up does not stay with its process,    *)
(* one whose owner died is taken over by a process that waits for it, a    *)
(* sweep ends although the store may never answer again, and a lease       *)
(* granted to a process whose sweep had given up is given back if the      *)
(* store does answer.                                                      *)
NothingDueStays == Due ~> []<>(~Stays)

=============================================================================
