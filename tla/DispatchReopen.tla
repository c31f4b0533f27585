----------------------------- MODULE DispatchReopen -----------------------------
(***************************************************************************)
(* What refuses an issue another dispatch, and what takes the refusal back *)
(* when somebody reopens it.  Three durable records say that an issue is   *)
(* finished: the canonical role in which it was last seen, its attempts,   *)
(* and the row of its dispatch.  A completion writes them one after the    *)
(* other, other processes observe the issue meanwhile, and each of them    *)
(* may run at any process.                                                 *)
(*                                                                         *)
(* A process observes the issue on its own mount, which lags by at most    *)
(* one change.  Run 0 stands for no run.                                   *)
(***************************************************************************)
EXTENDS Naturals

CONSTANTS Proc,        \* processes that share the state store
          None,        \* nobody
          Overlaps,    \* observations overlap each other and the end of a completion
          MaxRuns,     \* dispatch runs, each with a row of its own
          MaxAttempts, \* attempts after which an issue is given up
          MaxHuman,    \* bound on what people do to the issue
          MaxFailures, \* bound on dispatches that fail
          MaxCrashes   \* bound on processes that die

VARIABLES surface, stale, canon, attempts, row, observer, owner, runs, people, failures,
          crashes

reopenVars == <<surface, stale, canon, attempts, row, observer, owner, runs, people,
                failures, crashes>>

Role == {"ready", "progress", "done", "parked"}
NoRow == [run |-> 0, phase |-> "none", owner |-> None, epoch |-> 0, valid |-> FALSE]
Idle == [at |-> "idle", role |-> "ready", found |-> NoRow]
Unowned == [at |-> "none", run |-> 0, epoch |-> 0, marked |-> FALSE]
Resumed == {"dispatching", "retryable", "running", "writeback", "releasing", "abandoning"}
Terminal == {"complete", "abandoned"}
Row == [run : 0..MaxRuns, phase : {"none"} \cup Resumed \cup Terminal, owner : Proc \cup {None},
        epoch : Nat, valid : BOOLEAN]

TypeOK ==
    /\ surface \in Role /\ stale \in [Proc -> Role] /\ canon \in {"", "ready", "done"}
    /\ attempts \in [count : Nat, inFlight : BOOLEAN, terminal : BOOLEAN]
    /\ row \in Row
    /\ observer \in [Proc -> [at : {"idle", "wait", "attempts", "list", "clear", "stale",
                                    "swap", "canon", "block", "claim"},
                              role : Role, found : Row]]
    /\ owner \in [Proc -> [at : {"none", "attempt", "dispatch", "spawned", "claimed", "running",
                                 "role", "write", "release", "terminal", "complete", "recheck",
                                 "clearAttempts", "clearRow", "abandoning", "abandoned", "latch"},
                           run : 0..MaxRuns, epoch : Nat, marked : BOOLEAN]]
    /\ runs \in 0..MaxRuns /\ people \in 0..MaxHuman /\ failures \in 0..MaxFailures
    /\ crashes \in 0..MaxCrashes

ReopenInit ==
    /\ surface = "ready" /\ stale = [p \in Proc |-> "ready"] /\ canon = ""
    /\ attempts = [count |-> 0, inFlight |-> FALSE, terminal |-> FALSE]
    /\ row = NoRow /\ observer = [p \in Proc |-> Idle] /\ owner = [p \in Proc |-> Unowned]
    /\ runs = 0 /\ people = 0 /\ failures = 0 /\ crashes = 0

Budgets == UNCHANGED <<runs, people, failures, crashes>>
Issue == UNCHANGED <<surface, stale>>

\* The issue changes, and the mounts show it as it was.
Becomes(role) == surface' = role /\ stale' = [p \in Proc |-> surface]

\* What a mount shows now, or before its next synchronisation.
Seen(p) == {surface, stale[p]}

-----------------------------------------------------------------------------
(* Observations *)

Observes(p, s) == observer[p].at = s
Looks(p, s) == observer' = [observer EXCEPT ![p].at = s]
Gone(p) == observer' = [observer EXCEPT ![p] = Idle]

Cleanup == {"role", "write", "release", "terminal", "complete", "recheck", "clearAttempts",
            "clearRow"}

\* No observation has read the canonical role that it will overwrite.
Recorded == \A p \in Proc : observer[p].at \in {"idle", "block", "claim"}

\* recordCanonicalIssueState: which repair the observation calls for.
Observe(p) ==
    /\ Observes(p, "idle")
    /\ Overlaps \/ (Recorded /\ \A q \in Proc : owner[q].at # "recheck")
    /\ \E role \in Seen(p) :
         observer' = [observer EXCEPT ![p] =
                        [Idle EXCEPT !.role = role,
                                     !.at = IF role # "ready" THEN "canon"
                                            ELSE IF canon = "done" THEN "wait" ELSE "stale"]]
    /\ UNCHANGED <<surface, stale, canon, attempts, row, owner>> /\ Budgets

\* waitForReopenCompletion: its own completion, or a row in cleanup.
Pending(p) == owner[p].at \in Cleanup \/ row.phase \in {"writeback", "releasing"}

WaitOver(p) ==
    /\ Observes(p, "wait")
    /\ IF Pending(p) THEN Gone(p) ELSE Looks(p, "attempts")
    /\ UNCHANGED <<surface, stale, canon, attempts, row, owner>> /\ Budgets

Forgiven == [attempts EXCEPT !.count = 0, !.inFlight = FALSE, !.terminal = FALSE]

\* clearTerminalRefusals: the attempts, then the rows it listed, whatever they
\* have become.
ClearAttempts(p) ==
    /\ Observes(p, "attempts") /\ Looks(p, "list")
    /\ attempts' = IF attempts.terminal THEN Forgiven ELSE attempts
    /\ UNCHANGED <<surface, stale, canon, row, owner>> /\ Budgets

ListRows(p) ==
    /\ Observes(p, "list")
    /\ Looks(p, IF row.phase \in Terminal THEN "clear" ELSE "canon")
    /\ UNCHANGED <<surface, stale, canon, attempts, row, owner>> /\ Budgets

ClearRow(p) ==
    /\ Observes(p, "clear") /\ Looks(p, "canon") /\ row' = NoRow
    /\ UNCHANGED <<surface, stale, canon, attempts, owner>> /\ Budgets

\* An abandoned row that nothing has touched for the length of a lease.
Settled == row.phase = "abandoned" /\ \A p \in Proc : owner[p].run # row.run

\* reconcileStaleAbandonedLifecycle: a settled row that nobody will finish.
Stale(p) ==
    /\ Observes(p, "stale")
    /\ IF owner[p].at = "none" /\ Settled /\ ~attempts.terminal
         THEN observer' = [observer EXCEPT ![p].at = "swap", ![p].found = row]
         ELSE Looks(p, "canon")
    /\ UNCHANGED <<surface, stale, canon, attempts, row, owner>> /\ Budgets

SameLease(found) == row.owner = found.owner /\ row.epoch = found.epoch /\ row.run = found.run

Swap(p) ==
    /\ Observes(p, "swap") /\ Looks(p, "canon")
    /\ row' = IF SameLease(observer[p].found) THEN NoRow ELSE row
    /\ UNCHANGED <<surface, stale, canon, attempts, owner>> /\ Budgets

\* A role in between is not remembered.
Canon(p) ==
    /\ Observes(p, "canon")
    /\ canon' = IF observer[p].role \in {"ready", "done"} THEN observer[p].role ELSE canon
    /\ IF observer[p].role = "ready" THEN Looks(p, "block") ELSE Gone(p)
    /\ UNCHANGED <<surface, stale, attempts, row, owner>> /\ Budgets

\* dispatchBlockReason.
Block(p) ==
    /\ Observes(p, "block")
    /\ IF attempts.terminal \/ attempts.inFlight \/ attempts.count >= MaxAttempts
         THEN Gone(p) ELSE Looks(p, "claim")
    /\ attempts' = IF ~attempts.inFlight /\ attempts.count >= MaxAttempts
                     THEN [attempts EXCEPT !.terminal = TRUE] ELSE attempts
    /\ UNCHANGED <<surface, stale, canon, row, owner>> /\ Budgets

\* The issue is read once more, and its row claimed unless there is one.
Claim(p) ==
    /\ Observes(p, "claim") /\ Gone(p)
    /\ \E role \in Seen(p) :
         IF role = "ready" /\ row.phase = "none" /\ owner[p].at = "none" /\ runs < MaxRuns
           THEN /\ runs' = runs + 1
                /\ row' = [run |-> runs + 1, phase |-> "dispatching", owner |-> p, epoch |-> 1,
                           valid |-> TRUE]
                /\ owner' = [owner EXCEPT ![p] = [Unowned EXCEPT !.at = "attempt",
                                                      !.run = runs + 1, !.epoch = 1]]
           ELSE UNCHANGED <<runs, row, owner>>
    /\ UNCHANGED <<surface, stale, canon, attempts, people, failures, crashes>>

Observation(p) == Observe(p) \/ WaitOver(p) \/ ClearAttempts(p) \/ ListRows(p)
                    \/ ClearRow(p) \/ Stale(p) \/ Swap(p) \/ Canon(p) \/ Block(p)
                    \/ Claim(p)

-----------------------------------------------------------------------------
(* The run of an owner *)

Owns(p, s) == owner[p].at = s
Fenced(p) == row.run = owner[p].run /\ row.owner = p /\ row.epoch = owner[p].epoch /\ row.valid

\* A save that finds the row in other hands ends the run at this process.
Saves(p, phase, s) ==
    IF Fenced(p) THEN row' = [row EXCEPT !.phase = phase, !.valid = phase \notin Terminal]
                      /\ owner' = [owner EXCEPT ![p].at = s]
                 ELSE row' = row /\ owner' = [owner EXCEPT ![p] = Unowned]

Attempt(p) ==
    /\ Owns(p, "attempt") /\ owner' = [owner EXCEPT ![p].at = "dispatch"]
    /\ attempts' = [attempts EXCEPT !.count = @ + 1, !.inFlight = TRUE]
    /\ UNCHANGED <<surface, stale, canon, row, observer>> /\ Budgets

Dispatch(p) ==
    /\ Owns(p, "dispatch") /\ Saves(p, "dispatching", "spawned")
    /\ UNCHANGED <<surface, stale, canon, attempts, observer>> /\ Budgets

\* Its agents are spawned, and the issue is read again before it is claimed.
Spawn(p) ==
    /\ Owns(p, "spawned")
    /\ \E role \in Seen(p) :
         IF role = "ready"
           THEN /\ owner' = [owner EXCEPT ![p].at = "claimed"]
                /\ IF surface = "ready" THEN Becomes("progress") ELSE Issue
           ELSE owner' = [owner EXCEPT ![p].at = "abandoning"] /\ Issue
    /\ UNCHANGED <<canon, attempts, row, observer>> /\ Budgets

Proceed(p) ==
    /\ Owns(p, "claimed") /\ Saves(p, "running", "running")
    /\ UNCHANGED <<surface, stale, canon, attempts, observer>> /\ Budgets

\* The issue has moved under the dispatch, whose attempt is forgotten.
Abandon(p) ==
    /\ Owns(p, "abandoning") /\ Saves(p, "abandoned", "abandoned")
    /\ UNCHANGED <<surface, stale, canon, attempts, observer>> /\ Budgets

Abandoned(p) ==
    /\ Owns(p, "abandoned") /\ owner' = [owner EXCEPT ![p] = Unowned]
    /\ attempts' = [attempts EXCEPT !.inFlight = FALSE]
    /\ UNCHANGED <<surface, stale, canon, row, observer>> /\ Budgets

\* A dispatch that fails is tried again until its attempts are spent.
Fails(p) ==
    /\ Owns(p, "spawned") /\ failures < MaxFailures /\ failures' = failures + 1
    /\ LET last == attempts.count >= MaxAttempts IN
       /\ attempts' = [attempts EXCEPT !.inFlight = FALSE, !.terminal = @ \/ last]
       /\ Saves(p, IF last THEN "abandoned" ELSE "retryable", IF last THEN "latch" ELSE "attempt")
    /\ UNCHANGED <<surface, stale, canon, observer, runs, people, crashes>>

Latch(p) ==
    /\ Owns(p, "latch") /\ owner' = [owner EXCEPT ![p] = Unowned]
    /\ attempts' = [attempts EXCEPT !.inFlight = FALSE, !.terminal = TRUE]
    /\ UNCHANGED <<surface, stale, canon, row, observer>> /\ Budgets

\* completeIssue: the issue, its role, its row, its attempts, its agents.
Complete(p) ==
    /\ Owns(p, "running") /\ Fenced(p) /\ Becomes("done")
    /\ owner' = [owner EXCEPT ![p].at = "role"]
    /\ UNCHANGED <<canon, attempts, row, observer>> /\ Budgets

Remember(p) ==
    /\ Owns(p, "role") /\ canon' = "done"
    /\ owner' = [owner EXCEPT ![p].at = "write", ![p].marked = TRUE]
    /\ UNCHANGED <<surface, stale, attempts, row, observer>> /\ Budgets

WrittenBack(p) ==
    /\ \/ Owns(p, "write") /\ Saves(p, "writeback", "release")
       \/ Owns(p, "release") /\ Saves(p, "releasing", "terminal")
    /\ UNCHANGED <<surface, stale, canon, attempts, observer>> /\ Budgets

RecordTerminal(p) ==
    /\ Owns(p, "terminal") /\ owner' = [owner EXCEPT ![p].at = "complete"]
    /\ attempts' = [attempts EXCEPT !.inFlight = FALSE, !.terminal = TRUE]
    /\ UNCHANGED <<surface, stale, canon, row, observer>> /\ Budgets

FinishRelease(p) ==
    /\ Owns(p, "complete") /\ Saves(p, "complete", "recheck")
    /\ UNCHANGED <<surface, stale, canon, attempts, observer>> /\ Budgets

\* Mutant of Recheck: a reopen that came too early is not looked for.
RecheckNothing(p) ==
    /\ Owns(p, "recheck") /\ owner' = [owner EXCEPT ![p] = Unowned]
    /\ UNCHANGED <<surface, stale, canon, attempts, row, observer>> /\ Budgets

\* reconcileReopenObservedDuringCompletion, by the process that wrote the role.
Recheck(p) ==
    /\ Owns(p, "recheck") /\ (Overlaps \/ Recorded)
    /\ owner' = [owner EXCEPT ![p] = IF owner[p].marked /\ canon = "ready"
                                       THEN [owner[p] EXCEPT !.at = "clearAttempts"]
                                       ELSE Unowned]
    /\ UNCHANGED <<surface, stale, canon, attempts, row, observer>> /\ Budgets

RecheckClears(p) ==
    /\ \/ /\ Owns(p, "clearAttempts") /\ UNCHANGED row
          /\ attempts' = IF attempts.terminal THEN Forgiven ELSE attempts
          /\ owner' = [owner EXCEPT ![p] = IF row.phase \in Terminal
                                             THEN [owner[p] EXCEPT !.at = "clearRow"] ELSE Unowned]
       \/ /\ Owns(p, "clearRow") /\ row' = NoRow /\ UNCHANGED attempts
          /\ owner' = [owner EXCEPT ![p] = Unowned]
    /\ UNCHANGED <<surface, stale, canon, observer>> /\ Budgets

Running(p) == Attempt(p) \/ Dispatch(p) \/ Spawn(p) \/ Proceed(p) \/ Abandon(p) \/ Abandoned(p)
                \/ Latch(p) \/ Complete(p) \/ Remember(p) \/ WrittenBack(p) \/ RecordTerminal(p)
                \/ FinishRelease(p) \/ Recheck(p) \/ RecheckClears(p)

\* Another process resumes the run where its row says it was.
Takeover(p) ==
    /\ row.phase \in Resumed /\ ~row.valid /\ owner[p].at = "none"
    /\ row' = [row EXCEPT !.owner = p, !.epoch = @ + 1, !.valid = TRUE]
    /\ owner' = [owner EXCEPT ![p] =
                   [at |-> CASE row.phase \in {"dispatching", "retryable"} -> "attempt"
                             [] row.phase \in {"running", "writeback"}     -> "running"
                             [] row.phase = "releasing"                    -> "complete"
                             [] OTHER                                      -> "abandoning",
                    run |-> row.run, epoch |-> row.epoch + 1, marked |-> FALSE]]
    /\ UNCHANGED <<surface, stale, canon, attempts, observer>> /\ Budgets

-----------------------------------------------------------------------------
(* Around the processes *)

Crash(p) ==
    /\ crashes < MaxCrashes /\ crashes' = crashes + 1
    /\ Gone(p) /\ owner' = [owner EXCEPT ![p] = Unowned]
    /\ UNCHANGED <<surface, stale, canon, attempts, row, runs, people, failures>>

\* The lease of a process that has lost the run runs out.
Lapse ==
    /\ row.valid /\ row.owner # None /\ owner[row.owner].run # row.run
    /\ row' = [row EXCEPT !.valid = FALSE]
    /\ UNCHANGED <<surface, stale, canon, attempts, observer, owner>> /\ Budgets

MountSyncs(p) ==
    /\ stale[p] # surface /\ stale' = [stale EXCEPT ![p] = surface]
    /\ UNCHANGED <<surface, canon, attempts, row, observer, owner>> /\ Budgets

\* Somebody reopens the issue, takes it away, or gives it back.
Person ==
    /\ people < MaxHuman /\ people' = people + 1
    /\ \/ surface \in {"done", "parked"} /\ Becomes("ready")
       \/ surface \in {"ready", "progress"} /\ Becomes("parked")
    /\ UNCHANGED <<canon, attempts, row, observer, owner, runs, failures, crashes>>

ReopenNext ==
    \/ Lapse \/ Person
    \/ \E p \in Proc : Observation(p) \/ Running(p) \/ Takeover(p) \/ Fails(p) \/ Crash(p)
                         \/ MountSyncs(p)

\* Sweeps come again, leases run out, and what is under way goes on.
-----------------------------------------------------------------------------
(* Properties *)

(* The automatic repair of abandoned rows never removes the row of a run   *)
(* that goes on: of two processes that repair one row, the second spares   *)
(* what the first has dispatched since.                                    *)
RepairSparesFence ==
    row.phase \in Resumed /\ row'.run # row.run =>
        \E p \in Proc : \/ Observes(p, "clear") /\ ~Observes(p, "clear")'
                        \/ Owns(p, "clearRow") /\ ~Owns(p, "clearRow")'

(* An issue that comes back ready is dispatched again, unless its attempts *)
(* are spent: no record of a finished run refuses it for good.             *)
ReopenHeard ==
    surface # "ready" \/ runs = MaxRuns \/ (attempts.terminal /\ row.phase # "complete")

=============================================================================
