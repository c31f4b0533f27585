----------------------------- MODULE OrphanRecovery -----------------------------
(***************************************************************************)
(* The recovery of a GitHub issue that says it is in progress although     *)
(* nobody works on it any more: its process died, or gave up after the     *)
(* issue had been claimed.  A sweep reads the roster, the dispatch rows,   *)
(* the provider's status and the open pull requests one after the other,   *)
(* adopts an open pull request, and otherwise fences the row, deletes it   *)
(* and makes the issue ready for another dispatch.                         *)
(*                                                                         *)
(* Run r has the worker r.  Worker 0 was started by a version that kept no *)
(* rows.  Sweeps hold a lease of their own and do not overlap.             *)
(***************************************************************************)
EXTENDS Naturals, FiniteSets

CONSTANTS Peer,            \* processes that share the state store
          NoPeer,          \* nobody
          RecoveryRaces,   \* a process recovers its worker while it sweeps
          MaxOrphanRuns,   \* bound on dispatches of the issue
          MaxOrphanExits,  \* bound on workers that exit without a pull request
          MaxOrphanPulls,  \* bound on pull requests
          MaxOrphanFaults  \* bound on calls that fail and processes that die

VARIABLES surface, stale, pull, runRow, online, runner, attempts, sweep, dispatched, exits, pulls,
          orphanFaults

orphanVars == <<surface, stale, pull, runRow, online, runner, attempts, sweep, dispatched, exits,
                pulls, orphanFaults>>

ASSUME OrphanAssumption ==
    /\ NoPeer \notin Peer
    /\ MaxOrphanRuns \in Nat /\ MaxOrphanExits \in Nat /\ MaxOrphanPulls \in Nat
    /\ MaxOrphanFaults \in Nat

NoRow == [run |-> 0, phase |-> "none", owner |-> NoPeer, epoch |-> 0, valid |-> FALSE]
NoWork == [at |-> "none", run |-> 0, epoch |-> 0]
NoSweep == [at |-> "idle", by |-> NoPeer, roster |-> {}, row |-> NoRow, read |-> {},
            status |-> "ready", epoch |-> 0]
EndedPhases == {"complete", "abandoned"}
RunRow == [run : 0..MaxOrphanRuns, phase : {"none", "dispatching", "running"} \cup EndedPhases,
        owner : Peer \cup {NoPeer}, epoch : Nat, valid : BOOLEAN]

OrphanTypes ==
    /\ surface \in {"ready", "progress", "review"} /\ stale \in {"ready", "progress", "review"}
    /\ pull \in {"none", "open", "foreign"} /\ runRow \in RunRow
    /\ online \subseteq 0..MaxOrphanRuns
    /\ runner \in [Peer -> [at : {"none", "attempt", "spawn", "mark", "run", "running", "exiting",
                                 "release", "complete"},
                           run : 0..MaxOrphanRuns, epoch : Nat]]
    /\ attempts \in {"idle", "inFlight", "terminal"}
    /\ sweep \in [at : {"idle", "context", "status", "pull", "adopt", "row", "roster", "fence",
                        "release", "clear", "ready", "attempts"},
                  by : Peer \cup {NoPeer}, roster : SUBSET (0..MaxOrphanRuns), row : RunRow,
                  read : SUBSET {"roster", "rows"}, status : {"ready", "progress", "review"},
                  epoch : Nat]
    /\ dispatched \in 0..MaxOrphanRuns /\ exits \in 0..MaxOrphanExits
    /\ pulls \in 0..MaxOrphanPulls /\ orphanFaults \in 0..MaxOrphanFaults

\* Nobody has dispatched the issue, or an old version's worker has it.
OrphanInit ==
    /\ \/ surface = "ready" /\ online = {}
       \/ surface = "progress" /\ online = {0}
    /\ stale = surface /\ pull = "none" /\ runRow = NoRow
    /\ runner = [p \in Peer |-> NoWork] /\ attempts = "idle" /\ sweep = NoSweep
    /\ dispatched = 0 /\ exits = 0 /\ pulls = 0 /\ orphanFaults = 0

Budgets == UNCHANGED <<dispatched, exits, pulls, orphanFaults>>
Becomes(status) == surface' = status /\ stale' = surface
Issue == UNCHANGED <<surface, stale, pull>>
Fault == /\ orphanFaults < MaxOrphanFaults /\ orphanFaults' = orphanFaults + 1
         /\ UNCHANGED <<dispatched, exits, pulls>>

-----------------------------------------------------------------------------
(* Dispatches *)

IsAt(p, s) == runner[p].at = s
MovesOn(p, s) == runner' = [runner EXCEPT ![p].at = s]
Leaves(p) == runner' = [runner EXCEPT ![p] = NoWork]
Fenced(p) == /\ runRow.run = runner[p].run /\ runRow.owner = p
             /\ runRow.epoch = runner[p].epoch /\ runRow.valid

\* Who takes the row starts a new epoch of it, unless the last was its own.
NextEpoch(p) == IF runRow.owner = p THEN runRow.epoch ELSE runRow.epoch + 1
Taken(p) == [runRow EXCEPT !.owner = p, !.epoch = NextEpoch(p), !.valid = TRUE]
Lapsed == [runRow EXCEPT !.valid = FALSE]
Ended(phase) == [runRow EXCEPT !.phase = phase, !.valid = FALSE]

\* A ready issue is dispatched where no row and no attempt refuses it.
Dispatch(p) ==
    /\ IsAt(p, "none") /\ "ready" \in {surface, stale} /\ runRow = NoRow /\ attempts = "idle"
    /\ dispatched < MaxOrphanRuns /\ dispatched' = dispatched + 1
    /\ runRow' = [run |-> dispatched + 1, phase |-> "dispatching", owner |-> p, epoch |-> 1,
               valid |-> TRUE]
    /\ runner' = [runner EXCEPT ![p] = [at |-> "attempt", run |-> dispatched + 1, epoch |-> 1]]
    /\ UNCHANGED <<online, attempts, sweep, exits, pulls, orphanFaults>> /\ Issue

RecordAttempt(p) ==
    /\ IsAt(p, "attempt") /\ MovesOn(p, "spawn") /\ attempts' = "inFlight"
    /\ UNCHANGED <<runRow, online, sweep>> /\ Issue /\ Budgets

\* The issue is read once more before its agents are started; a dispatch that
\* finds it moved gives its row up.
Spawn(p) ==
    /\ IsAt(p, "spawn")
    /\ \/ /\ Fenced(p) /\ "ready" \in {surface, stale}
          /\ online' = online \cup {runner[p].run} /\ MovesOn(p, "mark")
          /\ UNCHANGED <<runRow, attempts>>
       \/ /\ surface # "ready" /\ Leaves(p) /\ UNCHANGED online
          /\ attempts' = "idle"
          /\ runRow' = IF Fenced(p) THEN Ended("abandoned") ELSE runRow
    /\ UNCHANGED sweep /\ Issue /\ Budgets

MarkIssue(p) ==
    /\ IsAt(p, "mark") /\ MovesOn(p, "run")
    /\ IF surface = "ready" THEN Becomes("progress") ELSE UNCHANGED <<surface, stale>>
    /\ UNCHANGED <<pull, runRow, online, attempts, sweep>> /\ Budgets

Proceed(p) ==
    /\ IsAt(p, "run")
    /\ IF Fenced(p) THEN MovesOn(p, "running") /\ runRow' = [runRow EXCEPT !.phase = "running"]
                    ELSE Leaves(p) /\ UNCHANGED runRow
    /\ UNCHANGED <<online, attempts, sweep>> /\ Issue /\ Budgets

\* Mutant of Recover: the worker is started whoever owns the run now.
RecoverAnyway(p) ==
    /\ IsAt(p, "exiting") /\ (RecoveryRaces \/ sweep.by # p)
    /\ online' = online \cup {runner[p].run} /\ MovesOn(p, "running")
    /\ UNCHANGED <<runRow, attempts, sweep>> /\ Issue /\ Budgets

\* Its owner starts an exited worker again, or gives the dispatch up for good:
\* the issue keeps its status.
Recover(p) ==
    /\ IsAt(p, "exiting") /\ (RecoveryRaces \/ sweep.by # p)
    /\ \/ Fenced(p) /\ online' = online \cup {runner[p].run} /\ MovesOn(p, "running")
            /\ UNCHANGED <<runRow, attempts>>
       \/ /\ Fenced(p) /\ Leaves(p) /\ UNCHANGED online /\ attempts' = "terminal"
          /\ runRow' = Ended("abandoned")
       \/ ~Fenced(p) /\ Leaves(p) /\ UNCHANGED <<runRow, online, attempts>>
    /\ UNCHANGED sweep /\ Issue /\ Budgets

\* A worker has exited before its run was saved.
ExitNoticed(p) ==
    /\ IsAt(p, "running") /\ runner[p].run \notin online /\ MovesOn(p, "exiting")
    /\ UNCHANGED <<runRow, online, attempts, sweep>> /\ Issue /\ Budgets

\* The pull request is finished, and so is the issue.
Complete(p) ==
    /\ IsAt(p, "running") /\ pull = "open" /\ Fenced(p)
    /\ Becomes("review") /\ MovesOn(p, "release") /\ pull' = "none"
    /\ UNCHANGED <<runRow, online, attempts, sweep>> /\ Budgets

Release(p) ==
    /\ \/ /\ IsAt(p, "release") /\ MovesOn(p, "complete") /\ attempts' = "terminal"
          /\ online' = online \ {runner[p].run} /\ UNCHANGED runRow
       \/ /\ IsAt(p, "complete") /\ Leaves(p) /\ UNCHANGED <<online, attempts>>
          /\ runRow' = IF Fenced(p) THEN Ended("complete") ELSE runRow
    /\ UNCHANGED sweep /\ Issue /\ Budgets

\* Another process takes the run of a dead owner over.
TakesRun(p) ==
    /\ IsAt(p, "none") /\ runRow.phase \in {"dispatching", "running"} /\ ~runRow.valid
    /\ runRow' = Taken(p)
    /\ runner' = [runner EXCEPT ![p] =
                   [at |-> IF runRow.run \in online THEN "running" ELSE "exiting",
                    run |-> runRow.run, epoch |-> NextEpoch(p)]]
    /\ UNCHANGED <<online, attempts, sweep>> /\ Issue /\ Budgets

Running(p) == RecordAttempt(p) \/ Spawn(p) \/ MarkIssue(p) \/ Proceed(p) \/ Recover(p)
                \/ ExitNoticed(p) \/ Complete(p) \/ Release(p)

-----------------------------------------------------------------------------
(* The sweep *)

Sweeps(s) == sweep.at = s
Continue(s) == sweep' = [sweep EXCEPT !.at = s]
Preserve == sweep' = NoSweep
Dispatches == UNCHANGED <<online, runner>>

Begin(p) ==
    /\ Sweeps("idle") /\ "progress" \in {surface, stale} /\ (RecoveryRaces \/ ~IsAt(p, "exiting"))
    /\ sweep' = [NoSweep EXCEPT !.at = "context", !.by = p]
    /\ UNCHANGED <<runRow, attempts>> /\ Dispatches /\ Issue /\ Budgets

\* githubOrphanRecoveryContext reads roster and rows at once, in either order.
ReadRoster ==
    /\ Sweeps("context") /\ "roster" \notin sweep.read
    /\ sweep' = [sweep EXCEPT !.roster = online, !.read = @ \cup {"roster"}]
    /\ UNCHANGED <<runRow, attempts>> /\ Dispatches /\ Issue /\ Budgets

ReadRows ==
    /\ Sweeps("context") /\ "rows" \notin sweep.read
    /\ sweep' = [sweep EXCEPT !.row = runRow, !.read = @ \cup {"rows"}]
    /\ UNCHANGED <<runRow, attempts>> /\ Dispatches /\ Issue /\ Budgets

\* A worker that no row accounts for may be an old version's.
LegacyTeam == 0 \in sweep.roster /\ sweep.row = NoRow

\* The sweep's own process dispatches the issue, or recovers its worker.
Busy == runner[sweep.by].at \notin {"none", "running"}

Active ==
    \/ sweep.roster \ {0} # {} \/ (0 \in sweep.roster /\ ~LegacyTeam)
    \/ sweep.row.phase \in {"dispatching", "running"} /\ Busy

JudgeOrphan ==
    /\ Sweeps("context") /\ sweep.read = {"roster", "rows"}
    /\ IF Active THEN Preserve ELSE Continue("status")
    /\ UNCHANGED <<runRow, attempts>> /\ Dispatches /\ Issue /\ Budgets

ReadStatus ==
    /\ Sweeps("status")
    /\ IF surface = "review" THEN Preserve
                             ELSE sweep' = [sweep EXCEPT !.at = "pull", !.status = surface]
    /\ UNCHANGED <<runRow, attempts>> /\ Dispatches /\ Issue /\ Budgets

\* openCompletionPr.  Legacy workers keep an issue that has no pull request.
Probe ==
    /\ Sweeps("pull")
    /\ CASE pull = "open"    -> Continue("adopt")
         [] pull = "foreign" -> Preserve
         [] pull = "none"    -> IF LegacyTeam THEN Preserve
                                ELSE Continue(IF sweep.row = NoRow THEN "ready" ELSE "row")
    /\ UNCHANGED <<runRow, attempts>> /\ Dispatches /\ Issue /\ Budgets

\* The run that published the pull request goes on, or a new one takes it, with
\* the old version's worker or a babysitter; a finished row refuses it.
AdoptPull ==
    /\ Sweeps("adopt") /\ Preserve
    /\ IF IsAt(sweep.by, "none") /\ runRow.phase \notin EndedPhases /\ ~runRow.valid
            /\ (runRow # NoRow \/ dispatched < MaxOrphanRuns)
         THEN LET run == IF runRow = NoRow THEN dispatched + 1 ELSE runRow.run IN
              /\ dispatched' = IF runRow = NoRow THEN dispatched + 1 ELSE dispatched
              /\ runRow' = [run |-> run, phase |-> "running", owner |-> sweep.by,
                         epoch |-> NextEpoch(sweep.by), valid |-> TRUE]
              /\ runner' = [runner EXCEPT ![sweep.by] =
                             [at |-> "running", run |-> run, epoch |-> NextEpoch(sweep.by)]]
              /\ online' = (online \ {0}) \cup {run}
         ELSE UNCHANGED <<dispatched, runRow, runner, online>>
    /\ UNCHANGED <<attempts, exits, pulls, orphanFaults>> /\ Issue

\* releaseOrphanedGithubLifecycle: still the run of the context, and its roster.
GetRow ==
    /\ Sweeps("row")
    /\ CASE runRow = NoRow               -> Continue("ready")
         [] runRow.run # sweep.row.run /\ runRow # NoRow -> Preserve
         [] OTHER -> sweep' = [sweep EXCEPT !.at = "roster", !.row = runRow]
    /\ UNCHANGED <<runRow, attempts>> /\ Dispatches /\ Issue /\ Budgets

SecondRoster ==
    /\ Sweeps("roster")
    /\ IF online # {} THEN Preserve
       ELSE Continue(IF sweep.row.phase \in EndedPhases THEN "release" ELSE "fence")
    /\ UNCHANGED <<runRow, attempts>> /\ Dispatches /\ Issue /\ Budgets

Fence ==
    /\ Sweeps("fence")
    /\ LET mine == Fenced(sweep.by)
           free == /\ runRow.run = sweep.row.run /\ ~runRow.valid
                   /\ runRow.phase \notin EndedPhases IN
       CASE mine -> sweep' = [sweep EXCEPT !.at = "release", !.epoch = runRow.epoch]
                      /\ UNCHANGED runRow
         [] free /\ ~mine ->
              /\ runRow' = Taken(sweep.by)
              /\ sweep' = [sweep EXCEPT !.at = "release", !.epoch = NextEpoch(sweep.by)]
         [] OTHER -> Preserve /\ UNCHANGED runRow
    /\ UNCHANGED attempts /\ Dispatches /\ Issue /\ Budgets

\* The row is the sweep's own still.
Held == runRow.owner = sweep.by /\ runRow.epoch = sweep.epoch /\ runRow.valid

\* A worker that is gone cannot be released; the fence is checked once more.
ReleaseAgents ==
    /\ Sweeps("release")
    /\ IF sweep.epoch # 0 /\ ~Held
         THEN Preserve ELSE Continue("clear")
    /\ online' = online \ {sweep.row.run}
    /\ UNCHANGED <<runRow, attempts, runner>> /\ Issue /\ Budgets

\* The row is deleted by its key alone, and so is what this process knew of it.
Clear ==
    /\ Sweeps("clear") /\ Continue("ready") /\ runRow' = NoRow
    /\ runner' = [runner EXCEPT ![sweep.by] = IF runner[sweep.by].run = sweep.row.run
                                              THEN NoWork ELSE @]
    /\ UNCHANGED <<online, attempts>> /\ Issue /\ Budgets

Ready ==
    /\ Sweeps("ready") /\ Continue("attempts")
    /\ IF sweep.status = "progress" /\ surface # "ready"
         THEN Becomes("ready") ELSE UNCHANGED <<surface, stale>>
    /\ UNCHANGED <<pull, runRow, attempts>> /\ Dispatches /\ Budgets

ForgetAttempts ==
    /\ Sweeps("attempts") /\ Preserve /\ attempts' = "idle"
    /\ UNCHANGED runRow /\ Dispatches /\ Issue /\ Budgets

\* A lookup or a write fails, and the issue is preserved for the next sweep.
SweepFails ==
    /\ sweep.at \in {"context", "status", "pull", "adopt", "release", "clear", "ready",
                     "attempts"}
    /\ Fault /\ Preserve
    /\ runRow' = IF /\ sweep.at \in {"release", "clear"}
                     /\ sweep.epoch # 0 /\ runRow.epoch = sweep.epoch
                  THEN Lapsed ELSE runRow
    /\ runner' = IF sweep.at \in {"release", "clear"} /\ runner[sweep.by].run = sweep.row.run
                  THEN [runner EXCEPT ![sweep.by] = NoWork] ELSE runner
    /\ UNCHANGED <<online, attempts>> /\ Issue

Sweep == ReadRoster \/ ReadRows \/ JudgeOrphan \/ ReadStatus \/ Probe \/ AdoptPull \/ GetRow
           \/ SecondRoster \/ Fence \/ ReleaseAgents \/ Clear \/ Ready \/ ForgetAttempts

-----------------------------------------------------------------------------
(* Around the processes *)

\* A worker exits, and its owner is told.
Exits(r) ==
    /\ r \in online /\ exits < MaxOrphanExits /\ exits' = exits + 1 /\ online' = online \ {r}
    /\ runner' = [p \in Peer |-> IF runner[p].run = r /\ IsAt(p, "running")
                                   THEN [runner[p] EXCEPT !.at = "exiting"] ELSE runner[p]]
    /\ UNCHANGED <<runRow, attempts, sweep, dispatched, pulls, orphanFaults>> /\ Issue

Publishes(r) ==
    /\ r \in online /\ pull = "none" /\ pulls < MaxOrphanPulls /\ pulls' = pulls + 1
    /\ pull' \in {"open", "foreign"}
    /\ UNCHANGED <<surface, stale, runRow, online, runner, attempts, sweep, dispatched, exits,
                   orphanFaults>>

\* Somebody closes a pull request, and with it the old version's worker ends.
PullCloses ==
    /\ pull # "none" /\ pull' = "none"
    /\ UNCHANGED <<surface, stale, runRow, online, runner, attempts, sweep>> /\ Budgets

\* The old version's worker ends on its own in the end.
LegacyEnds ==
    /\ 0 \in online /\ online' = online \ {0}
    /\ UNCHANGED <<runRow, runner, attempts, sweep>> /\ Issue /\ Budgets

Crash(p) ==
    /\ runner[p] # NoWork \/ sweep.by = p
    /\ Fault /\ Leaves(p) /\ sweep' = IF sweep.by = p THEN NoSweep ELSE sweep
    /\ UNCHANGED <<runRow, online, attempts>> /\ Issue

\* The lease of a row that no process holds any more runs out.
Lapse ==
    /\ runRow.valid /\ runner[runRow.owner].run # runRow.run
    /\ ~(sweep.by = runRow.owner /\ sweep.epoch = runRow.epoch)
    /\ runRow' = Lapsed
    /\ UNCHANGED <<online, runner, attempts, sweep>> /\ Issue /\ Budgets

\* Renewals fail until the lease of a live process runs out; a sweep deletes a
\* row at once after its last renewal.
Stall ==
    /\ runRow.valid /\ ~Sweeps("clear") /\ Fault /\ runRow' = Lapsed
    /\ UNCHANGED <<online, runner, attempts, sweep>> /\ Issue

MountSyncs ==
    /\ stale # surface /\ stale' = surface
    /\ UNCHANGED <<surface, pull, runRow, online, runner, attempts, sweep>> /\ Budgets

OrphanNext ==
    \/ \E p \in Peer : Dispatch(p) \/ Running(p) \/ TakesRun(p) \/ Begin(p) \/ Crash(p)
    \/ Sweep \/ SweepFails \/ PullCloses \/ LegacyEnds \/ Lapse \/ Stall \/ MountSyncs
    \/ \E r \in 0..MaxOrphanRuns : Exits(r) \/ Publishes(r)

OrphanSpec == OrphanInit /\ [][OrphanNext]_orphanVars

-----------------------------------------------------------------------------
(* Properties *)

(* Nobody works on the issue beside a worker that the recovery took for    *)
(* dead: the issue has one live worker.                                    *)
OneWorker == Cardinality(online) <= 1

(* An issue that says it is in progress, with no worker and no pull        *)
(* request, does not stay so: it is made ready, taken over, or resumed.    *)
NoOrphan == surface # "progress" \/ online # {} \/ pull # "none"

=============================================================================
