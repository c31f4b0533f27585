----------------------------- MODULE DependencyParks -----------------------------
(***************************************************************************)
(* An issue that declares "Blocked by:" lines is admitted once all its     *)
(* blockers have ended: their issue is closed, or a pull request of theirs *)
(* is merged.  Until then it is parked in memory, and one notice per park  *)
(* is posted to the issue.  What the process knows of the blockers is a    *)
(* cache: an index of issues, a set of blockers known to have ended, and a *)
(* memo of pull-request probes that found nothing merged.  A discovery     *)
(* sweep empties the caches; the memo expires.                             *)
(*                                                                         *)
(* One process and one blocked issue.  Only the epochs of parks survive    *)
(* the process, and the notices that it has posted.                        *)
(***************************************************************************)
EXTENDS Naturals, FiniteSets

CONSTANTS Blocker,    \* the issues that are declared as blockers
          MaxReturns, \* bound on the blocked issue becoming ready again
          MaxReopens, \* bound on blockers that are reopened
          MaxFaults   \* bound on failing requests and crashes

VARIABLES issue, closed, merged, events, index, ended, probe, fresh, parked, memo, step, todo,
          found, walk, park, notices, sweeping, seen, returns, reopens, faults

parkVars == <<issue, closed, merged, events, index, ended, probe, fresh, parked, memo, step,
              todo, found, walk, park, notices, sweeping, seen, returns, reopens, faults>>

Span == 2  \* ticks until the memo of a probe expires
Notice == [epoch : 0..MaxReturns + MaxFaults + 1, blockers : SUBSET Blocker]
NoNotice == [epoch |-> 0, blockers |-> {}]

TypeOK ==
    /\ issue \in {"ready", "working"} /\ closed \subseteq Blocker /\ merged \subseteq Blocker
    /\ events \subseteq {"closed", "pull"} \X Blocker
    /\ index \in [Blocker -> {"none", "open", "closed"}] /\ ended \subseteq Blocker
    /\ probe \in [Blocker -> 0..Span] /\ fresh \in BOOLEAN /\ parked \subseteq Blocker
    /\ memo \in Notice
    /\ step \in {"idle", "load", "check", "report", "look", "post", "clear", "admit"}
    /\ todo \subseteq Blocker /\ found \subseteq Blocker
    /\ walk \in [Blocker -> {"none", "going", "merged", "open", "failed"}]
    /\ park \in [epoch : 0..MaxReturns + MaxFaults + 1, active : BOOLEAN]
    /\ notices \in [Notice -> 0..2] /\ sweeping \in BOOLEAN /\ seen \subseteq Blocker
    /\ returns \in 0..MaxReturns /\ reopens \in 0..MaxReopens /\ faults \in 0..MaxFaults

ParkInit ==
    /\ issue = "ready" /\ closed = {} /\ merged = {} /\ events = {}
    /\ index = [b \in Blocker |-> "none"] /\ ended = {} /\ probe = [b \in Blocker |-> 0]
    /\ fresh = TRUE /\ parked = {} /\ memo = NoNotice /\ step = "idle" /\ todo = {} /\ found = {}
    /\ walk = [b \in Blocker |-> "none"] /\ park = [epoch |-> 0, active |-> FALSE]
    /\ notices = [n \in Notice |-> 0] /\ sweeping = FALSE /\ seen = {} /\ returns = 0 /\ reopens = 0 /\ faults = 0

World == UNCHANGED <<issue, closed, merged, returns, reopens>>
Caches == UNCHANGED <<index, ended, probe, fresh>>
Walking == UNCHANGED <<todo, found, walk>>
Posted == UNCHANGED <<park, notices, memo, sweeping>>

Over == closed \cup merged
Fault == faults < MaxFaults /\ faults' = faults + 1

-----------------------------------------------------------------------------
(* The blockers and the blocked issue *)

\* seen: the blockers that were over since the last sweep began.
Told(kind, b) ==
    /\ events' = events \cup {<<kind, b>>} /\ seen' = seen \cup {b}
    /\ Caches /\ Walking /\ Posted /\ UNCHANGED <<parked, step, faults>>

Closes(b) ==
    /\ b \notin closed /\ closed' = closed \cup {b} /\ Told("closed", b)
    /\ UNCHANGED <<issue, merged, returns, reopens>>

Merges(b) ==
    /\ b \notin Over /\ merged' = merged \cup {b} /\ Told("pull", b)
    /\ UNCHANGED <<issue, closed, returns, reopens>>

Reopens(b) ==
    /\ b \in closed /\ reopens < MaxReopens /\ reopens' = reopens + 1 /\ closed' = closed \ {b}
    /\ Told("closed", b) /\ UNCHANGED <<issue, merged, returns>>

\* The dispatched issue comes back to the ready column.
Returns ==
    /\ issue = "working" /\ returns < MaxReturns /\ returns' = returns + 1 /\ issue' = "ready"
    /\ UNCHANGED <<closed, merged, reopens, events, parked, step, seen, faults>> /\ Caches
    /\ Walking /\ Posted

Loses ==
    /\ \E e \in events : events' = events \ {e}
    /\ World /\ Caches /\ Walking /\ Posted /\ UNCHANGED <<parked, step, seen, faults>>

-----------------------------------------------------------------------------
(* Caches *)

\* indexDependencyIssue: what was read last decides whether the issue ended.
Indexed(b) ==
    /\ index' = [index EXCEPT ![b] = IF b \in closed THEN "closed" ELSE "open"]
    /\ ended' = IF b \in closed THEN ended \cup {b} ELSE ended \ {b}

\* dispatch: a call for an issue that is being dispatched joins that call.
Dispatched ==
    IF step = "idle" /\ issue = "ready"
      THEN step' = "load" /\ todo' = Blocker /\ found' = {} /\ UNCHANGED walk
      ELSE UNCHANGED <<step, todo, found, walk>>

\* handleChange of a blocker, and markDependencyTerminalAndReconcile.
HearsIssue ==
    \E b \in Blocker :
      /\ <<"closed", b>> \in events /\ events' = events \ {<<"closed", b>>} /\ Indexed(b)
      /\ IF b \in closed /\ b \in parked THEN Dispatched ELSE Walking /\ UNCHANGED step
      /\ World /\ Posted /\ UNCHANGED <<probe, fresh, parked, seen, faults>>

\* invalidateDependencyPrProbes: the blockers share a repository.
HearsPull ==
    \E b \in Blocker :
      /\ <<"pull", b>> \in events /\ events' = events \ {<<"pull", b>>}
      /\ probe' = [c \in Blocker |-> 0] /\ fresh' = FALSE
      /\ World /\ Walking /\ Posted /\ UNCHANGED <<index, ended, parked, step, seen, faults>>

\* A sweep dispatches the issue again if it is ready, or waits for the
\* dispatch that is under way.
Sweeps ==
    /\ Dispatched /\ sweeping' = (issue = "ready")
    /\ seen' = IF step = "idle" THEN Over ELSE seen \cup Over
    /\ World /\ UNCHANGED <<events, probe, fresh, parked, park, notices, memo, faults>>

\* Mutant of Sweep: the caches outlive the sweep.
SweepKeepsCaches ==
    /\ ~sweeping /\ Sweeps
    /\ UNCHANGED <<index, ended>>

Sweep ==
    /\ ~sweeping /\ Sweeps
    /\ index' = [b \in Blocker |-> "none"] /\ ended' = {}

SweepEnds ==
    /\ sweeping /\ step = "idle" /\ sweeping' = FALSE
    /\ World /\ Caches /\ Walking
    /\ UNCHANGED <<events, parked, step, park, notices, memo, seen, faults>>

\* Time passes.
Tick ==
    /\ probe' = [b \in Blocker |-> IF probe[b] = 0 THEN 0 ELSE probe[b] - 1]
    /\ \E b \in Blocker : probe[b] > 0
    /\ World /\ Walking /\ Posted
    /\ UNCHANGED <<events, index, ended, fresh, parked, step, seen, faults>>

-----------------------------------------------------------------------------
(* Admission *)

\* loadMissingDependencyIssues.
Load ==
    /\ step = "load"
    /\ \/ \E b \in Blocker : index[b] = "none" /\ Indexed(b) /\ UNCHANGED step
       \/ /\ \A b \in Blocker : index[b] # "none"
          /\ step' = "check" /\ UNCHANGED <<index, ended>>
    /\ World /\ Walking /\ Posted /\ UNCHANGED <<events, probe, fresh, parked, seen, faults>>

\* dependencyIsTerminalOrMerged: an unknown blocker is not over, nor is one
\* that a fresh probe has found unmerged; for others the pull requests are read.
Resolves(b, over) == todo' = todo \ {b} /\ found' = IF over THEN found \cup {b} ELSE found
Walked(b, result) == walk' = [walk EXCEPT ![b] = result]
Checking(b) == step = "check" /\ b \in todo /\ \A c \in Blocker : walk[c] = "none"
Checked == World /\ Posted /\ UNCHANGED <<events, index, ended, parked, step, seen>>

Ended(b) == b \in ended \/ index[b] = "closed"

Check(b) ==
    /\ Checking(b) /\ UNCHANGED <<probe, faults>> /\ Checked
    /\ IF Ended(b) \/ index[b] = "none" \/ probe[b] > 0
         THEN Resolves(b, Ended(b)) /\ UNCHANGED <<walk, fresh>>
         ELSE Walked(b, "going") /\ fresh' = TRUE /\ UNCHANGED <<todo, found>>

\* The pull requests of the blocker are read...
Walks(b) ==
    /\ walk[b] = "going"
    /\ \/ Walked(b, IF b \in merged THEN "merged" ELSE "open") /\ UNCHANGED faults
       \/ Walked(b, "failed") /\ Fault
    /\ UNCHANGED <<probe, fresh, todo, found>> /\ Checked

\* ... and the result is kept, unless an event came in between.
Settles(b) ==
    /\ walk[b] \in {"merged", "open", "failed"} /\ Walked(b, "none")
    /\ Resolves(b, walk[b] = "merged") /\ UNCHANGED <<fresh, faults>>
    /\ ended' = IF walk[b] = "merged" THEN ended \cup {b} ELSE ended
    /\ probe' = IF walk[b] = "open" /\ fresh THEN [probe EXCEPT ![b] = Span] ELSE probe
    /\ World /\ Posted /\ UNCHANGED <<events, index, parked, step, seen>>

\* batch.queue parks the issue; otherwise its park is over.
Admission ==
    /\ step = "check" /\ todo = {}
    /\ IF found = Blocker
         THEN step' = "clear" /\ UNCHANGED parked
         ELSE step' = "report" /\ parked' = Blocker \ found
    /\ World /\ Caches /\ Walking /\ Posted /\ UNCHANGED <<events, seen, faults>>

-----------------------------------------------------------------------------
(* The end of a park, and the notice of one *)

Local == World /\ Caches /\ Walking /\ UNCHANGED <<events, sweeping, seen>>

\* clearDependencyPark: the store first, then the memory.
Clear ==
    /\ step = "clear" /\ step' = "admit" /\ parked' = {} /\ memo' = NoNotice
    /\ park' = IF park.active THEN [epoch |-> park.epoch + 1, active |-> FALSE] ELSE park
    /\ UNCHANGED <<notices, faults>> /\ Local

\* The rest of the dispatch.
Admit ==
    /\ step = "admit" /\ step' = "idle" /\ issue' = "working"
    /\ UNCHANGED <<closed, merged, returns, reopens, events, parked, seen, faults>> /\ Caches
    /\ Walking /\ Posted

Signature == [epoch |-> park.epoch, blockers |-> parked]

\* reportDependencyPark, beginning with beginDependencyPark.
Report ==
    /\ step = "report" /\ park' = [park EXCEPT !.active = TRUE]
    /\ step' = IF memo = Signature THEN "idle" ELSE "look"
    /\ UNCHANGED <<notices, memo, parked, faults>> /\ Local

\* The comments of the issue are searched for the marker of the notice.
Look ==
    /\ step = "look"
    /\ \/ /\ notices[Signature] > 0 /\ memo' = Signature /\ step' = "idle" /\ UNCHANGED faults
       \/ notices[Signature] = 0 /\ step' = "post" /\ UNCHANGED <<memo, faults>>
       \/ step' = "idle" /\ Fault /\ UNCHANGED memo
    /\ UNCHANGED <<park, notices, parked>> /\ Local

Lands == notices' = [notices EXCEPT ![Signature] = IF @ < 2 THEN @ + 1 ELSE @]

\* postIssueComment; its response may be lost.
Post ==
    /\ step = "post" /\ step' = "idle"
    /\ \/ Lands /\ memo' = Signature /\ UNCHANGED faults
       \/ Lands /\ Fault /\ UNCHANGED memo
       \/ Fault /\ UNCHANGED <<notices, memo>>
    /\ UNCHANGED <<park, parked>> /\ Local

Reporting == Report \/ Look \/ Post

-----------------------------------------------------------------------------
\* The process dies and starts again, with empty memory.
Crash ==
    /\ Fault /\ events' = {} /\ index' = [b \in Blocker |-> "none"] /\ ended' = {}
    /\ probe' = [b \in Blocker |-> 0] /\ fresh' = TRUE /\ parked' = {} /\ memo' = NoNotice
    /\ step' = "idle" /\ todo' = {} /\ found' = {} /\ walk' = [b \in Blocker |-> "none"]
    /\ sweeping' = FALSE /\ seen' = Over /\ World /\ UNCHANGED <<park, notices>>

ParkSteps ==
    SweepEnds \/ Load \/ Admission \/ Clear \/ Admit \/ Reporting
      \/ \E b \in Blocker : Check(b) \/ Walks(b) \/ Settles(b)

ParkNext ==
    \/ \E b \in Blocker : Closes(b) \/ Merges(b) \/ Reopens(b)
    \/ Returns \/ Loses \/ HearsIssue \/ HearsPull \/ Sweep \/ Tick \/ ParkSteps \/ Crash

\* The process goes on with what it does, sweeps, and time passes.
-----------------------------------------------------------------------------
(* Properties *)

(* An issue is admitted only if each of its blockers was over at some time *)
(* since the last discovery sweep began: a blocker that was reopened       *)
(* before keeps it parked, whatever was known of it.                       *)
AdmittedUnblocked == issue = "ready" /\ issue' = "working" => seen = Blocker

(* However often the process dies and requests fail, one park of the issue *)
(* is announced once.                                                      *)
OneNotice == \A n \in Notice : notices[n] < 2

(* An issue whose blockers are over, and stay so, is dispatched, although  *)
(* events are lost and probes are remembered as negative.                  *)
NoneDue == issue # "ready" \/ Over # Blocker

=============================================================================
