--------------------------- MODULE TeamPublication ---------------------------
(***************************************************************************)
(* From the exits of a team's implementers to the end of their dispatch.   *)
(*                                                                         *)
(* An implementer reports that it has finished, or just exits.  Factory    *)
(* looks for its pull request in the mount, which lags behind GitHub, and  *)
(* otherwise publishes one from its branch.  A first failure leaves the    *)
(* row publishing to the drive, which publishes for the whole team and has *)
(* a budget for it.  The dispatch completes when every implementer has a   *)
(* pull request, or is abandoned, which gives its slot back.  Handlers,    *)
(* the drive, completion and abandonment interleave at every await, and    *)
(* the process may crash.                                                  *)
(*                                                                         *)
(* Babysitters are disabled and the lease is kept; whose row it is, is the *)
(* subject of DispatchLifecycle.  One drive at a time.                     *)
(***************************************************************************)
EXTENDS FiniteSets, Naturals

CONSTANTS Impl,                \* the implementers, one repository each
          Reporting,           \* those that report before they exit
          SelfOpening,         \* those that may open a pull request themselves
          Remote,              \* those that are placed on other hosts: all, or none
          MaxPublishAttempts,  \* DISPATCH_PUBLISH_MAX_ATTEMPTS
          MaxSaveFaults,       \* bound: saves that throw
          MaxCrashes           \* bound: restarts of the process

VARIABLES phase,        \* of the durable row
          pullRequests, \* the row's receipts, by repository
          recovered,    \* durable: markResumed
          workers,      \* what the implementers do
          committed,    \* their branches have commits
          pulls,        \* GitHub has a pull request of the branch
          mounted,      \* and the mount shows it
          closed,       \* the issue was written to its terminal state
          handlers,     \* #handleAgentExit for each, by signal and by exit
          noticed,      \* the signals and exits that were taken up
          drive,        \* #driveDispatchLifecycle
          retryTimer,   \* #dispatchLifecycleRetryTimers
          cache,        \* #publishedPullRequests
          attempts,     \* #publishAttempts
          abandon,      \* #abandonedDispatchReasons, and how far it has come
          completing,   \* #completionInFlight
          saveFaults, crashes

(* A dispatch has finitely many implementers, and its fleet places them    *)
(* all here or all on other hosts (placementLocality).                     *)
ASSUME PublicationAssumption ==
    /\ IsFiniteSet(Impl) /\ Remote \in {{}, Impl}
    /\ MaxPublishAttempts \in Nat /\ MaxSaveFaults \in Nat /\ MaxCrashes \in Nat

rowVars == <<phase, pullRequests, recovered, closed>>
worldVars == <<workers, committed, pulls, mounted>>
procVars == <<handlers, noticed, drive, retryTimer, cache, attempts, abandon, completing>>
publicationVars == <<rowVars, worldVars, procVars, saveFaults, crashes>>

Kind == {"signal", "exit"}
Terminal == {"complete", "abandoned"}
SaveStep == "published-save"
NoDrive == [pc |-> "no", left |-> {}, impl |-> {}]

PublicationTypes ==
    /\ phase \in {"running", "publishing", "published", "closing", "abandoning"} \cup Terminal
    /\ pullRequests \subseteq {i \in Impl : pulls[i]}
    /\ recovered \subseteq Impl /\ closed \in BOOLEAN
    /\ workers \in [Impl -> {"works", "reports", "gone", "released"}]
    /\ committed \in [Impl -> BOOLEAN] /\ pulls \in [Impl -> BOOLEAN]
    /\ mounted \in [Impl -> BOOLEAN] /\ \A i \in Impl : mounted[i] => pulls[i]
    /\ handlers \in [Impl -> [Kind -> {"no", "looks", "lands", "saves"}]]
    /\ noticed \subseteq Impl \X Kind
    /\ drive \in [pc : {"no", "next", "lands", "saves"}, left : SUBSET Impl, impl : SUBSET Impl]
    /\ retryTimer \in BOOLEAN /\ cache \subseteq {i \in Impl : pulls[i]}
    /\ attempts \in [Impl \cup {SaveStep} -> 0 .. MaxPublishAttempts + 1]
    /\ abandon \in {"no", "wanted", "marked"} /\ completing \in {"no", "writes", "ends"}
    /\ saveFaults \in 0 .. MaxSaveFaults /\ crashes \in 0 .. MaxCrashes

PublicationInit ==
    /\ phase = "running" /\ pullRequests = {} /\ recovered = {} /\ closed = FALSE
    /\ workers = [i \in Impl |-> "works"] /\ committed = [i \in Impl |-> FALSE]
    /\ pulls = [i \in Impl |-> FALSE] /\ mounted = [i \in Impl |-> FALSE]
    /\ handlers = [i \in Impl |-> [k \in Kind |-> "no"]] /\ noticed = {} /\ drive = NoDrive
    /\ retryTimer = FALSE /\ cache = {} /\ attempts = [s \in Impl \cup {SaveStep} |-> 0]
    /\ abandon = "no" /\ completing = "no" /\ saveFaults = 0 /\ crashes = 0

-----------------------------------------------------------------------------
(* Saves and probes *)

Team == Cardinality(Impl) > 1

(* The epoch is dropped with the terminal save: a later save is refused    *)
(* and arms the retry.                                                     *)
Owned == phase \notin Terminal
SavesPhase(to) == phase' = IF Owned THEN to ELSE phase
SavesReceipt(i) == pullRequests' = IF Owned THEN pullRequests \cup {i} ELSE pullRequests

HasPull(i, known) == mounted[i] \/ (Team /\ i \in known)

(* Mutant: the sibling that asks speaks for the team.                      *)
AnyHasPull(known) == ~Team \/ \E i \in Impl : HasPull(i, known)

AllHavePull(known) == ~Team \/ \A i \in Impl : HasPull(i, known)

WantsCompletion == completing' = IF completing = "no" THEN "writes" ELSE completing

(* The first wish to abandon sets the reason; a repeated one starts over.  *)
Abandons == abandon' = "wanted"

Handled(i, k, pc) == handlers' = [handlers EXCEPT ![i][k] = pc]

-----------------------------------------------------------------------------
(* The implementers and GitHub *)

Commits(i) ==
    /\ workers[i] = "works" /\ ~committed[i]
    /\ committed' = [committed EXCEPT ![i] = TRUE]
    /\ UNCHANGED <<rowVars, workers, pulls, mounted, procVars, saveFaults, crashes>>

OpensPull(i) ==
    /\ i \in SelfOpening /\ workers[i] = "works" /\ committed[i] /\ ~pulls[i]
    /\ pulls' = [pulls EXCEPT ![i] = TRUE]
    /\ UNCHANGED <<rowVars, workers, committed, mounted, procVars, saveFaults, crashes>>

Reports(i) ==
    /\ i \in Reporting /\ workers[i] = "works"
    /\ workers' = [workers EXCEPT ![i] = "reports"]
    /\ UNCHANGED <<rowVars, committed, pulls, mounted, procVars, saveFaults, crashes>>

Exits(i) ==
    /\ workers[i] \in {"works", "reports"}
    /\ workers' = [workers EXCEPT ![i] = "gone"]
    /\ UNCHANGED <<rowVars, committed, pulls, mounted, procVars, saveFaults, crashes>>

MountShows(i) ==
    /\ pulls[i] /\ ~mounted[i]
    /\ mounted' = [mounted EXCEPT ![i] = TRUE]
    /\ UNCHANGED <<rowVars, workers, committed, pulls, procVars, saveFaults, crashes>>

-----------------------------------------------------------------------------
(* #publishImplementerPullRequest *)

(* Known without asking GitHub.  The mount is looked up for a drive, and   *)
(* after the push of a remote implementer's commits.                       *)
KnownPull(i, reconciles) ==
    i \in cache \cup pullRequests \/ ((reconciles \/ i \in Remote) /\ mounted[i])

(* GitHub opens the pull request, or refuses an empty branch and a second  *)
(* one.  A remote one must be mounted in the mount before it is believed.     *)
Created(i, outcome) ==
    \/ /\ outcome = "refused" /\ (~committed[i] \/ pulls[i])
       /\ UNCHANGED <<pulls, cache>>
    \/ /\ outcome = "created" /\ committed[i] /\ ~pulls[i] /\ i \notin Remote
       /\ pulls' = [pulls EXCEPT ![i] = TRUE] /\ cache' = cache \cup {i}
    \/ /\ outcome = "failed"
       /\ pulls' \in {pulls, [pulls EXCEPT ![i] = pulls[i] \/ committed[i]]}
       /\ UNCHANGED cache

(* The confirmation of a remote pull request finds it in the mount.        *)
Confirmed(i) == i \in Remote /\ mounted[i] /\ cache' = cache \cup {i} /\ UNCHANGED pulls

-----------------------------------------------------------------------------
(* #handleAgentExit *)

(* After a restart an exit may be one that the roster's reconciliation     *)
(* finds.  Its pull request is recorded, and its worker replaced, anywhere.  *)
Reconciled(k) == k = "exit" /\ crashes > 0

(* A pull request in the mount ends the matter; otherwise one is published. *)
ExitSeen(i, k) ==
    /\ <<i, k>> \notin noticed /\ Owned
    /\ IF k = "signal" THEN workers[i] = "reports" ELSE workers[i] = "gone"
    /\ noticed' = noticed \cup {<<i, k>>}
    /\ \/ /\ HasPull(i, pullRequests)
          /\ IF AllHavePull(pullRequests) THEN WantsCompletion ELSE UNCHANGED completing
          /\ UNCHANGED <<phase, handlers>>
       \/ /\ ~HasPull(i, pullRequests) \/ Reconciled(k)
          /\ SavesPhase("publishing") /\ Handled(i, k, "looks")
          /\ UNCHANGED completing
    /\ UNCHANGED <<pullRequests, recovered, closed, worldVars, drive, retryTimer, cache,
                   attempts, abandon, saveFaults, crashes>>

HandlerLooks(i, k) ==
    /\ handlers[i][k] = "looks"
    /\ \E reconciles \in {FALSE, Reconciled(k)} :
        /\ Handled(i, k, IF KnownPull(i, reconciles) THEN "saves" ELSE "lands")
        /\ cache' = IF KnownPull(i, reconciles) /\ i \notin pullRequests
                    THEN cache \cup {i} ELSE cache
    /\ UNCHANGED <<rowVars, worldVars, noticed, drive, retryTimer, attempts, abandon,
                   completing, saveFaults, crashes>>

(* One recovery, in the place of a local worker that has nothing to        *)
(* publish; the second exit concludes the dispatch, as complete if the     *)
(* issue has any pull request.                                             *)
Recovers(i) ==
    IF i \notin recovered
    THEN /\ recovered' = recovered \cup {i}
         /\ workers' = [workers EXCEPT ![i] = "works"] /\ noticed' = noticed \ ({i} \X Kind)
         /\ SavesPhase("running")
         /\ UNCHANGED <<abandon, completing>>
    ELSE /\ IF \E j \in Impl : mounted[j] THEN WantsCompletion /\ UNCHANGED abandon
            ELSE Abandons /\ UNCHANGED completing
         /\ UNCHANGED <<phase, recovered, workers, noticed>>

HandlerLands(i, k) ==
    /\ handlers[i][k] = "lands"
    /\ \/ /\ Created(i, "created") \/ Confirmed(i)
          /\ Handled(i, k, "saves")
          /\ UNCHANGED <<phase, recovered, workers, noticed, retryTimer, abandon, completing>>
       \/ /\ Created(i, "refused")
          /\ Handled(i, k, "no") /\ Abandons
          /\ UNCHANGED <<phase, recovered, workers, noticed, retryTimer, completing>>
       \/ /\ Created(i, "failed")
          /\ Handled(i, k, "no")
          /\ \/ /\ k = "exit" /\ workers[i] = "gone" /\ Owned /\ (i \notin Remote \/ Reconciled(k))
                /\ Recovers(i) /\ UNCHANGED retryTimer
             \/ /\ k = "signal" \/ workers[i] # "gone" \/ ~Owned \/ i \in Remote
                /\ retryTimer' = TRUE /\ UNCHANGED <<phase, recovered, workers, noticed,
                                                     abandon, completing>>
    /\ UNCHANGED <<pullRequests, closed, committed, mounted, drive, attempts, saveFaults,
                   crashes>>

HandlerSaves(i, k) ==
    /\ handlers[i][k] = "saves" /\ Handled(i, k, "no")
    /\ \/ /\ SavesPhase("published") /\ SavesReceipt(i)
          /\ IF AllHavePull(pullRequests') THEN WantsCompletion ELSE UNCHANGED completing
          /\ UNCHANGED <<retryTimer, saveFaults>>
       \/ /\ saveFaults < MaxSaveFaults /\ saveFaults' = saveFaults + 1
          /\ retryTimer' = TRUE
          /\ UNCHANGED <<phase, pullRequests, completing>>
    /\ UNCHANGED <<recovered, closed, worldVars, noticed, drive, cache, attempts, abandon,
                   crashes>>

-----------------------------------------------------------------------------
(* #driveDispatchLifecycle, from the phases publishing and later *)

Active(i) ==
    workers[i] \in {"works", "reports"} \/ \E k \in Kind : handlers[i][k] # "no"

(* A row that a sibling's receipt made published is published for the rest *)
(* only when they have exited.                                             *)
DrivesTeam ==
    \/ phase = "publishing"
    \/ phase = "published" /\ Team /\ ~AllHavePull(pullRequests)
       /\ \A i \in Impl : HasPull(i, pullRequests) \/ ~Active(i)

(* A row that runs is abandoned when its issue has become terminal.        *)
AbandonsResume ==
    /\ phase' = "abandoned"
    /\ workers' = [i \in Impl |-> IF workers[i] = "gone" THEN "gone" ELSE "released"]

Drives ==
    /\ retryTimer /\ drive = NoDrive
    /\ retryTimer' = FALSE
    /\ IF phase = "running" /\ closed /\ abandon = "no" THEN AbandonsResume
       ELSE UNCHANGED <<phase, workers>>
    /\ IF abandon # "no" \/ phase = "abandoning"
       THEN Abandons /\ UNCHANGED <<drive, completing>>
       ELSE /\ IF DrivesTeam THEN drive' = [NoDrive EXCEPT !.pc = "next", !.left = Impl]
               ELSE UNCHANGED drive
            /\ IF phase = "closing" \/ (phase = "published" /\ AllHavePull(pullRequests))
               THEN WantsCompletion ELSE UNCHANGED completing
            /\ UNCHANGED abandon
    /\ UNCHANGED <<pullRequests, recovered, closed, committed, pulls, mounted, handlers,
                   noticed, cache, attempts, saveFaults, crashes>>

(* The periodic sweep finds pull requests that no exit accounted for.      *)
PeriodicSweep ==
    /\ Owned /\ phase # "closing" /\ completing = "no"
    /\ \E i \in Impl : mounted[i]
    /\ AllHavePull(pullRequests)
    /\ WantsCompletion
    /\ UNCHANGED <<rowVars, worldVars, handlers, noticed, drive, retryTimer, cache, attempts,
                   abandon, saveFaults, crashes>>

(* #abandonExhaustedPublish, for a failure that may be retried.            *)
Charges(step) ==
    /\ drive' = NoDrive
    /\ IF attempts[step] < MaxPublishAttempts
       THEN attempts' = [attempts EXCEPT ![step] = @ + 1] /\ retryTimer' = TRUE /\ UNCHANGED abandon
       ELSE attempts' = [s \in DOMAIN attempts |-> 0] /\ Abandons /\ UNCHANGED retryTimer

DriveLooks(i) ==
    /\ drive.pc = "next" /\ i \in drive.left
    /\ drive' = [drive EXCEPT !.pc = IF KnownPull(i, TRUE) THEN "saves" ELSE "lands", !.impl = {i}]
    /\ cache' = IF KnownPull(i, TRUE) /\ i \notin pullRequests THEN cache \cup {i} ELSE cache
    /\ UNCHANGED <<rowVars, worldVars, handlers, noticed, retryTimer, attempts, abandon,
                   completing, saveFaults, crashes>>

DriveLands(i) ==
    /\ drive.pc = "lands" /\ drive.impl = {i}
    /\ \/ /\ Created(i, "created") \/ Confirmed(i)
          /\ drive' = [drive EXCEPT !.pc = "saves"]
          /\ UNCHANGED <<retryTimer, attempts, abandon>>
       \/ /\ Created(i, "refused")
          /\ drive' = NoDrive /\ attempts' = [s \in DOMAIN attempts |-> 0] /\ Abandons
          /\ UNCHANGED retryTimer
       \/ Created(i, "failed") /\ Charges(i)
    /\ UNCHANGED <<rowVars, workers, committed, mounted, handlers, noticed, completing,
                   saveFaults, crashes>>

(* The receipt refunds its repository's budget, once it is saved.          *)
DriveSaves(i) ==
    /\ drive.pc = "saves" /\ drive.impl = {i}
    /\ \/ /\ SavesPhase("publishing") /\ SavesReceipt(i)
          /\ drive' = IF Owned THEN [pc |-> "next", left |-> drive.left \ {i}, impl |-> {}]
                    ELSE NoDrive
          /\ attempts' = [attempts EXCEPT ![i] = IF Owned THEN 0 ELSE @]
          /\ UNCHANGED <<retryTimer, abandon, saveFaults>>
       \/ /\ saveFaults < MaxSaveFaults /\ saveFaults' = saveFaults + 1
          /\ Charges(i)
          /\ UNCHANGED <<phase, pullRequests>>
    /\ UNCHANGED <<recovered, closed, worldVars, handlers, noticed, cache, completing, crashes>>

DriveEnds ==
    /\ drive.pc = "next" /\ drive.left = {}
    /\ \/ /\ SavesPhase("published")
          /\ drive' = NoDrive /\ attempts' = [attempts EXCEPT ![SaveStep] = 0] /\ WantsCompletion
          /\ UNCHANGED <<retryTimer, abandon, saveFaults>>
       \/ /\ saveFaults < MaxSaveFaults /\ saveFaults' = saveFaults + 1
          /\ Charges(SaveStep)
          /\ UNCHANGED <<phase, completing>>
    /\ UNCHANGED <<pullRequests, recovered, closed, worldVars, handlers, noticed, cache, crashes>>

-----------------------------------------------------------------------------
(* #completeIssue and #abandonStuckDispatch *)

CompletionWrites ==
    /\ completing = "writes"
    /\ \/ /\ Owned
          /\ closed' = TRUE /\ phase' = "closing" /\ completing' = "ends"
          /\ UNCHANGED <<retryTimer, saveFaults>>
       \/ /\ Owned /\ saveFaults < MaxSaveFaults /\ saveFaults' = saveFaults + 1
          /\ completing' = "no" /\ retryTimer' = TRUE /\ closed' \in {closed, TRUE}
          /\ UNCHANGED phase
       \/ ~Owned /\ completing' = "no" /\ UNCHANGED <<closed, phase, retryTimer, saveFaults>>
    /\ UNCHANGED <<pullRequests, recovered, worldVars, handlers, noticed, drive, cache,
                   attempts, abandon, crashes>>

Released == [i \in Impl |-> IF workers[i] = "gone" THEN "gone" ELSE "released"]

CompletionEnds ==
    /\ completing = "ends" /\ completing' = "no"
    /\ IF Owned THEN phase' = "complete" /\ workers' = Released /\ abandon' = "no"
       ELSE UNCHANGED <<phase, workers, abandon>>
    /\ UNCHANGED <<pullRequests, recovered, closed, committed, pulls, mounted, handlers,
                   noticed, drive, retryTimer, cache, attempts, saveFaults, crashes>>

AbandonMarks ==
    /\ abandon = "wanted"
    /\ \/ /\ Owned /\ phase' = "abandoning" /\ abandon' = "marked" /\ UNCHANGED <<retryTimer,
                                                                                  saveFaults>>
       \/ /\ Owned /\ saveFaults < MaxSaveFaults /\ saveFaults' = saveFaults + 1
          /\ retryTimer' = TRUE /\ UNCHANGED <<phase, abandon>>
       \/ ~Owned /\ abandon' = "no" /\ UNCHANGED <<phase, retryTimer, saveFaults>>
    /\ UNCHANGED <<pullRequests, recovered, closed, worldVars, handlers, noticed, drive, cache,
                   attempts, completing, crashes>>

AbandonEnds ==
    /\ abandon = "marked"
    /\ abandon' = "no"
    /\ IF Owned THEN phase' = "abandoned" /\ workers' = Released ELSE UNCHANGED <<phase, workers>>
    /\ UNCHANGED <<pullRequests, recovered, closed, committed, pulls, mounted, handlers,
                   noticed, drive, retryTimer, cache, attempts, completing, saveFaults, crashes>>

-----------------------------------------------------------------------------

(* The next process adopts the row: its drive starts, and the roster shows *)
(* which workers have exited meanwhile.                                    *)
Crashes ==
    /\ crashes < MaxCrashes /\ Owned
    /\ crashes' = crashes + 1
    /\ handlers' = [i \in Impl |-> [k \in Kind |-> "no"]] /\ noticed' = {} /\ drive' = NoDrive
    /\ retryTimer' = TRUE /\ cache' = {} /\ attempts' = [s \in DOMAIN attempts |-> 0]
    /\ abandon' = "no" /\ completing' = "no"
    /\ UNCHANGED <<rowVars, worldVars, saveFaults>>

Handles(i, k) == ExitSeen(i, k) \/ HandlerLooks(i, k) \/ HandlerLands(i, k) \/ HandlerSaves(i, k)
DriveStep == Drives \/ DriveEnds \/ \E i \in Impl : DriveLooks(i) \/ DriveLands(i) \/ DriveSaves(i)

PublicationNext ==
    \/ \E i \in Impl : Commits(i) \/ OpensPull(i) \/ Reports(i) \/ Exits(i) \/ MountShows(i)
    \/ \E i \in Impl, k \in Kind : Handles(i, k)
    \/ DriveStep \/ PeriodicSweep
    \/ CompletionWrites \/ CompletionEnds \/ AbandonMarks \/ AbandonEnds
    \/ Crashes

PublicationSpec == PublicationInit /\ [][PublicationNext]_publicationVars

-----------------------------------------------------------------------------
(* Properties *)

(* An issue is written to its terminal state only when every implementer   *)
(* of the team has a pull request, whichever exit completed it.            *)
ClosedIsPublished == closed => \A i \in Impl : pulls[i]

(* So it is unless the second exit of a recovered implementer concluded.   *)
TeamClosesWhole == recovered = {} => ClosedIsPublished

(* A dispatch ends, and gives its slot back, once its implementers exit,   *)
(* however publication fails and whenever the process crashes.             *)
PublicationOver == phase \in Terminal

=============================================================================
