---------------------------- MODULE BrokerAgents ----------------------------
(***************************************************************************)
(* The lifetimes of workers as InternalFleetClient tracks them: by name,   *)
(* from calls and from events of the broker that arrive late, twice or     *)
(* never.  Dispose shuts an owned broker down when no spawned worker is    *)
(* left, so a name forgotten too early kills its worker in mid-task and a  *)
(* name kept too long holds the process until the timeout.                 *)
(***************************************************************************)
EXTENDS FiniteSets, Naturals

CONSTANTS Life,    \* calls of spawn and resume, each the life of one worker
          Name,    \* names of workers
          Unnamed, \* no name yet
          Races    \* a name may be used again before its last exit is seen

VARIABLES call,    \* where the call of each life is
          asked,   \* the name each call asked for
          named,   \* the name the broker gave its worker
          worker,  \* the worker
          since,   \* names latched since the call began (#agentExitSequences)
          active,  \* #activeSpawnedAgentNames
          tracked, \* #tracked
          latch,   \* #exitedAgentNames
          seen,    \* keys of the exit events of lives in #seenEventKeys
          missed,  \* names whose reconciled-missing key is there
          letGo,   \* lives Factory ended itself, or whose call failed
          releases,\* names with a release under way
          listing, \* the listing of a reconciliation under way
          owns, linked, disposal

lifeVars == <<call, asked, named, worker, since>>
bookVars == <<active, tracked, latch, seen, missed>>
brokerVars == <<lifeVars, bookVars, letGo, releases, listing, owns, linked, disposal>>

TypeOK ==
    /\ call \in [Life -> {"no", "calling", "returned", "threw"}]
    /\ asked \in [Life -> Name \cup {Unnamed}] /\ named \in [Life -> Name \cup {Unnamed}]
    /\ worker \in [Life -> {"no", "running", "exited", "lost"}]
    /\ since \in [Life -> SUBSET Name]
    /\ active \subseteq Name /\ tracked \subseteq active /\ latch \subseteq Name
    /\ seen \subseteq Life /\ missed \subseteq Name /\ letGo \subseteq Life /\ releases \subseteq Name
    /\ listing \in SUBSET Name \cup {{Unnamed}}
    /\ owns \in BOOLEAN /\ linked \in BOOLEAN
    /\ disposal \in {"open", "waiting", "shutdown", "timedout", "disconnected"}

Init ==
    /\ call = [l \in Life |-> "no"] /\ asked = [l \in Life |-> Unnamed] /\ named = asked
    /\ worker = [l \in Life |-> "no"] /\ since = [l \in Life |-> {}]
    /\ active = {} /\ tracked = {} /\ latch = {} /\ seen = {} /\ missed = {}
    /\ letGo = {} /\ releases = {} /\ listing = {Unnamed}
    /\ owns \in BOOLEAN /\ linked = TRUE /\ disposal = "open"

-----------------------------------------------------------------------------
(* The books *)

Named(n) == {l \in Life : named[l] = n}
Running == {l \in Life : worker[l] = "running"}

(* #trackAgentExit                                                         *)
TrackExit(names) == active' = active \ names /\ tracked' = tracked \ names

(* #emitAgentExit for events not seen before, and #rememberAgentExit.      *)
Emit(names) ==
    LET fresh == names \ latch IN
    /\ latch' = latch \cup fresh
    /\ since' = [l \in Life |-> since[l] \cup fresh]
    /\ TrackExit(fresh)

(* #reconnectIfBrokerChanged: after a failed call, a broker not ours.      *)
Relinks == linked' = TRUE /\ owns' = (owns /\ linked)

(* Nothing of the last worker of a name is still to come.                  *)
Settled(n) ==
    \A l \in Named(n) : /\ call[l] # "calling"
                        /\ worker[l] = "lost" \/ (worker[l] = "exited" /\ l \in seen)

-----------------------------------------------------------------------------
(* Calls *)

(* spawn and resume, up to the broker call.                                *)
Begin(l, n) ==
    /\ call[l] = "no" /\ disposal = "open" /\ n \notin active \cup releases
    /\ Races \/ (Settled(n) /\ listing = {Unnamed})
    /\ call' = [call EXCEPT ![l] = "calling"]
    /\ asked' = [asked EXCEPT ![l] = n]
    /\ since' = [since EXCEPT ![l] = {}]
    /\ latch' = latch \ {n}
    /\ active' = active \cup {n} /\ tracked' = tracked \cup {n}
    /\ UNCHANGED <<named, worker, seen, missed, letGo, releases, listing, owns, linked, disposal>>

(* The broker launches the worker, under another name when it must.        *)
Launches(l, n) ==
    /\ call[l] = "calling" /\ worker[l] = "no" /\ linked /\ n \notin {named[k] : k \in Running}
    /\ n = asked[l] \/ Races \/ (Named(n) = {} /\ n \notin active)
    /\ worker' = [worker EXCEPT ![l] = "running"]
    /\ named' = [named EXCEPT ![l] = n]
    /\ UNCHANGED <<call, asked, since, bookVars, letGo, releases, listing, owns, linked, disposal>>

(* #reconcileTrackedAgentName: the worker goes by the name the broker gave *)
(* it, unless it has exited under that name already.                       *)
Returns(l) ==
    LET n == asked[l]
        a == named[l]
        kept == IF a \in latch \cap since[l] THEN {} ELSE {a}
    IN
    /\ call[l] = "calling" /\ worker[l] # "no"
    /\ call' = [call EXCEPT ![l] = "returned"]
    /\ IF a = n THEN UNCHANGED <<active, tracked, latch>>
       ELSE /\ active' = (active \ {n}) \cup kept
            /\ tracked' = (tracked \ {n}) \cup IF n \in tracked THEN kept ELSE {}
            /\ latch' = latch \ kept
    /\ UNCHANGED <<asked, named, worker, since, seen, missed, letGo, releases, listing, owns, linked, disposal>>

Throws(l) ==
    /\ call[l] = "calling"
    /\ call' = [call EXCEPT ![l] = "threw"]
    /\ letGo' = letGo \cup {l}
    /\ TrackExit({asked[l]}) /\ Relinks
    /\ UNCHANGED <<asked, named, worker, since, latch, seen, missed, releases, listing, disposal>>

(* release, up to the broker call.                                         *)
ReleaseBegins(n) ==
    /\ disposal = "open" /\ n \in active \ releases
    /\ \A l \in Life : asked[l] = n => call[l] # "calling"
    /\ releases' = releases \cup {n}
    /\ UNCHANGED <<lifeVars, bookVars, letGo, listing, owns, linked, disposal>>

(* #releaseWithRetry ends: the name is gone from the broker, or the        *)
(* attempts are spent.                                                     *)
ReleaseEnds(n) ==
    /\ n \in releases /\ (Races \/ Settled(n) \/ Named(n) \cap Running # {})
    /\ releases' = releases \ {n}
    /\ letGo' = letGo \cup Named(n)
    /\ TrackExit({n}) /\ Relinks
    /\ UNCHANGED <<lifeVars, latch, seen, missed, listing, disposal>>

(* markAgentTerminal                                                       *)
MarkTerminal(n) ==
    /\ disposal = "open" /\ n \in active \ releases
    /\ \A l \in Life : asked[l] = n => call[l] # "calling"
    /\ latch' = latch \cup {n}
    /\ since' = [l \in Life |-> since[l] \cup ({n} \ latch)]
    /\ letGo' = letGo \cup Named(n)
    /\ TrackExit({n})
    /\ UNCHANGED <<call, asked, named, worker, seen, missed, releases, listing, owns, linked, disposal>>

-----------------------------------------------------------------------------
(* The broker and its events *)

Exits(l) ==
    /\ worker[l] = "running"
    /\ worker' = [worker EXCEPT ![l] = "exited"]
    /\ UNCHANGED <<call, asked, named, since, bookVars, letGo, releases, listing, owns, linked, disposal>>

(* agent_exited arrives, for the first time or again.                      *)
ExitArrives(l) ==
    /\ worker[l] = "exited" /\ linked /\ disposal \in {"open", "waiting"}
    /\ IF l \in seen THEN UNCHANGED <<since, bookVars>>
       ELSE Emit({named[l]}) /\ seen' = seen \cup {l} /\ UNCHANGED missed
    /\ UNCHANGED <<call, asked, named, worker, letGo, releases, listing, owns, linked, disposal>>

(* Another broker takes the place of one that died with its workers.       *)
BrokerRestarts ==
    /\ linked /\ \E l \in Life : worker[l] # "no"
    /\ linked' = FALSE
    /\ worker' = [l \in Life |-> IF worker[l] = "no" THEN "no" ELSE "lost"]
    /\ UNCHANGED <<call, asked, named, since, bookVars, letGo, releases, listing, owns, disposal>>

(* reconcileTrackedAgents: the listing, a read that reconnects ...         *)
Lists ==
    /\ disposal = "open" /\ listing = {Unnamed}
    /\ Races \/ \A l \in Life : call[l] # "calling"
    /\ listing' = {named[l] : l \in Running}
    /\ Relinks
    /\ UNCHANGED <<lifeVars, bookVars, letGo, releases, disposal>>

(* ... and what is tracked and not in it.                                  *)
Reconciles ==
    /\ listing # {Unnamed}
    /\ LET gone == (tracked \ listing) \ missed IN Emit(gone) /\ missed' = missed \cup gone
    /\ listing' = {Unnamed}
    /\ UNCHANGED <<call, asked, named, worker, seen, letGo, releases, owns, linked, disposal>>

-----------------------------------------------------------------------------
(* dispose *)

Preserves ==
    /\ disposal = "open" /\ owns
    /\ owns' = FALSE
    /\ UNCHANGED <<lifeVars, bookVars, letGo, releases, listing, linked, disposal>>

Disposes ==
    /\ disposal = "open" /\ releases = {} /\ listing = {Unnamed}
    /\ disposal' = "waiting"
    /\ UNCHANGED <<lifeVars, bookVars, letGo, releases, listing, owns, linked>>

(* #waitForSpawnedAgentsToExit is over, drained or timed out.              *)
DisposeEnds ==
    /\ disposal = "waiting"
    /\ \/ active = {} /\ disposal' = IF owns THEN "shutdown" ELSE "disconnected"
       \/ active # {} /\ disposal' = IF owns THEN "timedout" ELSE "disconnected"
    /\ active' = {} /\ tracked' = {}
    /\ UNCHANGED <<lifeVars, latch, seen, missed, letGo, releases, listing, owns, linked>>

-----------------------------------------------------------------------------

LifeStep(l) ==
    \/ Returns(l) \/ Throws(l) \/ Exits(l) \/ ExitArrives(l)
    \/ \E n \in Name : Begin(l, n) \/ Launches(l, n)

BrokerNext ==
    \/ \E l \in Life : LifeStep(l)
    \/ \E n \in Name : ReleaseBegins(n) \/ ReleaseEnds(n) \/ MarkTerminal(n)
    \/ BrokerRestarts \/ Lists \/ Reconciles \/ Preserves \/ Disposes \/ DisposeEnds

-----------------------------------------------------------------------------
(* Properties *)

(* Dispose does not shut an owned broker down, but for its timeout, while  *)
(* a worker runs that nobody released.                                     *)
ShutdownWaits == disposal = "shutdown" => Running \subseteq letGo

(* Every name dispose would wait for has a call under way, a worker that   *)
(* runs, or an exit that is still to be heard of.                          *)
WaitsForTheLiving ==
    \A n \in active :
        \/ \E l \in Life : call[l] = "calling" /\ asked[l] = n
        \/ \E l \in Named(n) : worker[l] \in {"running", "lost"} \/ (worker[l] = "exited" /\ l \notin seen)

=============================================================================
