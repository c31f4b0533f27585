------------------------------ MODULE CrashReaper ------------------------------
(***************************************************************************)
(* The reaper of a crashed factory: a process of its own that reads the    *)
(* heartbeat and the registry which the factory writes to two files, and   *)
(* ends the processes of the recorded agents once the heartbeat is stale.  *)
(* Process ids are used again by others, so a recorded id says little      *)
(* without the identity (start time and command line) recorded with it.    *)
(*                                                                         *)
(* os[p] is who runs under the id p: nobody (Free), an agent, or a         *)
(* stranger (Other).  tracked[a] is the id the factory knows for an agent: *)
(* 0 when it knows of the agent but not its id, NoAgent when it does not   *)
(* know of it.  registry holds what was written last.                      *)
(***************************************************************************)
EXTENDS Naturals

CONSTANTS Agent, Pid,
          Free, Other, NoAgent,
          Races,      \* ids change hands, and the factory's clock stops, at any time
          MaxOthers,  \* bound on strangers
          MaxReturns, \* bound on restarts of the factory
          MaxFaults   \* bound on failures

VARIABLES factory, beat, registry, tracked, os, reap, others, returns, faults

reaperVars == <<factory, beat, registry, tracked, os, reap, others, returns, faults>>

Entry == [agent : Agent, pid : Pid \cup {0}, ident : BOOLEAN]
Target == [agent : Agent, pid : Pid]
Idle == [at |-> "idle", seen |-> {}, todo |-> {}, now |-> {}]

TypeOK ==
    /\ factory \in {"down", "starting", "up", "writing"} /\ beat \in {"fresh", "stale"}
    /\ registry \subseteq Entry /\ tracked \in [Agent -> Pid \cup {0, NoAgent}]
    /\ os \in [Pid -> Agent \cup {Free, Other}]
    /\ reap.at \in {"idle", "beat", "pick", "term", "kill"} /\ reap.seen \subseteq Entry
    /\ reap.todo \subseteq Target /\ reap.now \subseteq Target
    /\ others \in 0..MaxOthers /\ returns \in 0..MaxReturns /\ faults \in 0..MaxFaults

ReaperInit ==
    /\ factory = "up" /\ beat = "fresh" /\ registry = {} /\ tracked = [a \in Agent |-> NoAgent]
    /\ os = [p \in Pid |-> Free] /\ reap = Idle /\ others = 0 /\ returns = 0 /\ faults = 0

Fine == UNCHANGED faults
Fails == faults < MaxFaults /\ faults' = faults + 1
At(a) == {p \in Pid : os[p] = a}
Alive(a) == At(a) # {}

-----------------------------------------------------------------------------
(* The factory and its agents *)

Places(a) ==
    /\ factory \in {"up", "writing"} /\ ~Alive(a)
    /\ \E p \in At(Free) : /\ os' = [os EXCEPT ![p] = a]
                           /\ \E known \in {p, 0} : tracked' = [tracked EXCEPT ![a] = known]
    /\ Fine /\ UNCHANGED <<factory, beat, registry, reap, others, returns>>

Forgets(a) ==
    /\ factory \in {"up", "writing"} /\ ~Alive(a) /\ tracked[a] # NoAgent
    /\ tracked' = [tracked EXCEPT ![a] = NoAgent]
    /\ Fine /\ UNCHANGED <<factory, beat, registry, os, reap, others, returns>>

\* #writeLoopHeartbeat: the heartbeat first, the registry after it.
Beats ==
    /\ factory = "up" /\ factory' = "writing" /\ beat' = "fresh"
    /\ Fine /\ UNCHANGED <<registry, tracked, os, reap, others, returns>>

\* #terminationRoots: the process found by name, else the id of the placement.
Root(a) == IF Alive(a) THEN CHOOSE p \in At(a) : TRUE
           ELSE IF tracked[a] \in Pid THEN tracked[a] ELSE 0

\* An identity is recorded only when the process is the agent's.
Entries == {[agent |-> a, pid |-> Root(a), ident |-> Alive(a)] :
               a \in {b \in Agent : tracked[b] # NoAgent}}

Registers ==
    /\ factory = "writing" /\ factory' = "up" /\ registry' = Entries
    /\ Fine /\ UNCHANGED <<beat, tracked, os, reap, others, returns>>

Dies ==
    /\ factory # "down" /\ factory' = "down"
    /\ Fine /\ UNCHANGED <<beat, registry, tracked, os, reap, others, returns>>

\* A factory that starts writes both files before it knows its agents again.
Returns ==
    /\ factory = "down" /\ returns < MaxReturns /\ returns' = returns + 1
    /\ Races \/ reap = Idle
    /\ factory' = "starting" /\ beat' = "fresh" /\ registry' = {}
    /\ Fine /\ UNCHANGED <<tracked, os, reap, others>>

Adopts ==
    /\ factory = "starting" /\ factory' = "writing"
    /\ Fine /\ UNCHANGED <<beat, registry, tracked, os, reap, others, returns>>

\* checkFactoryLoopLiveness: nothing was written for long.
Ages ==
    /\ beat = "fresh" /\ beat' = "stale"
    /\ Races \/ factory = "down"
    /\ Fine /\ UNCHANGED <<factory, registry, tracked, os, reap, others, returns>>

-----------------------------------------------------------------------------
(* Processes *)

Calm == Races \/ reap.at \notin {"term", "kill"}

Exits(p) ==
    /\ os[p] # Free /\ os' = [os EXCEPT ![p] = Free]
    /\ Fine /\ UNCHANGED <<factory, beat, registry, tracked, reap, others, returns>>

Reused(p) ==
    /\ os[p] = Free /\ others < MaxOthers /\ Calm
    /\ os' = [os EXCEPT ![p] = Other] /\ others' = others + 1
    /\ Fine /\ UNCHANGED <<factory, beat, registry, tracked, reap, returns>>

-----------------------------------------------------------------------------
(* The reaper *)

Rests == reap' = Idle
Only == UNCHANGED <<factory, beat, registry, tracked, others, returns>>

\* reapFactoryOrphansOnce reads the registry, then the heartbeat.
Ticks ==
    /\ reap.at = "idle" /\ reap' = [Idle EXCEPT !.at = "beat", !.seen = registry]
    /\ Fine /\ Only /\ UNCHANGED os

\* registryProcesses: what was recorded with an identity, and what is found
\* by its name when no id was recorded; looking for it may fail.
Found(e) == IF e.ident THEN {[agent |-> e.agent, pid |-> e.pid]}
            ELSE IF e.pid = 0 THEN {[agent |-> e.agent, pid |-> p] : p \in At(e.agent)} ELSE {}

Judges ==
    /\ reap.at = "beat"
    /\ IF beat = "fresh" THEN Rests /\ Fine
       ELSE \/ reap' = [reap EXCEPT !.at = "pick", !.todo = UNION {Found(e) : e \in reap.seen}] /\ Fine
            \/ reap' = [reap EXCEPT !.at = "pick",
                          !.todo = UNION {Found(e) : e \in {r \in reap.seen : r.ident}}] /\ Fails
    /\ Only /\ UNCHANGED os

\* processIdentityMatches
Same(t) == os[t.pid] = t.agent

Verifies(t) ==
    /\ reap.at = "pick" /\ t \in reap.todo
    /\ \/ /\ reap' = IF Same(t) THEN [reap EXCEPT !.at = "term", !.todo = @ \ {t}, !.now = {t}]
                     ELSE [reap EXCEPT !.todo = @ \ {t}]
          /\ Fine
       \/ reap' = [reap EXCEPT !.todo = @ \ {t}] /\ Fails
    /\ Only /\ UNCHANGED os

NextPid == reap' = [reap EXCEPT !.at = "pick", !.now = {}]

\* terminatePids: whoever has the id is told to end, and ended a second later
\* if the id is still in use.
Terms ==
    /\ reap.at = "term"
    /\ \E t \in reap.now :
          \/ os[t.pid] = Free /\ NextPid /\ UNCHANGED os /\ Fine
          \/ /\ os[t.pid] # Free /\ os' \in {os, [os EXCEPT ![t.pid] = Free]}
             /\ reap' = [reap EXCEPT !.at = "kill"] /\ Fine
          \/ os[t.pid] # Free /\ NextPid /\ UNCHANGED os /\ Fails
    /\ Only

Kills ==
    /\ reap.at = "kill" /\ NextPid
    /\ \E t \in reap.now : \/ os' = [os EXCEPT ![t.pid] = Free] /\ Fine
                           \/ UNCHANGED os /\ Fails
    /\ Only

Finishes ==
    /\ reap.at = "pick" /\ reap.todo = {} /\ Rests
    /\ Fine /\ Only /\ UNCHANGED os

Reaps == Ticks \/ Judges \/ Terms \/ Kills \/ Finishes \/ (\E t \in Target : Verifies(t))

ReaperNext ==
    \/ Beats \/ Registers \/ Dies \/ Returns \/ Adopts \/ Ages \/ Reaps
    \/ \E a \in Agent : Places(a) \/ Forgets(a)
    \/ \E p \in Pid : Exits(p) \/ Reused(p)

\* The reaper ticks for ever, and time passes.
-----------------------------------------------------------------------------
\* A signal meets the process of a recorded agent or nobody, though ids are
\* used again by strangers between the writing of the registry and the reaping.
NoStrangerSignalled == reap.at \in {"term", "kill"} => \A t \in reap.now : os[t.pid] # Other

Recorded(a) == \E e \in registry : e.agent = a /\ (e.pid = 0 \/ (e.ident /\ os[e.pid] = a))

\* When the factory has died for good, a recorded agent does not outlive it for ever.
NoOrphanRuns ==
    factory = "down" /\ returns = MaxReturns => ~ \E a \in Agent : Recorded(a) /\ Alive(a)
================================================================================
