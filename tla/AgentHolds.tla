------------------------------ MODULE AgentHolds -------------------------------
(***************************************************************************)
(* How long a dispatch may hold its place in the batch, across a restart.  *)
(* A starting factory restores its rows, hands the fleet client the names  *)
(* of their agents, and lets it compare them with the broker's; any of it  *)
(* may fail half way.  A deadline then ends a dispatch that has held its   *)
(* place too long: a long one while an agent of it may be working, a short *)
(* one once its agent is known to be gone or never came.                   *)
(*                                                                         *)
(* One agent per row.  tracked is the fleet client's map of agents,        *)
(* observed the names ever seen in it by this process, exits the exits     *)
(* being handled.  age says which deadlines of a row have passed: 1 the    *)
(* short, 2 the long one.                                                  *)
(***************************************************************************)
EXTENDS Naturals

CONSTANTS Row,
          Tracks,      \* the fleet client keeps a map of agents
          MaxRespawns, \* bound on agents placed
          MaxFaults,   \* bound on failures
          MaxCrashes   \* bound on ends of the factory

VARIABLES row, agent, age, at, todo, batch, names, signalled, tracked, observed, exits, armed,
          respawns, faults, crashes

holdVars == <<row, agent, age, at, todo, batch, names, signalled, tracked, observed, exits, armed,
              respawns, faults, crashes>>
factoryVars == <<at, todo, batch, names, signalled, tracked, observed, exits, armed>>

TypeOK ==
    /\ row \in [Row -> {"dispatching", "running", "done"}]
    /\ agent \in [Row -> {"none", "up", "dead"}] /\ age \in [Row -> 0..2]
    /\ at \in {"down", "restoring", "hydrating", "reconciling", "listing", "up"}
    /\ todo \subseteq Row /\ batch \subseteq Row /\ names \subseteq Row /\ signalled \subseteq Row
    /\ tracked \subseteq Row /\ observed \subseteq Row /\ exits \subseteq Row /\ armed \in BOOLEAN
    /\ respawns \in 0..MaxRespawns /\ faults \in 0..MaxFaults /\ crashes \in 0..MaxCrashes

HoldInit ==
    /\ \E placed \in SUBSET Row : \E alive \in SUBSET placed :
         /\ row = [r \in Row |-> IF r \in placed THEN "running" ELSE "dispatching"]
         /\ agent = [r \in Row |-> IF r \in alive THEN "up" ELSE IF r \in placed THEN "dead" ELSE "none"]
    /\ age = [r \in Row |-> 0] /\ at = "down"
    /\ todo = {} /\ batch = {} /\ names = {} /\ signalled = {} /\ tracked = {} /\ observed = {}
    /\ exits = {} /\ armed = FALSE /\ respawns = 0 /\ faults = 0 /\ crashes = 0

Fine == UNCHANGED faults
Fails == faults < MaxFaults /\ faults' = faults + 1
World == <<row, agent, age, respawns>>

-----------------------------------------------------------------------------
(* Three answers, never two: what was not measured counts as working. *)
Liveness(r) ==
    IF agent[r] = "none" \/ (Tracks /\ r \in observed \ tracked) THEN "gone"
    ELSE IF Tracks /\ r \in tracked THEN "live" ELSE "unmeasured"

(* The deadline that ends the dispatch: the long one only for an agent that *)
(* was placed and may still be working.                                     *)
Deadline(r) == IF row[r] = "running" /\ Liveness(r) # "gone" THEN 2 ELSE 1
Due(r) == r \in batch /\ age[r] >= Deadline(r)

Observe == observed' = IF Tracks THEN observed \cup tracked' ELSE observed

(* Deadlines are armed however the start ends, for what it restored. *)
Arm == armed' = (batch' # {})

-----------------------------------------------------------------------------
(* The start *)

Start ==
    /\ at = "down" /\ at' = "restoring" /\ todo' = {r \in Row : row[r] # "done"}
    /\ UNCHANGED World /\ UNCHANGED <<batch, names, signalled, tracked, observed, exits, armed>>
    /\ Fine /\ UNCHANGED crashes

Restore(r) ==
    /\ at = "restoring" /\ r \in todo /\ todo' = todo \ {r}
    /\ batch' = batch \cup {r}
    /\ names' = IF agent[r] # "none" THEN names \cup {r} ELSE names
    /\ at' = IF todo' = {} THEN "hydrating" ELSE at
    /\ Fine /\ UNCHANGED World /\ UNCHANGED <<signalled, tracked, observed, exits, armed, crashes>>

(* A row is given up: its source issue is over. *)
Drops(r) ==
    /\ at = "restoring" /\ r \in todo /\ todo' = todo \ {r} /\ row' = [row EXCEPT ![r] = "done"]
    /\ agent' = [agent EXCEPT ![r] = IF @ = "up" THEN "dead" ELSE @]
    /\ at' = IF todo' = {} THEN "hydrating" ELSE at
    /\ Fails /\ UNCHANGED <<age, batch, names, signalled, tracked, observed, exits, armed, respawns, crashes>>

Hydrate ==
    /\ at = "hydrating" /\ at' = "reconciling"
    /\ tracked' = IF Tracks THEN tracked \cup names ELSE {}
    /\ Observe
    /\ Fine /\ UNCHANGED World /\ UNCHANGED <<todo, batch, names, signalled, exits, armed, crashes>>

(* The fleet client compares its map with who is present; the exits it     *)
(* reports meanwhile are only collected.                                   *)
Reconcile ==
    /\ at = "reconciling" /\ at' = "listing"
    /\ signalled' = {r \in tracked : agent[r] # "up"}
    /\ tracked' = tracked \ signalled' /\ Observe
    /\ Fine /\ UNCHANGED World /\ UNCHANGED <<todo, batch, names, exits, armed, crashes>>

(* The roster's answer completes the start. *)
List ==
    /\ at = "listing" /\ at' = "up"
    /\ LET missing == {r \in names : agent[r] # "up" \/ (Tracks /\ r \notin tracked)}
       IN  /\ tracked' = tracked \ missing /\ exits' = signalled \cup missing
    /\ signalled' = {} /\ Observe
    /\ UNCHANGED batch /\ Arm /\ todo' = {} /\ names' = {}
    /\ Fine /\ UNCHANGED World /\ UNCHANGED crashes

(* A read, a claim, or the broker fails, and the start ends there: rows not *)
(* yet read are not restored, and collected exits are dropped.              *)
StartFails ==
    /\ at \in {"restoring", "reconciling", "listing"} /\ Fails /\ at' = "up"
    /\ todo' = {} /\ names' = {} /\ signalled' = {}
    /\ UNCHANGED batch /\ Arm
    /\ UNCHANGED World /\ UNCHANGED <<tracked, observed, exits, crashes>>

-----------------------------------------------------------------------------
(* The running factory *)

(* The dispatch driver of a restored row places its agent. *)
Place(r) ==
    /\ at = "up" /\ r \in batch /\ row[r] = "dispatching" /\ respawns < MaxRespawns
    /\ row' = [row EXCEPT ![r] = "running"] /\ agent' = [agent EXCEPT ![r] = "up"]
    /\ age' = [age EXCEPT ![r] = 0]
    /\ tracked' = IF Tracks THEN tracked \cup {r} ELSE tracked
    /\ Observe /\ armed' = TRUE
    /\ respawns' = respawns + 1 /\ Fine
    /\ UNCHANGED <<at, todo, batch, names, signalled, exits, crashes>>

(* The exit watcher misses an agent. *)
Miss(r) ==
    /\ at = "up" /\ r \in tracked /\ agent[r] # "up"
    /\ tracked' = tracked \ {r} /\ exits' = exits \cup {r}
    /\ observed' = observed \cup tracked
    /\ Fine /\ UNCHANGED World /\ UNCHANGED <<at, todo, batch, names, signalled, armed, crashes>>

Ends(r) == /\ row' = [row EXCEPT ![r] = "done"] /\ batch' = batch \ {r}
           /\ agent' = [agent EXCEPT ![r] = IF @ = "up" THEN "dead" ELSE @]
           /\ tracked' = tracked \ {r}

(* An exit ends the dispatch, brings a new agent, or comes to nothing. *)
Handle(r) ==
    /\ at = "up" /\ r \in exits /\ exits' = exits \ {r}
    /\ \/ /\ r \in batch /\ Ends(r) /\ Fine /\ UNCHANGED <<age, respawns, observed>>
       \/ /\ r \in batch /\ respawns < MaxRespawns /\ respawns' = respawns + 1
          /\ agent' = [agent EXCEPT ![r] = "up"]
          /\ tracked' = IF Tracks THEN tracked \cup {r} ELSE tracked
          /\ Observe /\ Fine /\ UNCHANGED <<row, age, batch>>
       \/ /\ r \notin batch /\ Fine /\ UNCHANGED <<batch, tracked, observed>> /\ UNCHANGED World
       \/ /\ Fails /\ UNCHANGED <<batch, tracked, observed>> /\ UNCHANGED World
    /\ UNCHANGED <<at, todo, names, signalled, armed, crashes>>

(* The sweep of the deadlines; one that fails is armed again. *)
Sweep(r) ==
    /\ at = "up" /\ armed /\ Due(r)
    /\ \/ Ends(r) /\ Fine
       \/ Fails /\ UNCHANGED <<row, agent, batch, tracked>>
    /\ Arm
    /\ observed' = (observed \cup tracked) \cap (tracked' \cup exits \cup batch')
    /\ UNCHANGED <<age, at, todo, names, signalled, exits, respawns, crashes>>

Dies(r) ==
    /\ agent[r] = "up" /\ agent' = [agent EXCEPT ![r] = "dead"]
    /\ Fine /\ UNCHANGED <<row, age, respawns, crashes>> /\ UNCHANGED factoryVars

Passes(r) ==
    /\ row[r] # "done" /\ age[r] < 2 /\ age' = [age EXCEPT ![r] = @ + 1]
    /\ Fine /\ UNCHANGED <<row, agent, respawns, crashes>> /\ UNCHANGED factoryVars

Crash ==
    /\ at # "down" /\ crashes < MaxCrashes /\ crashes' = crashes + 1 /\ at' = "down"
    /\ todo' = {} /\ batch' = {} /\ names' = {} /\ signalled' = {} /\ tracked' = {} /\ observed' = {}
    /\ exits' = {} /\ armed' = FALSE
    /\ Fine /\ UNCHANGED World

HoldNext ==
    \/ Start
    \/ Hydrate
    \/ Reconcile
    \/ List
    \/ StartFails
    \/ Crash
    \/ \E r \in Row :
         \/ Restore(r)
         \/ Drops(r)
         \/ Place(r)
         \/ Miss(r)
         \/ Handle(r)
         \/ Sweep(r)
         \/ Dies(r)
         \/ Passes(r)

-----------------------------------------------------------------------------
(* A deadline never takes the place of a working agent early: until the     *)
(* long deadline has passed, only a dispatch whose agent is gone, or never  *)
(* came, is ended by it, whatever part of the start failed.                 *)
WorkingKeepsItsHold ==
    \A r \in Row : Sweep(r) /\ row'[r] = "done" /\ agent[r] = "up" => age[r] = 2

(* A place taken is given back: what a start restored ends, although its    *)
(* exits were lost, their handling failed, or the start failed half way.    *)
PlacesFree == batch = {}
==============================================================================
