------------------------------ MODULE PreviewRoutes ------------------------------
(***************************************************************************)
(* Previews of dispatches: a command that serves the issue's checkout on a *)
(* local port, and a Tailscale Serve route that publishes it.  A registry  *)
(* on disk records which processes and routes are Factory's; every         *)
(* operation holds its lock.  Next to Factory a human uses the same Serve  *)
(* configuration, and foreign processes may take a local port.             *)
(*                                                                         *)
(* born[id] is the identity of a preview: its owner and its two ports.     *)
(* route[h] is what is published on HTTPS port h: nothing, the human's     *)
(* route, or the route configured for a preview.  public holds the ports   *)
(* that Funnel opens to everybody.  op is the operation that holds the     *)
(* lock; what it knows of the routes is the status it has read last.       *)
(***************************************************************************)
EXTENDS Naturals, Sequences

CONSTANTS Owner,     \* issues
          Port,      \* numbers of the local ports and of the HTTPS ports
          MaxIds,    \* bound on previews
          None, Human,
          Races,     \* others may act while an operation is under way
          Late,      \* a command that was given up may take effect later
          MaxFaults, \* bound on failures
          MaxHuman   \* bound on what the human does

VARIABLES born, pending, active, young, route, public, running, squat, op, sweep,
          dispatched, held, late, faults, humans

previewVars == <<born, pending, active, young, route, public, running, squat, op, sweep,
                 dispatched, held, late, faults, humans>>

Ids == 1..Len(born)
Registry == pending \cup active
Idle == [kind |-> "none", at |-> "idle", id |-> 0, owner |-> None, seen |-> [h \in Port |-> None],
         public |-> {}, todo |-> {}, keep |-> {}, proved |-> {}, sure |-> FALSE]
NoSweep == [waits |-> FALSE, owners |-> {}, ids |-> {}]

TypeOK ==
    /\ born \in Seq([owner : Owner, https : Port, target : Port]) /\ Len(born) <= MaxIds
    /\ pending \subseteq Ids /\ active \subseteq Ids \ pending /\ young \subseteq Ids
    /\ running \subseteq Ids /\ squat \subseteq Port /\ public \subseteq Port
    /\ route \in [Port -> {None, Human} \cup Ids] /\ op.seen \in [Port -> {None, Human} \cup Ids]
    /\ op.id \in 0..Len(born) /\ (op.todo \cup op.keep \cup op.proved) \subseteq Registry
    /\ op.kind \in {"none", "revive", "launch", "replace", "remove", "sweep"}
    /\ op.at \in {"idle", "ensure", "check", "allocate", "listen", "configure", "verify", "off",
                  "stop", "pick", "mend", "proof"}
    /\ sweep.owners \subseteq Owner /\ sweep.ids \subseteq Ids /\ sweep.waits \in BOOLEAN
    /\ dispatched \subseteq Owner /\ held \in [Owner -> 0..MaxIds] /\ late \subseteq Ids
    /\ faults \in 0..MaxFaults /\ humans \in 0..MaxHuman

PreviewInit ==
    /\ born = <<>> /\ pending = {} /\ active = {} /\ young = {}
    /\ route = [h \in Port |-> None] /\ public = {} /\ running = {} /\ squat = {}
    /\ op = Idle /\ sweep = NoSweep /\ dispatched = {} /\ held = [o \in Owner |-> 0]
    /\ late = {} /\ faults = 0 /\ humans = 0

Rows == UNCHANGED <<born, pending, active, young>>
Serve == UNCHANGED <<route, public, late>>
Local == UNCHANGED <<running, squat>>
Dispatches == UNCHANGED <<dispatched, held>>
Fine == UNCHANGED faults
Fails == faults < MaxFaults /\ faults' = faults + 1
Is(at) == op.at = at /\ UNCHANGED <<sweep, humans>>
Goes(at) == op' = [op EXCEPT !.at = at]

-----------------------------------------------------------------------------
(* Status, commands and processes *)

\* liveRoute: the root route of the preview's HTTPS port leads to its target.
Matches(routes, id) ==
    LET r == routes[born[id].https] IN r \in Ids /\ born[r].target = born[id].target

Open(ports, id) == born[id].https \in ports
Configured(routes, id) == routes[born[id].https] # None
Looks(o) == [o EXCEPT !.seen = route, !.public = public]

\* Serve commands are refused, and perhaps carried out later.
Refused == Fails /\ UNCHANGED <<route, public>>
             /\ late' \in {late, IF Late THEN late \cup {op.id} ELSE late}

Off(id) == /\ route' = [route EXCEPT ![born[id].https] = None]
           /\ public' = public \ {born[id].https} /\ UNCHANGED late
On(id) == /\ route' = [route EXCEPT ![born[id].https] = id]
          /\ public' = public \ {born[id].https} /\ UNCHANGED late

\* Mutant of Aimed: a port in use is a port of Factory's.
AimedAnywhere(routes, id) == Configured(routes, id)

\* May the route of this port be turned off for this preview?
Aimed(routes, id) == Matches(routes, id)

Up == op.id \in running
OwnsListener == born[op.id].target \notin squat

\* The process ends while it is waited for, or never answers.
NotReady == Local /\ IF Up THEN Fails ELSE Fine

\* What becomes of an operation that cannot go on.
Abandons ==
    CASE op.kind = "sweep" ->
           op' = [op EXCEPT !.at = "pick", !.todo = @ \ {op.id}, !.keep = @ \cup {op.id}]
      [] op.kind = "launch" /\ op.at \notin {"allocate", "off", "stop"} ->
           \* the undoing of a start begins with a status of its own, which may fail
           op' \in {[Looks(op) EXCEPT !.at = IF Matches(route, op.id) THEN "off" ELSE "stop",
                       !.sure = Matches(route, op.id) \/ op.at # "verify"],
                    [op EXCEPT !.at = "stop", !.sure = FALSE]}
      [] OTHER -> op' = Idle

-----------------------------------------------------------------------------
(* start *)

Quiet == op = Idle /\ (Races \/ ~sweep.waits)
Existing(o) == {id \in Registry : born[id].owner = o}

\* A dispatch, new or resumed, asks for its preview; same says whether it is
\* declared as it was.  Another declaration replaces the preview.
Start(o, same) ==
    /\ Is("idle") /\ Quiet /\ o \in dispatched /\ Len(born) < MaxIds
    /\ op' = IF Existing(o) = {} THEN Looks([Idle EXCEPT !.kind = "launch", !.at = "allocate", !.owner = o])
             ELSE LET id == CHOOSE id \in Existing(o) : TRUE
                  IN IF same /\ Matches(route, id) /\ ~Open(public, id)
                     THEN Looks([Idle EXCEPT !.kind = "revive", !.at = "ensure", !.owner = o, !.id = id])
                     ELSE Looks([Idle EXCEPT !.kind = "replace", !.owner = o, !.id = id, !.sure = TRUE,
                                   !.at = IF Aimed(route, id) THEN "off" ELSE "stop"])
    /\ Rows /\ Serve /\ Local /\ Dispatches /\ Fine

\* ensureManagedProcess finds the preview's process or starts it, but not
\* on a port that somebody else uses.
Ensure ==
    /\ Is("ensure")
    /\ \/ /\ Up \/ OwnsListener
          /\ running' = running \cup {op.id} /\ UNCHANGED squat /\ Fine
          /\ Goes(CASE op.kind = "launch" -> "listen" [] op.kind = "revive" -> "check"
                    [] op.kind = "sweep" -> "mend")
       \/ Local /\ Abandons /\ IF ~Up /\ ~OwnsListener THEN Fine ELSE Fails
    /\ Rows /\ Serve /\ Dispatches

\* The preview is recorded as active; the caller learns of it unless the
\* answer is lost.
Returns ==
    /\ op' = Idle /\ UNCHANGED <<born, young, dispatched>>
    /\ pending' = pending \ {op.id} /\ active' = active \cup {op.id}
    /\ \/ held' = [held EXCEPT ![op.owner] = op.id] /\ Fine
       \/ UNCHANGED held /\ Fails

Check ==
    /\ Is("check")
    /\ \/ NotReady /\ Abandons /\ Serve /\ Rows /\ Dispatches
       \/ Up /\ ~OwnsListener /\ Off(op.id) /\ Abandons /\ Local /\ Rows /\ Dispatches /\ Fine
       \/ Up /\ OwnsListener /\ Returns /\ Serve /\ Local

Least(S) == CHOOSE p \in S : \A q \in S : p <= q
FreeTargets ==
    Port \ ({born[id].target : id \in Registry} \cup squat
              \cup {born[r].target : r \in {op.seen[h] : h \in Port} \cap Ids})
FreeHttps == {h \in Port : op.seen[h] = None} \ {born[id].https : id \in Registry}

\* The intent is on disk before anything is started.
Allocate ==
    /\ Is("allocate") /\ Serve /\ Local /\ Dispatches /\ Fine
    /\ IF FreeTargets = {} \/ FreeHttps = {}
         THEN op' = Idle /\ Rows
         ELSE LET id == Len(born) + 1
              IN /\ born' = Append(born, [owner |-> op.owner, https |-> Least(FreeHttps),
                                          target |-> Least(FreeTargets)])
                 /\ pending' = pending \cup {id} /\ young' = young \cup {id} /\ UNCHANGED active
                 /\ op' = [op EXCEPT !.kind = "launch", !.at = "ensure", !.id = id]

Listen ==
    /\ Is("listen") /\ Rows /\ Serve /\ Dispatches
    /\ \/ NotReady /\ Abandons
       \/ Up /\ ~OwnsListener /\ Abandons /\ Local /\ Fine
       \/ Up /\ OwnsListener /\ Goes("configure") /\ Local /\ Fine

Configure ==
    /\ Is("configure") /\ Rows /\ Local /\ Dispatches
    /\ \/ On(op.id) /\ Goes("verify") /\ Fine
       \/ Refused /\ Abandons

Verify ==
    /\ Is("verify") /\ Serve
    /\ \/ Matches(route, op.id) /\ ~Open(public, op.id) /\ Up /\ Returns /\ Local
       \/ /\ ~Matches(route, op.id) \/ Open(public, op.id)
          /\ Abandons /\ Rows /\ Local /\ Dispatches /\ Fine
       \/ NotReady /\ Abandons /\ Rows /\ Dispatches

-----------------------------------------------------------------------------
(* remove, and what start and sweep take down *)

\* An absent row was removed before.  A row may go when its route was turned
\* off, and without it when the port has other hands or was published.
Remove(o) ==
    /\ Is("idle") /\ Quiet /\ o \in dispatched /\ held[o] # 0
    /\ Rows /\ Serve /\ Local /\ UNCHANGED dispatched /\ Fine
    /\ IF held[o] \notin Registry
         THEN held' = [held EXCEPT ![o] = 0] /\ UNCHANGED op
         ELSE /\ UNCHANGED held
              /\ op' = Looks([Idle EXCEPT !.kind = "remove", !.owner = o, !.id = held[o],
                    !.at = IF Aimed(route, held[o]) THEN "off" ELSE "stop",
                    !.sure = Configured(route, held[o]) \/ held[o] \in active])

TurnOff ==
    /\ Is("off") /\ Rows /\ Local /\ Dispatches
    /\ \/ /\ Off(op.id) /\ Fine
          /\ op' = [op EXCEPT !.at = "stop", !.sure = TRUE,
                       !.seen = IF op.kind = "replace" THEN route' ELSE @]
       \/ /\ Refused
          /\ IF op.kind = "launch" THEN op' = [op EXCEPT !.at = "stop", !.sure = FALSE] ELSE Abandons

Forgets == pending' = pending \ {op.id} /\ active' = active \ {op.id} /\ UNCHANGED <<born, young>>

Stop ==
    /\ Is("stop") /\ Serve
    /\ \/ /\ running' = running \ {op.id} /\ UNCHANGED squat /\ Fine
          /\ CASE op.kind = "sweep" /\ op.sure ->
                    op' = [op EXCEPT !.at = "pick", !.todo = @ \ {op.id}] /\ Rows /\ Dispatches
               [] op.kind = "replace" ->
                    op' = [op EXCEPT !.at = "allocate"] /\ Forgets /\ Dispatches
               [] op.kind = "launch" /\ op.sure -> op' = Idle /\ Forgets /\ Dispatches
               [] op.kind = "remove" /\ op.sure ->
                    op' = Idle /\ Forgets /\ held' = [held EXCEPT ![op.owner] = 0]
                      /\ UNCHANGED dispatched
               [] OTHER -> Abandons /\ Rows /\ Dispatches
       \/ Up /\ Fails /\ Local /\ Abandons /\ Rows /\ Dispatches

\* A dispatch is terminal once its teardown is confirmed.
Ends(o) ==
    /\ UNCHANGED <<op, sweep, humans>> /\ op.owner # o /\ (Races \/ op = Idle)
    /\ o \in dispatched /\ held[o] = 0 /\ dispatched' = dispatched \ {o} /\ UNCHANGED held
    /\ Rows /\ Serve /\ Local /\ Fine

-----------------------------------------------------------------------------
(* sweep *)

\* reapPreviewOrphans reads which dispatches are active, then asks for a sweep.
Snapshot ==
    /\ ~sweep.waits /\ op = Idle /\ UNCHANGED <<op, humans>>
    /\ sweep' = [waits |-> TRUE, owners |-> dispatched, ids |-> {held[o] : o \in dispatched} \ {0}]
    /\ Rows /\ Serve /\ Local /\ Dispatches /\ Fine

SweepBegins ==
    /\ Is("idle") /\ sweep.waits
    /\ op' = Looks([Idle EXCEPT !.kind = "sweep", !.at = "pick", !.todo = Registry])
    /\ Rows /\ Serve /\ Local /\ Dispatches /\ Fine

\* A young preview of an active dispatch may not have been recorded yet.
Authoritative(id) == born[id].owner \in sweep.owners /\ (id \in sweep.ids \/ id \in young)

Pick ==
    /\ Is("pick") /\ op.todo # {} /\ Rows /\ Serve /\ Local /\ Dispatches /\ Fine
    /\ LET id == Least(op.todo)
       IN op' = [op EXCEPT !.id = id, !.sure = Configured(op.seen, id) \/ id \in active,
                   !.at = CASE Authoritative(id) -> "ensure"
                            [] ~Authoritative(id) /\ Aimed(op.seen, id) -> "off"
                            [] OTHER -> "stop"]

\* The status is the one read before the process was waited for.
Mend ==
    /\ Is("mend") /\ Rows /\ Local /\ Dispatches
    /\ \/ NotReady /\ Abandons /\ Serve
       \/ /\ Up /\ ~OwnsListener /\ Fine
          /\ IF Aimed(op.seen, op.id)
               THEN Off(op.id) /\ op' = [op EXCEPT !.at = "pick", !.todo = @ \ {op.id},
                      !.keep = @ \cup {op.id}, !.seen = route', !.public = public']
               ELSE Serve /\ Abandons
       \/ /\ Up /\ OwnsListener /\ Matches(op.seen, op.id) /\ ~Open(op.public, op.id)
          /\ Goes("proof") /\ Serve /\ Fine
       \/ /\ Up /\ OwnsListener /\ ~Matches(op.seen, op.id) /\ Configured(op.seen, op.id)
          /\ Abandons /\ Serve /\ Fine
       \/ /\ Up /\ OwnsListener
          /\ ~Configured(op.seen, op.id) \/ (Matches(op.seen, op.id) /\ Open(op.public, op.id))
          /\ \/ On(op.id) /\ op' = [op EXCEPT !.at = "proof", !.seen = route', !.public = public'] /\ Fine
             \/ Refused /\ Abandons

Proof ==
    /\ Is("proof") /\ Rows /\ Serve /\ Dispatches
    /\ \/ /\ Matches(op.seen, op.id) /\ ~Open(op.public, op.id) /\ Up /\ Local /\ Fine
          /\ op' = [op EXCEPT !.at = "pick", !.todo = @ \ {op.id}, !.keep = @ \cup {op.id},
                      !.proved = @ \cup {op.id}]
       \/ (~Matches(op.seen, op.id) \/ Open(op.public, op.id)) /\ Abandons /\ Local /\ Fine
       \/ NotReady /\ Abandons

\* The registry is written once, at the end.
SweepEnds ==
    /\ op.at = "pick" /\ op.todo = {} /\ op' = Idle /\ sweep' = NoSweep
    /\ active' = (active \cap op.keep) \cup op.proved /\ pending' = (pending \cap op.keep) \ op.proved
    /\ UNCHANGED <<born, young, humans>> /\ Serve /\ Local /\ Dispatches /\ Fine

Works ==
    \/ Ensure \/ Check \/ Allocate \/ Listen \/ Configure \/ Verify \/ TurnOff \/ Stop
    \/ Pick \/ Mend \/ Proof \/ SweepEnds

-----------------------------------------------------------------------------
(* Everybody else *)

Elsewhere == UNCHANGED <<op, sweep, born, pending, active>>

Dispatched(o) ==
    /\ Quiet \/ Races
    /\ o \notin dispatched /\ Len(born) < MaxIds /\ dispatched' = dispatched \cup {o}
    /\ UNCHANGED <<held, young, humans>> /\ Elsewhere /\ Serve /\ Local /\ Fine

Ages(id) ==
    /\ id \in young /\ young' = young \ {id} /\ UNCHANGED humans
    /\ Elsewhere /\ Serve /\ Local /\ Dispatches /\ Fine

Dies(id) ==
    /\ id \in running /\ running' = running \ {id} /\ Fails /\ UNCHANGED <<young, squat, humans>>
    /\ Elsewhere /\ Serve /\ Dispatches

Squats(p) ==
    /\ p \notin squat /\ (\A id \in running : born[id].target # p) /\ squat' = squat \cup {p} /\ Fails
    /\ UNCHANGED <<young, running, humans>> /\ Elsewhere /\ Serve /\ Dispatches

Crash ==
    /\ op # Idle /\ Fails /\ op' = Idle /\ sweep' = NoSweep
    /\ Rows /\ Serve /\ Local /\ Dispatches /\ UNCHANGED humans

Lands(id) ==
    /\ id \in late /\ late' = late \ {id} /\ route' = [route EXCEPT ![born[id].https] = id]
    /\ UNCHANGED <<young, public, humans>> /\ Elsewhere /\ Local /\ Dispatches /\ Fine

\* The human takes a port, or opens a preview to the public.
HumanActs(h) ==
    /\ Races \/ op = Idle
    /\ humans < MaxHuman /\ humans' = humans + 1 /\ UNCHANGED <<late, young>>
    /\ \/ route[h] # Human /\ route' = [route EXCEPT ![h] = Human] /\ public' = public \ {h}
       \/ route[h] \in Ids /\ h \notin public /\ public' = public \cup {h} /\ UNCHANGED route
    /\ Elsewhere /\ Local /\ Dispatches /\ Fine

PreviewNext ==
    \/ Works \/ Snapshot \/ SweepBegins \/ Crash
    \/ \E o \in Owner : (\E same \in BOOLEAN : Start(o, same)) \/ Remove(o) \/ Dispatched(o) \/ Ends(o)
    \/ \E id \in Ids : Ages(id) \/ Dies(id) \/ Lands(id)
    \/ \E p \in Port : Squats(p) \/ HumanActs(p)

\* Operations go on, wait for the lock in the order of their calls, and the
\* sweep comes around every minute.
-----------------------------------------------------------------------------
(* Properties *)

(* A route that a human has made stays, whatever the registry says of its  *)
(* port.                                                                   *)
HumanRouteStands == \A h \in Port : route[h] = Human => route'[h] = Human

(* The preview of a dispatch that has ended goes: its process stops and    *)
(* its route is taken back.                                                *)
PreviewGone(o) ==
    \A id \in Ids : born[id].owner = o => id \notin running /\ \A h \in Port : route[h] # id

=============================================================================
