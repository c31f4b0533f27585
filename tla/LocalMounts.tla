------------------------------ MODULE LocalMounts ------------------------------
(***************************************************************************)
(* The local mirror of the workspace.  A mount session, a process outside  *)
(* the factory, keeps a directory up to date and writes a state file that  *)
(* tells how fresh it is.  The client starts a session, looks at the state *)
(* file by a timer, replaces the session when the file is stale or when    *)
(* its credentials are due, and reports when the mirror degrades and when  *)
(* it recovers.                                                            *)
(*                                                                         *)
(* Operations on the mirror are single-flight: "op" is the one under way.  *)
(* A workspace has one directory; if another one is registered already,    *)
(* the first launch is refused and the registered one is used.             *)
(***************************************************************************)
EXTENDS Naturals, FiniteSets

CONSTANTS Elsewhere, \* another directory is registered, which nobody knows yet
          Revokes,   \* the session may lose the scope that a mount needs
          MaxFaults  \* bound on launches that fail and mounts that die

VARIABLES asked, root, file, alive, held, denied, watched, due, timer, degraded, auth, heard, op,
          disposed, faults

mountVars == <<asked, root, file, alive, held, denied, watched, due, timer, degraded, auth, heard,
               op, disposed, faults>>

Dir == {"first", "registered"}
Op(kind, dir, at) == [kind |-> kind, dir |-> dir, at |-> at]
Idle == Op("none", "first", "done")

TypeOK ==
    /\ asked \in BOOLEAN /\ root \in Dir
    /\ file \in [Dir -> {"none", "fresh", "stale"}] /\ alive \in [Dir -> 0..2] /\ held \subseteq Dir
    /\ denied \in BOOLEAN /\ watched \subseteq Dir /\ due \subseteq Dir /\ timer \subseteq Dir
    /\ degraded \subseteq Dir /\ auth \subseteq degraded
    /\ heard \in {"nothing", "degraded", "recovered"}
    /\ op \in [kind : {"none", "start", "check", "renew"}, dir : Dir,
               at : {"preflight", "stop", "launch", "wait", "done"}]
    /\ disposed \in BOOLEAN /\ faults \in 0..MaxFaults

MountInit ==
    /\ asked = FALSE /\ root = "first" /\ file = [d \in Dir |-> "none"]
    /\ alive = [d \in Dir |-> 0] /\ held = {} /\ denied = FALSE /\ watched = {} /\ due = {}
    /\ timer = {} /\ degraded = {} /\ auth = {} /\ heard = "nothing" /\ op = Idle
    /\ disposed = FALSE /\ faults = 0

Fault == faults < MaxFaults /\ faults' = faults + 1
Sessions == UNCHANGED <<file, alive, held, denied, due>>
Health == UNCHANGED <<degraded, auth, heard>>

-----------------------------------------------------------------------------
(* Sessions and the world *)

World == UNCHANGED <<asked, root, held, watched, timer, op, disposed>> /\ Health

Reconciles(d) ==
    /\ alive[d] > 0 /\ ~denied /\ file[d] # "fresh" /\ file' = [file EXCEPT ![d] = "fresh"]
    /\ UNCHANGED <<alive, denied, due, faults>> /\ World

Stales(d) ==
    /\ file[d] = "fresh" /\ (alive[d] = 0 \/ denied) /\ file' = [file EXCEPT ![d] = "stale"]
    /\ UNCHANGED <<alive, denied, due, faults>> /\ World

Dies(d) ==
    /\ alive[d] > 0 /\ alive' = [alive EXCEPT ![d] = @ - 1] /\ Fault
    /\ UNCHANGED <<file, denied, due>> /\ World

\* Credentials outlast the first reconciliation of their session.
FallsDue(d) ==
    /\ d \in held \ due /\ file[d] = "fresh" /\ due' = due \cup {d}
    /\ UNCHANGED <<file, alive, denied, faults>> /\ World

Revoke ==
    /\ Revokes /\ ~denied /\ denied' = TRUE /\ UNCHANGED <<file, alive, due, faults>> /\ World

-----------------------------------------------------------------------------
(* Health, and the timer of the supervisor *)

Degrade(d) ==
    /\ degraded' = degraded \cup {d} /\ UNCHANGED auth
    /\ heard' = IF degraded = {} THEN "degraded" ELSE heard

\* Scope that is missing cannot be mended by another launch.
Terminal(d) ==
    /\ degraded' = degraded \cup {d} /\ auth' = auth \cup {d} /\ heard' = "degraded"
    /\ timer' = timer \ {d}

Recover(d) ==
    /\ auth' = auth \ {d} /\ degraded' = degraded \ {d}
    /\ heard' = IF degraded = {d} THEN "recovered" ELSE heard

\* scheduleLocalMountHealthCheck, unless the failure is terminal.
Schedule(d) == timer' = IF ~disposed /\ d \in watched THEN timer \cup {d} ELSE timer

Ends == op' = Idle

-----------------------------------------------------------------------------
(* Operations *)

Begins == op = Idle /\ ~disposed

\* ensureLocalMount, at the startup of a command.
Start ==
    /\ Begins /\ ~asked /\ asked' = TRUE /\ op' = Op("start", root, "preflight")
    /\ UNCHANGED <<root, watched, timer, disposed, faults>> /\ Sessions /\ Health

\* superviseLocalMount.  A check is always one of the root, and arms its own
\* timer again whatever comes of it.
Supervise(d) ==
    /\ Begins /\ d \in timer \cap watched
    /\ timer' = IF d = root \/ d \in due THEN timer \ {d} ELSE timer
    /\ op' = IF d \in due THEN Op("renew", d, "stop") ELSE Op("check", root, "preflight")
    /\ UNCHANGED <<asked, root, watched, disposed, faults>> /\ Sessions /\ Health

Running(at) == op.at = at /\ UNCHANGED <<asked, disposed>>
Proceeds(at) == op' = [op EXCEPT !.at = at]

\* The preflight starts a mount unless the state file is fresh.
Preflight ==
    /\ Running("preflight") /\ watched' = watched \cup {op.dir}
    /\ CASE file[op.dir] = "fresh" ->
              Ends /\ Recover(op.dir) /\ root' = op.dir
                /\ timer' = (IF disposed THEN timer ELSE timer \cup {op.dir})
         [] file[op.dir] = "stale" ->
              Proceeds("stop") /\ Degrade(op.dir) /\ UNCHANGED <<root, timer>>
         [] OTHER -> Proceeds("stop") /\ Health /\ UNCHANGED <<root, timer>>
    /\ UNCHANGED faults /\ Sessions

\* replaceLocalMount.
Stop ==
    /\ Running("stop") /\ Proceeds("launch") /\ held' = held \ {op.dir}
    /\ alive' = IF op.dir \in held /\ alive[op.dir] > 0 THEN [alive EXCEPT ![op.dir] = @ - 1]
                                                        ELSE alive
    /\ UNCHANGED <<root, file, denied, watched, due, timer, faults>> /\ Health

\* A session that comes up after the disposal of the client is stopped.
Launched ==
    IF disposed
      THEN UNCHANGED <<alive, held, due>>
      ELSE /\ alive' = [alive EXCEPT ![op.dir] = @ + 1] /\ held' = held \cup {op.dir}
           /\ due' = due \ {op.dir}

Refused == Elsewhere /\ op.dir = "first"

Launch ==
    /\ Running("launch") /\ ~denied /\ ~Refused /\ Launched
    /\ IF op.kind = "renew"
         THEN Ends /\ Recover(op.dir) /\ Schedule(op.dir)
         ELSE Proceeds("wait") /\ Health /\ UNCHANGED timer
    /\ UNCHANGED <<root, file, denied, watched, faults>>

Ready ==
    /\ Running("wait") /\ file[op.dir] = "fresh" /\ Ends /\ Recover(op.dir) /\ Schedule(op.dir)
    /\ root' = op.dir /\ UNCHANGED <<watched, faults>> /\ Sessions

-----------------------------------------------------------------------------
(* Failures *)

\* The refusal names the registered directory; the first one is forgotten.
FallsBack ==
    /\ Running("launch") /\ op.kind = "start" /\ Refused /\ ~denied
    /\ op' = Op("start", "registered", "preflight")
    /\ watched' = watched \ {op.dir} /\ timer' = timer \ {op.dir}
    /\ degraded' = degraded \ {op.dir} /\ auth' = auth \ {op.dir}
    /\ heard' = IF degraded = {} THEN "degraded" ELSE heard
    /\ UNCHANGED <<root, faults>> /\ Sessions

\* The preflight tells missing scope from other failures.
Denied ==
    /\ Running("launch") /\ denied /\ op.kind \in {"start", "check"} /\ Ends /\ Terminal(op.dir)
    /\ UNCHANGED <<root, watched, faults>> /\ Sessions

\* Mutant of Fails: only a mount that has been up is looked after.
FailsUnarmed ==
    /\ (Running("launch") \/ Running("wait")) /\ Fault /\ Ends /\ Degrade(op.dir)
    /\ IF op.kind = "start" THEN UNCHANGED timer ELSE Schedule(op.dir)
    /\ UNCHANGED <<root, watched>> /\ Sessions

\* Other failures are tried again by the supervisor.
Fails ==
    /\ (Running("launch") \/ Running("wait")) /\ Fault /\ Ends /\ Degrade(op.dir)
    /\ Schedule(op.dir) /\ UNCHANGED <<root, watched>> /\ Sessions

\* A later check may not move to the directory that its refusal names.
RefusedAgain ==
    /\ Running("launch") /\ op.kind = "check" /\ Refused /\ ~denied /\ Ends /\ Degrade(op.dir)
    /\ Schedule(op.dir) /\ UNCHANGED <<root, watched, faults>> /\ Sessions

\* So is every failure of a renewal.
RenewalDenied ==
    /\ Running("launch") /\ denied /\ op.kind = "renew" /\ Ends /\ Degrade(op.dir)
    /\ Schedule(op.dir) /\ UNCHANGED <<root, watched, faults>> /\ Sessions

\* A session that starts up while the scope is lost never gets ready.
WaitsInVain ==
    /\ Running("wait") /\ (denied \/ alive[op.dir] = 0) /\ file[op.dir] # "fresh" /\ Ends
    /\ IF denied THEN Terminal(op.dir) ELSE Degrade(op.dir) /\ Schedule(op.dir)
    /\ UNCHANGED <<root, watched, faults>> /\ Sessions

Dispose ==
    /\ asked /\ ~disposed /\ disposed' = TRUE /\ timer' = {} /\ watched' = {} /\ degraded' = {}
    /\ auth' = {} /\ held' = {}
    /\ alive' = [d \in Dir |-> IF d \in held /\ alive[d] > 0 THEN alive[d] - 1 ELSE alive[d]]
    /\ UNCHANGED <<asked, root, file, denied, due, heard, op, faults>>

Operation ==
    Preflight \/ Stop \/ Launch \/ Ready \/ FallsBack \/ Denied \/ Fails \/ RefusedAgain
      \/ RenewalDenied \/ WaitsInVain

MountNext ==
    \/ \E d \in Dir : Reconciles(d) \/ Stales(d) \/ Dies(d) \/ FallsDue(d) \/ Supervise(d)
    \/ Revoke \/ Start \/ Operation \/ Dispose

\* Mounts do their work, and so does the client; timers fire.
-----------------------------------------------------------------------------
(* Properties *)

(* A client that has been disposed of leaves no mount behind, whatever it  *)
(* was doing at the time.                                                  *)
NoMountLeft == disposed /\ op = Idle => \A d \in Dir : alive[d] = 0

(* What was reported last of the mirror's health is so.                    *)
HealthIsHeard == ~disposed /\ op = Idle => (heard = "degraded" <=> degraded # {})

(* A mirror that is stale or missing is fresh again, as long as the client *)
(* lives and its session has the scope.                                    *)
MirrorHealed == asked => file[root] = "fresh" \/ denied \/ disposed

=============================================================================
