------------------------- MODULE ConversationTurns -------------------------
(***************************************************************************)
(* A Slack thread of a work unit: how replies reach its agent.             *)
(*                                                                         *)
(* A watcher of the thread reads each reply, appends it to the durable     *)
(* conversation, acknowledges it, and schedules a turn.  A turn claims all *)
(* the replies that wait, resumes the bound agent with them and completes  *)
(* the claim.  When the work unit ends its thread is kept for a grace      *)
(* period behind a fence: nothing is routed to an agent any more, replies  *)
(* that wait are reported to the human, and the conversation is cleared.   *)
(* The owner of the work unit may crash or lose it to another process,     *)
(* every write to Slack and every resume may fail.                         *)
(***************************************************************************)
EXTENDS FiniteSets, Naturals

CONSTANTS Proc,       \* factory processes: incarnations, an identity is not reused
          Msg,        \* replies of the human
          Scenario,   \* of "ends", "reopens", "babysitter", "crash" and "overlap"
                      \* (a process that lost the work unit may still run): what happens
          MaxFaults,  \* bound: failures, losses of a lease, crashes
          None

VARIABLES unit,       \* the work unit: phase, owner, the grace watch of its thread
          life,       \* per process: new, up or dead
          records,    \* processes with the work unit in their batch
          candidate,  \* the agent of the record that should be resumed
          conv,       \* the durable conversation of the thread
          heard,      \* replies the human has written
          watcher,    \* per process: the thread is watched
          fence,      \* #terminalSlackWatchIssues has the work unit
          reading,    \* per process: replies whose handler is in its mount read
          route,      \* per process: the reply being routed
          seen,       \* per process: replies acknowledged in memory
          queue,      \* per process: a turn is scheduled
          turn,       \* per process: where its turn stands
          bind,       \* per process: where a change of the bound agent stands
          retire,     \* per process: where the end of the thread stands
          delivered,  \* replies an agent was resumed with
          told,       \* replies the human was told of that nobody will get them
          mishaps     \* those of MaxFaults so far

turnVars == <<unit, life, records, candidate, conv, heard, watcher, fence, reading, route,
              seen, queue, turn, bind, retire, delivered, told, mishaps>>

Agent == {"implementer", "babysitter"}

NoDelivery == [owner |-> None, messages |-> {}, agent |-> None, lapsed |-> FALSE]
Closed == [open |-> FALSE, agent |-> None, pending |-> {}, processed |-> {}, history |-> {},
           delivery |-> NoDelivery, acked |-> {}, ackClaim |-> [m \in Msg |-> None],
           receipt |-> None]

Conversation ==
    [open : BOOLEAN, agent : Agent \union {None}, pending : SUBSET Msg,
     processed : SUBSET Msg, history : SUBSET Msg,
     delivery : [owner : Proc \union {None}, messages : SUBSET Msg,
                 agent : Agent \union {None}, lapsed : BOOLEAN],
     acked : SUBSET Msg, ackClaim : [Msg -> Proc \union {None}],
     receipt : Proc \union {None, "posted"}]

(* msg is the reply, waits what the append answered.                       *)
Route == [pc : {"idle", "notice", "append", "claim", "post", "schedule"},
          msg : Msg \union {None}, waits : BOOLEAN]
NoRoute == [pc |-> "idle", msg |-> None, waits |-> FALSE]

Turn == [pc : {"idle", "claim", "check", "resume", "complete"}, messages : SUBSET Msg]
NoTurn == [pc |-> "idle", messages |-> {}]

Bind == [pc : {"idle", "rebind"}, waits : BOOLEAN]
Unbound == [pc |-> "idle", waits |-> FALSE]

Retire == [pc : {"idle", "watch", "routes", "turns", "surface", "notice", "clear", "deferred",
                 "kept", "stop", "gone"},
           messages : SUBSET Msg]
Serving == [pc |-> "idle", messages |-> {}]

TypeOK ==
    /\ unit \in [phase : {"active", "done", "again"}, owner : Proc, grace : BOOLEAN,
                 before : SUBSET Msg]
    /\ life \in [Proc -> {"new", "up", "dead"}] /\ records \subseteq Proc
    /\ candidate \in Agent /\ conv \in Conversation
    /\ heard \subseteq Msg /\ delivered \subseteq Msg /\ told \subseteq Msg
    /\ watcher \in [Proc -> BOOLEAN] /\ fence \in [Proc -> BOOLEAN]
    /\ reading \in [Proc -> SUBSET Msg] /\ seen \in [Proc -> SUBSET Msg]
    /\ route \in [Proc -> Route] /\ queue \in [Proc -> BOOLEAN]
    /\ turn \in [Proc -> Turn] /\ bind \in [Proc -> Bind] /\ retire \in [Proc -> Retire]
    /\ mishaps \in 0 .. MaxFaults

-----------------------------------------------------------------------------
(* Helpers *)

up == {p \in Proc : life[p] = "up"}

Mishap == mishaps < MaxFaults /\ mishaps' = mishaps + 1
Undelivered == conv.pending \union conv.delivery.messages
Waits(c) == c.pending # {} \/ c.delivery.owner # None

(* A lease is live while its holder runs and renews it.                    *)
LiveTurn == conv.delivery.owner \in up /\ ~conv.delivery.lapsed

OwnsActive(p) == p \in records /\ unit.owner = p /\ unit.phase # "done"

Schedule(p) == queue' = [queue EXCEPT ![p] = TRUE]
RouteTo(p, pc) == route' = [route EXCEPT ![p].pc = pc]
RouteEnds(p) == route' = [route EXCEPT ![p] = NoRoute]
TurnEnds(p) == turn' = [turn EXCEPT ![p] = NoTurn]

Init ==
    /\ LET p == CHOOSE q \in Proc : TRUE IN
       /\ unit = [phase |-> "active", owner |-> p, grace |-> FALSE, before |-> {}]
       /\ life = [q \in Proc |-> IF q = p THEN "up" ELSE "new"] /\ records = {p}
       /\ watcher = [q \in Proc |-> q = p]
    /\ candidate = "implementer"
    /\ conv = [Closed EXCEPT !.open = TRUE, !.agent = "implementer"]
    /\ heard = {} /\ delivered = {} /\ told = {} /\ mishaps = 0
    /\ fence = [p \in Proc |-> FALSE] /\ queue = [p \in Proc |-> FALSE]
    /\ reading = [p \in Proc |-> {}] /\ seen = [p \in Proc |-> {}]
    /\ route = [p \in Proc |-> NoRoute] /\ turn = [p \in Proc |-> NoTurn]
    /\ bind = [p \in Proc |-> Unbound] /\ retire = [p \in Proc |-> Serving]

-----------------------------------------------------------------------------
(* A reply is routed *)

Writes(m) ==
    /\ m \notin heard
    /\ heard' = heard \union {m}
    /\ UNCHANGED <<unit, life, records, candidate, conv, watcher, fence, reading, route, seen,
                   queue, turn, bind, retire, delivered, told, mishaps>>

(* An event, a poll or the retry timer: the handler reads the reply.       *)
Handle(p, m) ==
    /\ watcher[p] /\ m \in heard \ (seen[p] \union reading[p]) /\ route[p].msg # m
    /\ reading' = [reading EXCEPT ![p] = @ \union {m}]
    /\ UNCHANGED <<unit, life, records, candidate, conv, heard, watcher, fence, route, seen,
                   queue, turn, bind, retire, delivered, told, mishaps>>

(* Routes of a work unit run one after the other.  Behind the fence, while *)
(* it is drained, and without an active record the reply is turned down.   *)
RouteBegins(p, m) ==
    LET opens == ~conv.open /\ p \in records IN
    /\ m \in reading[p] /\ route[p].pc = "idle"
    /\ reading' = [reading EXCEPT ![p] = @ \ {m}]
    /\ \/ /\ fence[p] \/ ~(conv.open \/ opens)
          /\ route' = [route EXCEPT ![p] = [NoRoute EXCEPT !.pc = "notice", !.msg = m]]
          /\ UNCHANGED conv
       \/ /\ ~fence[p] /\ (conv.open \/ opens)
          /\ route' = [route EXCEPT ![p] = [NoRoute EXCEPT !.pc = "append", !.msg = m]]
          /\ conv' = IF opens THEN [Closed EXCEPT !.open = TRUE, !.agent = candidate] ELSE conv
    /\ UNCHANGED <<unit, life, records, candidate, heard, watcher, fence, seen, queue, turn, bind,
                   retire, delivered, told, mishaps>>

RouteNotice(p) ==
    /\ route[p].pc = "notice"
    /\ told' = told \union {route[p].msg}
    /\ seen' = [seen EXCEPT ![p] = @ \union {route[p].msg}]
    /\ RouteEnds(p)
    /\ UNCHANGED <<unit, life, records, candidate, conv, heard, watcher, fence, reading, queue,
                   turn, bind, retire, delivered, mishaps>>

RouteAppend(p) ==
    LET m == route[p].msg IN
    /\ route[p].pc = "append"
    /\ IF ~conv.open
       THEN RouteEnds(p) /\ UNCHANGED conv
       ELSE /\ conv' = IF m \in conv.processed THEN conv
                       ELSE [conv EXCEPT !.processed = @ \union {m}, !.pending = @ \union {m}]
            /\ route' = [route EXCEPT ![p].pc = IF m \in conv.acked THEN "schedule" ELSE "claim",
                                      ![p].waits = m \notin conv.processed \/ m \in Undelivered]
    /\ UNCHANGED <<unit, life, records, candidate, heard, watcher, fence, reading, seen, queue,
                   turn, bind, retire, delivered, told, mishaps>>

RouteClaim(p) ==
    LET m == route[p].msg IN
    /\ route[p].pc = "claim"
    /\ IF conv.open /\ m \notin conv.acked /\ conv.ackClaim[m] \notin up
       THEN RouteTo(p, "post") /\ conv' = [conv EXCEPT !.ackClaim[m] = p]
       ELSE /\ IF m \in conv.acked THEN RouteTo(p, "schedule") ELSE RouteEnds(p)
            /\ UNCHANGED conv
    /\ UNCHANGED <<unit, life, records, candidate, heard, watcher, fence, reading, seen, queue,
                   turn, bind, retire, delivered, told, mishaps>>

(* The receipt is posted and recorded, unless the claim is gone by then.   *)
RoutePost(p) ==
    LET m == route[p].msg IN
    /\ route[p].pc = "post"
    /\ IF conv.open /\ conv.ackClaim[m] = p
       THEN /\ conv' = [conv EXCEPT !.acked = @ \union {m}, !.ackClaim[m] = None]
            /\ RouteTo(p, "schedule")
       ELSE RouteEnds(p) /\ UNCHANGED conv
    /\ UNCHANGED <<unit, life, records, candidate, heard, watcher, fence, reading, seen, queue,
                   turn, bind, retire, delivered, told, mishaps>>

(* A route that throws is retried by its watcher.                          *)
RouteFails(p) ==
    LET m == route[p].msg IN
    /\ route[p].pc \in {"notice", "post"}
    /\ Mishap
    /\ conv' = IF conv.open /\ conv.ackClaim[m] = p
               THEN [conv EXCEPT !.ackClaim[m] = None] ELSE conv
    /\ RouteEnds(p)
    /\ retire' = [retire EXCEPT ![p].pc = IF @ # "stop" THEN @
                                          ELSE IF conv.open THEN "deferred" ELSE "kept"]
    /\ UNCHANGED <<unit, life, records, candidate, heard, watcher, fence, reading, seen, queue,
                   turn, bind, delivered, told>>

(* Whether to schedule is decided by what the append answered.             *)
RouteSchedule(p) ==
    /\ route[p].pc = "schedule"
    /\ queue' = [queue EXCEPT ![p] = @ \/ route[p].waits]
    /\ seen' = [seen EXCEPT ![p] = @ \union {route[p].msg}]
    /\ RouteEnds(p)
    /\ UNCHANGED <<unit, life, records, candidate, conv, heard, watcher, fence, reading, turn,
                   bind, retire, delivered, told, mishaps>>

-----------------------------------------------------------------------------
(* The bound agent *)

SpawnsBabysitter(p) ==
    /\ "babysitter" \in Scenario /\ OwnsActive(p) /\ candidate = "implementer"
    /\ candidate' = "babysitter"
    /\ bind' = [bind EXCEPT ![p] = [pc |-> "rebind", waits |-> conv.open /\ Waits(conv)]]
    /\ UNCHANGED <<unit, life, records, conv, heard, watcher, fence, reading, route, seen, queue,
                   turn, retire, delivered, told, mishaps>>

Rebinds(p) ==
    /\ bind[p].pc = "rebind"
    /\ conv' = IF conv.open THEN [conv EXCEPT !.agent = candidate] ELSE conv
    /\ queue' = [queue EXCEPT ![p] = @ \/ bind[p].waits]
    /\ bind' = [bind EXCEPT ![p] = Unbound]
    /\ UNCHANGED <<unit, life, records, candidate, heard, watcher, fence, reading, route, seen,
                   turn, retire, delivered, told, mishaps>>

-----------------------------------------------------------------------------
(* Turns *)

TurnFires(p) ==
    /\ queue[p] /\ turn[p].pc = "idle"
    /\ queue' = [queue EXCEPT ![p] = FALSE]
    /\ turn' = [turn EXCEPT ![p].pc = "claim"]
    /\ UNCHANGED <<unit, life, records, candidate, conv, heard, watcher, fence, reading, route,
                   seen, bind, retire, delivered, told, mishaps>>

(* The replies of a claim that lapsed go back to those that wait.          *)
TurnClaim(p) ==
    LET idle == [conv EXCEPT !.pending = Undelivered, !.delivery = NoDelivery] IN
    /\ turn[p].pc = "claim"
    /\ IF conv.open /\ ~LiveTurn /\ conv.agent # None /\ Undelivered # {}
       THEN /\ conv' = [idle EXCEPT !.pending = {},
                            !.delivery = [owner |-> p, messages |-> Undelivered, agent |-> conv.agent,
                                          lapsed |-> FALSE]]
            /\ turn' = [turn EXCEPT ![p] = [pc |-> "check", messages |-> Undelivered]]
            /\ UNCHANGED queue
       ELSE /\ conv' = IF conv.open /\ ~LiveTurn THEN idle ELSE conv
            /\ queue' = [queue EXCEPT ![p] = @ \/ (conv.agent # None /\ Waits(conv'))]
            /\ TurnEnds(p)
    /\ UNCHANGED <<unit, life, records, candidate, heard, watcher, fence, reading, route, seen,
                   bind, retire, delivered, told, mishaps>>

Released(p) ==
    IF conv.delivery.owner = p
    THEN [conv EXCEPT !.pending = Undelivered, !.delivery = NoDelivery] ELSE conv

(* A process that no longer has the work unit gives the turn back.         *)
TurnCheck(p) ==
    /\ turn[p].pc = "check"
    /\ IF OwnsActive(p)
       THEN turn' = [turn EXCEPT ![p].pc = "resume"] /\ UNCHANGED conv
       ELSE conv' = Released(p) /\ TurnEnds(p)
    /\ UNCHANGED <<unit, life, records, candidate, heard, watcher, fence, reading, route, seen,
                   queue, bind, retire, delivered, told, mishaps>>

TurnResume(p) ==
    /\ turn[p].pc = "resume"
    /\ delivered' = delivered \union turn[p].messages
    /\ turn' = [turn EXCEPT ![p].pc = "complete"]
    /\ UNCHANGED <<unit, life, records, candidate, conv, heard, watcher, fence, reading, route,
                   seen, queue, bind, retire, told, mishaps>>

(* A resume that fails may have reached the agent all the same.            *)
TurnFails(p) ==
    /\ turn[p].pc = "resume"
    /\ Mishap
    /\ delivered' \in {delivered, delivered \union turn[p].messages}
    /\ conv' = Released(p)
    /\ TurnEnds(p) /\ Schedule(p)
    /\ UNCHANGED <<unit, life, records, candidate, heard, watcher, fence, reading, route, seen,
                   bind, retire, told>>

(* What the agent answered to is bound, unless the binding moved on.       *)
TurnComplete(p) ==
    LET mine == conv.delivery.owner = p
        resumed == conv.delivery.agent IN
    /\ turn[p].pc = "complete"
    /\ conv' = IF mine THEN [conv EXCEPT !.history = @ \union conv.delivery.messages,
                                         !.agent = IF @ = resumed THEN resumed ELSE @,
                                         !.delivery = NoDelivery]
               ELSE conv
    /\ queue' = [queue EXCEPT ![p] = @ \/ (mine /\ Waits(conv'))]
    /\ TurnEnds(p)
    /\ UNCHANGED <<unit, life, records, candidate, heard, watcher, fence, reading, route, seen,
                   bind, retire, delivered, told, mishaps>>

(* The lease of a running turn lapses, or its next renewal comes in time.  *)
TurnLapses(p) ==
    /\ conv.delivery.owner = p /\ ~conv.delivery.lapsed
    /\ Mishap
    /\ conv' = [conv EXCEPT !.delivery.lapsed = TRUE]
    /\ UNCHANGED <<unit, life, records, candidate, heard, watcher, fence, reading, route, seen,
                   queue, turn, bind, retire, delivered, told>>

TurnRenewed(p) ==
    /\ turn[p].pc \in {"resume", "complete"} /\ conv.delivery.owner = p /\ conv.delivery.lapsed
    /\ conv' = [conv EXCEPT !.delivery.lapsed = FALSE]
    /\ UNCHANGED <<unit, life, records, candidate, heard, watcher, fence, reading, route, seen,
                   queue, turn, bind, retire, delivered, told, mishaps>>

-----------------------------------------------------------------------------
(* The end of the thread *)

RetireTo(p, pc) == retire' = [retire EXCEPT ![p].pc = pc]

(* A record that is not the owner's is dropped when the process notices.   *)
Notices(p) ==
    /\ p \in records /\ (unit.owner # p \/ unit.phase = "done") /\ retire[p].pc = "idle"
    /\ records' = records \ {p}
    /\ UNCHANGED <<unit, life, candidate, conv, heard, watcher, fence, reading, route, seen,
                   queue, turn, bind, retire, delivered, told, mishaps>>

Finish(p) ==
    /\ "ends" \in Scenario /\ OwnsActive(p) /\ unit.phase = "active"
    /\ unit' = [unit EXCEPT !.phase = "done"]
    /\ records' = records \ {p}
    /\ RetireTo(p, "watch")
    /\ UNCHANGED <<life, candidate, conv, heard, watcher, fence, reading, route, seen, queue,
                   turn, bind, delivered, told, mishaps>>

(* The grace watch is durable before the fence is up.                      *)
RetireFence(p) ==
    /\ retire[p].pc = "watch"
    /\ unit' = [unit EXCEPT !.grace = TRUE, !.before = heard]
    /\ fence' = [fence EXCEPT ![p] = TRUE]
    /\ RetireTo(p, "routes")
    /\ UNCHANGED <<life, records, candidate, conv, heard, watcher, reading, route, seen, queue,
                   turn, bind, delivered, told, mishaps>>

(* The routes under way are awaited, the turn is cancelled.                *)
RetireRoutes(p) ==
    /\ retire[p].pc = "routes" /\ route[p].pc = "idle"
    /\ queue' = [queue EXCEPT ![p] = FALSE]
    /\ RetireTo(p, "turns")
    /\ UNCHANGED <<unit, life, records, candidate, conv, heard, watcher, fence, reading, route,
                   seen, turn, bind, delivered, told, mishaps>>

RetireTurns(p) ==
    /\ retire[p].pc = "turns" /\ turn[p].pc = "idle"
    /\ queue' = [queue EXCEPT ![p] = FALSE]
    /\ RetireTo(p, "surface")
    /\ UNCHANGED <<unit, life, records, candidate, conv, heard, watcher, fence, reading, route,
                   seen, turn, bind, delivered, told, mishaps>>

(* Replies that wait are reported once, under a durable claim.             *)
Surface(p) ==
    LET settled == ~conv.open \/ Undelivered = {} \/ conv.receipt = "posted"
        free == conv.receipt \notin up IN
    /\ retire[p].pc = "surface"
    /\ \/ settled /\ RetireTo(p, "clear") /\ UNCHANGED conv
       \/ /\ ~settled /\ free
          /\ conv' = [conv EXCEPT !.receipt = p]
          /\ retire' = [retire EXCEPT ![p] = [pc |-> "notice", messages |-> Undelivered]]
       \/ ~settled /\ ~free /\ RetireTo(p, "deferred") /\ UNCHANGED conv
    /\ UNCHANGED <<unit, life, records, candidate, heard, watcher, fence, reading, route, seen,
                   queue, turn, bind, delivered, told, mishaps>>

NoticePosted(p) ==
    LET mine == conv.open /\ conv.receipt = p IN
    /\ retire[p].pc = "notice"
    /\ told' = told \union retire[p].messages
    /\ conv' = IF mine THEN [conv EXCEPT !.receipt = "posted"] ELSE conv
    /\ retire' = [retire EXCEPT ![p] = [pc |-> IF mine THEN "clear" ELSE "deferred",
                                       messages |-> {}]]
    /\ UNCHANGED <<unit, life, records, candidate, heard, watcher, fence, reading, route, seen,
                   queue, turn, bind, delivered, mishaps>>

NoticeFails(p) ==
    /\ retire[p].pc = "notice"
    /\ Mishap
    /\ conv' = IF conv.receipt = p THEN [conv EXCEPT !.receipt = None] ELSE conv
    /\ retire' = [retire EXCEPT ![p] = [pc |-> "deferred", messages |-> {}]]
    /\ UNCHANGED <<unit, life, records, candidate, heard, watcher, fence, reading, route, seen,
                   queue, turn, bind, delivered, told>>

(* The thread is watched for the rest of the grace period.                 *)
Clear(p) ==
    /\ retire[p].pc = "clear"
    /\ conv' = Closed
    /\ watcher' = [watcher EXCEPT ![p] = TRUE]
    /\ RetireTo(p, "kept")
    /\ UNCHANGED <<unit, life, records, candidate, heard, fence, reading, route, seen, queue,
                   turn, bind, delivered, told, mishaps>>

SurfaceAgain(p) ==
    /\ retire[p].pc = "deferred"
    /\ RetireTo(p, "surface")
    /\ watcher' = [watcher EXCEPT ![p] = TRUE]
    /\ UNCHANGED <<unit, life, records, candidate, conv, heard, fence, reading, route, seen,
                   queue, turn, bind, delivered, told, mishaps>>

(* The grace period is over, or the work unit is dispatched again, which   *)
(* first puts its record back.                                             *)
GraceEnds(p) ==
    /\ retire[p].pc \in {"kept", "deferred"}
    /\ RetireTo(p, "stop")
    /\ UNCHANGED <<unit, life, records, candidate, conv, heard, watcher, fence, reading, route,
                   seen, queue, turn, bind, delivered, told, mishaps>>

Reopen(p) ==
    /\ "reopens" \in Scenario /\ unit.phase = "done" /\ unit.owner = p
    /\ retire[p].pc \in {"kept", "deferred"}
    /\ unit' = [unit EXCEPT !.phase = "again"]
    /\ records' = records \union {p}
    /\ RetireTo(p, "stop")
    /\ UNCHANGED <<life, candidate, conv, heard, watcher, fence, reading, route, seen, queue,
                   turn, bind, delivered, told, mishaps>>

(* Once no route is registered fence, watcher and conversation go.  A      *)
(* reply whose handler is still reading is not a route.                    *)
StopDrained(p) ==
    /\ retire[p].pc = "stop" /\ route[p].pc = "idle" /\ turn[p].pc = "idle"
    /\ fence' = [fence EXCEPT ![p] = FALSE] /\ watcher' = [watcher EXCEPT ![p] = FALSE]
    /\ queue' = [queue EXCEPT ![p] = FALSE]
    /\ conv' = Closed
    /\ unit' = [unit EXCEPT !.grace = FALSE]
    /\ RetireTo(p, "gone")
    /\ UNCHANGED <<life, records, candidate, heard, reading, route, seen, turn, bind, delivered,
                   told, mishaps>>

-----------------------------------------------------------------------------
(* Crashes and takeovers *)

Crash(p) ==
    /\ "crash" \in Scenario /\ p \in up
    /\ Mishap
    /\ life' = [life EXCEPT ![p] = "dead"]
    /\ records' = records \ {p}
    /\ watcher' = [watcher EXCEPT ![p] = FALSE] /\ fence' = [fence EXCEPT ![p] = FALSE]
    /\ reading' = [reading EXCEPT ![p] = {}] /\ seen' = [seen EXCEPT ![p] = {}]
    /\ queue' = [queue EXCEPT ![p] = FALSE] /\ bind' = [bind EXCEPT ![p] = Unbound]
    /\ retire' = [retire EXCEPT ![p] = Serving]
    /\ RouteEnds(p) /\ TurnEnds(p)
    /\ UNCHANGED <<unit, candidate, conv, heard, delivered, told>>

(* Another process takes over from one that died or whose lease ran out.   *)
(* It serves the thread, or finishes its grace period.                     *)
Start(q) ==
    LET live == unit.phase # "done"
        retired == ~live /\ unit.grace IN
    /\ life[q] = "new"
    /\ IF unit.owner \in up THEN "overlap" \in Scenario /\ Mishap ELSE UNCHANGED mishaps
    /\ life' = [life EXCEPT ![q] = "up"]
    /\ unit' = [unit EXCEPT !.owner = q]
    /\ records' = IF live THEN records \union {q} ELSE records
    /\ watcher' = [watcher EXCEPT ![q] = unit.phase = "active"]
    /\ queue' = [queue EXCEPT ![q] = live /\ conv.open /\ Waits(conv)]
    /\ fence' = [fence EXCEPT ![q] = retired]
    /\ seen' = [seen EXCEPT ![q] = IF retired THEN unit.before ELSE {}]
    /\ retire' = [retire EXCEPT ![q].pc = IF retired THEN "turns" ELSE "idle"]
    /\ UNCHANGED <<candidate, conv, heard, reading, route, turn, bind, delivered, told>>

-----------------------------------------------------------------------------
(* Next and the fairness of a process that runs *)

RouteStep(p) ==
    \/ \E m \in Msg : RouteBegins(p, m)
    \/ RouteNotice(p) \/ RouteAppend(p) \/ RouteClaim(p) \/ RoutePost(p) \/ RouteSchedule(p)

TurnStep(p) ==
    \/ TurnFires(p) \/ TurnClaim(p) \/ TurnCheck(p) \/ TurnResume(p) \/ TurnComplete(p)

RetireStep(p) ==
    \/ RetireFence(p) \/ RetireRoutes(p) \/ RetireTurns(p) \/ Surface(p) \/ NoticePosted(p)
    \/ Clear(p) \/ SurfaceAgain(p) \/ StopDrained(p)

Fault(p) == RouteFails(p) \/ TurnFails(p) \/ NoticeFails(p) \/ TurnLapses(p) \/ Crash(p)

TurnNext ==
    \/ \E m \in Msg : Writes(m)
    \/ \E p \in up, m \in Msg : Handle(p, m)
    \/ \E p \in up : \/ RouteStep(p) \/ TurnStep(p) \/ RetireStep(p) \/ Fault(p)
                    \/ TurnRenewed(p) \/ SpawnsBabysitter(p) \/ Rebinds(p)
                    \/ Notices(p) \/ Finish(p)
                    \/ GraceEnds(p) \/ Reopen(p)
    \/ \E q \in Proc : Start(q)

-----------------------------------------------------------------------------
(* Properties *)

(* A conversation that is cleared when its work unit ends leaves no reply  *)
(* behind that neither reached an agent nor was reported to the human.     *)
DropsNothing ==
    (conv.open /\ ~conv'.open /\ \E p \in up : retire[p].pc = "clear")
        => Undelivered \subseteq told \union delivered

(* What the history of a conversation says an agent was given, one was.    *)
HistoryWasDelivered == conv.history \subseteq delivered

(* The work unit ended with nobody left who knows of the thread.           *)
Stranded ==
    unit.phase = "done" /\ ~unit.grace /\ \A p \in Proc : retire[p].pc \in {"idle", "gone"}

(* A reply that was durably queued is answered: an agent gets it, or the   *)
(* human is told that none will, until the grace period runs out.          *)
Settled(m) == m \in delivered \union told
Excused == Stranded \/ up = {} \/ \E p \in Proc : retire[p].pc \in {"stop", "gone"}
RepliesSettled == \A m \in conv.processed : Settled(m) \/ Excused

=============================================================================
