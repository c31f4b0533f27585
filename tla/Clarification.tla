--------------------------- MODULE Clarification ---------------------------
(***************************************************************************)
(* A question to a human: parking the team that asked, and waking it.      *)
(*                                                                         *)
(* An agent's question reserves a durable record for its issue.  The team  *)
(* is then released from the fleet one agent at a time and the record is   *)
(* marked parked; the question is posted; the first reply is kept in the   *)
(* record; and a process that holds the record's wake lease starts the     *)
(* team again, with the answer in its task.  The question handler, the     *)
(* maintenance sweep and the driver of a recovered row may all be parking  *)
(* the same team, in one process or in several; a release call that        *)
(* outlives its grace is abandoned and lands whenever the fleet gets to    *)
(* it; the wake is called by replies, by drains and by its retry timer;    *)
(* processes crash and restart under a new identity.                       *)
(***************************************************************************)
EXTENDS Integers, Sequences, FiniteSets

CONSTANTS Proc,            \* factory processes
          Team,            \* the agents of the work unit, the asker first
          Exiting,         \* agents whose process may die unasked
          SlackConfigured, \* questions go to Slack, else to GitHub only
          BatchSize,       \* batch slots of a process
          Sharing,         \* processes whose batch has other work as well
          MaxFaults,       \* bound: failures, expiries, lapses, crashes, slots taken
          None, Gone       \* no holder; a holder that crashed

Agents == {Team[i] : i \in DOMAIN Team}

ASSUME SizesAssumption ==
    /\ None # Gone /\ {None, Gone} \intersect Proc = {}
    /\ Team \in Seq(Agents) \ {<<>>}
    /\ \A i, j \in DOMAIN Team : Team[i] = Team[j] => i = j
    /\ Exiting \subseteq Agents /\ Sharing \subseteq Proc
    /\ SlackConfigured \in BOOLEAN
    /\ BatchSize \in Nat \ {0} /\ MaxFaults \in Nat

VARIABLES waiting,    \* the durable clarification record
          row,        \* the work unit's dispatch lifecycle: phase and lease holder
          online,     \* names on the fleet's roster
          briefed,    \* agents last started with the answer in their task
          park,       \* per process and thread: where its park stands
          wake,       \* per process: where its wake stands
          held,       \* the process's batch record of the work unit: what it does
          busy,       \* other work has a slot of the process's batch
          calls,      \* per process: release calls abandoned and not settled
          fence,      \* #abandonedClarificationReleases: those a respawn waits for
          due,        \* per process: timers set, wake calls and drains to come
          recovering, \* per process: agents an exit handler is bringing back
          turnedAway, \* a wake of this question found the batch full
          faults      \* those of MaxFaults so far

vars == <<waiting, row, online, briefed, park, wake, held, busy, calls, fence, due,
          recovering, turnedAway, faults>>

-----------------------------------------------------------------------------
(* Types *)

Holder == Proc \union {None, Gone}

NoRecord == [posted |-> FALSE, delivery |-> None, reply |-> FALSE, released |-> {},
             parked |-> FALSE, wake |-> None, open |-> FALSE]
Waiting == [posted : BOOLEAN, delivery : Holder, reply : BOOLEAN,
            released : SUBSET Agents, parked : BOOLEAN, wake : Holder, open : BOOLEAN]

Row == [phase : {"running", "parking", "waiting", "dispatching"}, owner : Holder]

(* The question handler, the maintenance sweep, the lifecycle driver.      *)
Thread == {"ask", "sweep", "drive"}
Park == [pc : {"idle", "save", "release", "grace", "forced", "check", "mark",
               "saved", "complete", "deliver", "posting"},
         at : 1 .. Len(Team) + 1, live : BOOLEAN]
Resting == [pc |-> "idle", at |-> 1, live |-> FALSE]

Call == [agent : Agents, thread : Thread, kind : {"grace", "forced"}]

Wake == [pc : {"idle", "claimed", "full", "room", "rowed", "team", "start", "undo"},
         at : 1 .. Len(Team) + 1, roster : SUBSET Agents, resumed : SUBSET Agents,
         awaited : SUBSET Call, seen : SUBSET Call]
Asleep == [pc |-> "idle", at |-> 1, roster |-> {}, resumed |-> {}, awaited |-> {}, seen |-> {}]

Due == {"sweep", "drive", "retry", "answer", "drain"}

(* A record that waits for a human is in the batch without a slot.         *)
Held == {"none", "working", "waiting"}

TypeOK ==
    /\ waiting \in Waiting /\ row \in Row
    /\ online \in SUBSET Agents /\ briefed \in SUBSET Agents
    /\ park \in [Proc -> [Thread -> Park]] /\ wake \in [Proc -> Wake]
    /\ held \in [Proc -> Held] /\ busy \in [Proc -> BOOLEAN]
    /\ calls \in [Proc -> SUBSET Call] /\ fence \in [Proc -> SUBSET Call]
    /\ due \in [Proc -> SUBSET Due] /\ recovering \in [Proc -> SUBSET Agents]
    /\ turnedAway \in BOOLEAN /\ faults \in 0 .. MaxFaults

-----------------------------------------------------------------------------
(* Helpers *)

Asker == Team[1]
Answered == waiting.open /\ waiting.reply
CanStart(p, h) ==
    (IF h[p] = "working" THEN 1 ELSE 0) + (IF busy[p] THEN 1 ELSE 0) < BatchSize
Fault == faults < MaxFaults /\ faults' = faults + 1

WakeClaimable(p) ==
    Answered /\ waiting.posted /\ waiting.parked /\ waiting.wake \in {None, p}

OwnsWake(p) == waiting.open /\ waiting.wake = p
WakeReleased(p) == IF OwnsWake(p) THEN [waiting EXCEPT !.wake = None] ELSE waiting

Arm(p, timers) == due' = [due EXCEPT ![p] = @ \union timers]
To(p, t, pc) ==
    park' = [park EXCEPT ![p][t] = IF pc = "idle" THEN Resting ELSE [@ EXCEPT !.pc = pc]]
After(t) == IF t = "drive" THEN "idle" ELSE "deliver"

(* A wake call is made for an answered record if the batch has room.       *)
Drain(p, w, h) == Arm(p, IF w.open /\ w.reply /\ CanStart(p, h) THEN {"answer"} ELSE {})

(* Mutant: a failed park of the question handler is left to nobody.        *)
ThrowsUnarmed(p, t) ==
    /\ To(p, t, IF t = "ask" THEN "deliver" ELSE "idle")
    /\ Arm(p, IF t = "ask" THEN {} ELSE {IF t = "drive" THEN "drive" ELSE "sweep"})

(* A park that throws: the handler goes on to deliver the question.        *)
Throws(p, t) ==
    /\ To(p, t, IF t = "ask" THEN "deliver" ELSE "idle")
    /\ Arm(p, {IF t = "drive" THEN "drive" ELSE "sweep"})

(* Mutant: the newer call of a name replaces the fence of the older one.   *)
FencedNewest(f, c) == {d \in f : d.agent # c.agent} \union {c}

(* A fence is chained: a name stays fenced until every call settled.       *)
Fenced(f, c) == f \union {c}

Init ==
    /\ waiting = NoRecord
    /\ online = Agents /\ briefed = {}
    /\ \E p \in Proc : /\ row = [phase |-> "running", owner |-> p]
                       /\ held = [q \in Proc |-> IF q = p THEN "working" ELSE "none"]
    /\ busy = [p \in Proc |-> FALSE]
    /\ park = [p \in Proc |-> [t \in Thread |-> Resting]]
    /\ wake = [p \in Proc |-> Asleep]
    /\ calls = [p \in Proc |-> {}] /\ fence = [p \in Proc |-> {}]
    /\ due = [p \in Proc |-> {}] /\ recovering = [p \in Proc |-> {}]
    /\ turnedAway = FALSE /\ faults = 0

-----------------------------------------------------------------------------
(* The question *)

(* A GitHub comment is the posted question; a Slack one has to be posted.  *)
(* The sweep set for its seventh day, to escalate it, is left out.         *)
Ask(p) ==
    /\ held[p] = "working" /\ row = [phase |-> "running", owner |-> p]
    /\ ~waiting.open /\ park[p]["ask"].pc = "idle"
    /\ Asker \in online
    /\ briefed = {}        \* bound: one question
    /\ \E posted \in IF SlackConfigured THEN BOOLEAN ELSE {TRUE} :
           waiting' = [NoRecord EXCEPT !.open = TRUE, !.posted = posted]
    /\ To(p, "ask", "save")
    /\ briefed' = {} /\ turnedAway' = FALSE
    /\ UNCHANGED <<row, online, wake, held, busy, calls, fence, due, recovering, faults>>

(* The first reply is kept once the question is posted or being posted.    *)
Reply(p) ==
    /\ waiting.open /\ ~waiting.reply
    /\ waiting.posted \/ waiting.delivery # None
    /\ waiting' = [waiting EXCEPT !.reply = TRUE]
    /\ Arm(p, {"answer"})
    /\ UNCHANGED <<row, online, briefed, park, wake, held, busy, calls, fence, recovering, turnedAway, faults>>

(* A delivery under way in this process is joined; one of another process *)
(* leaves the question to the sweep.                                       *)
Deliver(p, t) ==
    /\ park[p][t].pc = "deliver"
    /\ \/ /\ ~waiting.open \/ waiting.posted
          /\ To(p, t, "idle")
          /\ UNCHANGED <<waiting, due>>
       \/ /\ waiting.open /\ ~waiting.posted /\ waiting.delivery = None
          /\ waiting' = [waiting EXCEPT !.delivery = p]
          /\ To(p, t, "posting")
          /\ UNCHANGED due
       \/ /\ waiting.open /\ ~waiting.posted /\ waiting.delivery # None
          /\ To(p, t, "idle")
          /\ Arm(p, IF waiting.delivery = p THEN {} ELSE {"sweep"})
          /\ UNCHANGED waiting
    /\ UNCHANGED <<row, online, briefed, wake, held, busy, calls, fence, recovering, turnedAway, faults>>

Delivered(p, t) ==
    /\ park[p][t].pc = "posting"
    /\ waiting' = [waiting EXCEPT !.posted = TRUE, !.delivery = None]
    /\ Drain(p, waiting, held)
    /\ To(p, t, "idle")
    /\ UNCHANGED <<row, online, briefed, wake, held, busy, calls, fence, recovering, turnedAway, faults>>

DeliveryFails(p, t) ==
    /\ park[p][t].pc = "posting"
    /\ Fault
    /\ waiting' = [waiting EXCEPT !.delivery = None]
    /\ To(p, t, "idle") /\ Arm(p, {"sweep"})
    /\ UNCHANGED <<row, online, briefed, wake, held, busy, calls, fence, recovering, turnedAway>>

-----------------------------------------------------------------------------
(* Parking *)

(* The sweep's own timer.  It joins a sweep under way; without Slack the   *)
(* sweep returns at once.                                                  *)
SweepFires(p) ==
    /\ "sweep" \in due[p]
    /\ due' = [due EXCEPT ![p] = @ \ {"sweep"}]
    /\ IF SlackConfigured /\ waiting.open /\ park[p]["sweep"].pc = "idle"
       THEN To(p, "sweep", IF waiting.parked THEN "deliver" ELSE "save")
       ELSE UNCHANGED park
    /\ UNCHANGED <<waiting, row, online, briefed, wake, held, busy, calls, fence, recovering, turnedAway, faults>>

DriveFires(p) ==
    /\ "drive" \in due[p]
    /\ due' = [due EXCEPT ![p] = @ \ {"drive"}]
    /\ IF row = [phase |-> "parking", owner |-> p] /\ park[p]["drive"].pc = "idle"
       THEN To(p, "drive", "save")
       ELSE UNCHANGED park
    /\ UNCHANGED <<waiting, row, online, briefed, wake, held, busy, calls, fence, recovering, turnedAway, faults>>

ParkSave(p, t) ==
    LET live == held[p] # "none" IN
    /\ park[p][t].pc = "save"
    /\ park' = [park EXCEPT ![p][t] = [pc |-> "release", at |-> 1, live |-> live]]
    /\ row' = IF live THEN [row EXCEPT !.phase = "parking"] ELSE row
    /\ held' = IF live THEN [held EXCEPT ![p] = "working"] ELSE held
    /\ UNCHANGED <<waiting, online, briefed, wake, busy, calls, fence, due, recovering, turnedAway, faults>>

(* Mutant: the agent after the last one is released as well.               *)
ParkNextPast(p, t) ==
    LET at == park[p][t].at IN
    /\ park[p][t].pc = "release"
    /\ IF waiting.open /\ at <= Len(Team) + 1
       THEN park' = [park EXCEPT ![p][t].at = at + 1] /\ UNCHANGED due
       ELSE Throws(p, t)
    /\ UNCHANGED <<waiting, row, online, briefed, wake, held, busy, calls, fence, recovering, turnedAway, faults>>

(* The next agent is passed over if it was confirmed gone and still is;    *)
(* after the last one the whole team is looked up once more.               *)
ParkNext(p, t) ==
    LET at == park[p][t].at IN
    /\ park[p][t].pc = "release"
    /\ \/ /\ ~waiting.open
          /\ Throws(p, t)
       \/ /\ waiting.open /\ at <= Len(Team)
          /\ UNCHANGED due
          /\ IF Team[at] \in waiting.released \ online
             THEN park' = [park EXCEPT ![p][t].at = at + 1]
             ELSE To(p, t, "grace")
       \/ /\ waiting.open /\ at > Len(Team)
          /\ IF online = {} THEN To(p, t, "mark") /\ UNCHANGED due ELSE Throws(p, t)
    /\ UNCHANGED <<waiting, row, online, briefed, wake, held, busy, calls, fence, recovering, turnedAway, faults>>

AfterCall(pc) == IF pc = "grace" THEN "forced" ELSE "check"

ReleaseLands(p, t) ==
    /\ park[p][t].pc \in {"grace", "forced"}
    /\ online' = online \ {Team[park[p][t].at]}
    /\ To(p, t, "check")
    /\ UNCHANGED <<waiting, row, briefed, wake, held, busy, calls, fence, due, recovering, turnedAway, faults>>

ReleaseFails(p, t) ==
    /\ park[p][t].pc \in {"grace", "forced"}
    /\ Fault
    /\ To(p, t, AfterCall(park[p][t].pc))
    /\ UNCHANGED <<waiting, row, online, briefed, wake, held, busy, calls, fence, due, recovering, turnedAway>>

GraceExpires(p, t) ==
    LET c == [agent |-> Team[park[p][t].at], thread |-> t, kind |-> park[p][t].pc] IN
    /\ park[p][t].pc \in {"grace", "forced"}
    /\ c \notin calls[p]
    /\ Fault
    /\ calls' = [calls EXCEPT ![p] = @ \union {c}]
    /\ fence' = [fence EXCEPT ![p] = Fenced(@, c)]
    /\ To(p, t, AfterCall(park[p][t].pc))
    /\ UNCHANGED <<waiting, row, online, briefed, wake, held, busy, due, recovering, turnedAway>>

(* An abandoned call settles: by now it may do nothing.                    *)
LateRelease(p, c) ==
    /\ c \in calls[p]
    /\ calls' = [calls EXCEPT ![p] = @ \ {c}]
    /\ fence' = [fence EXCEPT ![p] = @ \ {c}]
    /\ wake' = [wake EXCEPT ![p].awaited = @ \ {c}, ![p].seen = @ \ {c}]
    /\ online' \in {online, online \ {c.agent}}
    /\ UNCHANGED <<waiting, row, briefed, park, held, busy, due, recovering, turnedAway, faults>>

(* Mutant: a release that was called counts as confirmed, and after the    *)
(* last one the gate opens without a lookup.                               *)
ParkCheckTrusting(p, t) ==
    LET at == park[p][t].at IN
    /\ park[p][t].pc = "check"
    /\ waiting' = IF waiting.open THEN [waiting EXCEPT !.released = @ \union {Team[at]}] ELSE waiting
    /\ park' = [park EXCEPT ![p][t].pc = IF at = Len(Team) THEN "mark" ELSE "release",
                            ![p][t].at = at + 1]
    /\ UNCHANGED <<row, online, briefed, wake, held, busy, calls, fence, due, recovering, turnedAway, faults>>

ParkCheck(p, t) ==
    LET a == Team[park[p][t].at] IN
    /\ park[p][t].pc = "check"
    /\ IF a \in online
       THEN Throws(p, t) /\ UNCHANGED waiting
       ELSE /\ waiting' = IF waiting.open THEN [waiting EXCEPT !.released = @ \union {a}] ELSE waiting
            /\ park' = [park EXCEPT ![p][t].pc = "release", ![p][t].at = @ + 1]
            /\ UNCHANGED due
    /\ UNCHANGED <<row, online, briefed, wake, held, busy, calls, fence, recovering, turnedAway, faults>>

(* The record gives up its slot at once, its row with the next save.       *)
ParkMark(p, t) ==
    /\ park[p][t].pc = "mark"
    /\ IF waiting.open /\ waiting.released = Agents
       THEN /\ waiting' = [waiting EXCEPT !.parked = TRUE]
            /\ To(p, t, "saved")
            /\ held' = IF park[p][t].live /\ held[p] = "working"
                       THEN [held EXCEPT ![p] = "waiting"] ELSE held
            /\ UNCHANGED due
       ELSE Throws(p, t) /\ UNCHANGED <<waiting, held>>
    /\ UNCHANGED <<row, online, briefed, wake, busy, calls, fence, recovering, turnedAway, faults>>

ParkSaved(p, t) ==
    /\ park[p][t].pc = "saved"
    /\ row' = IF park[p][t].live THEN [row EXCEPT !.phase = "waiting"] ELSE row
    /\ To(p, t, "complete")
    /\ UNCHANGED <<waiting, online, briefed, wake, held, busy, calls, fence, due, recovering, turnedAway, faults>>

ParkComplete(p, t) ==
    /\ park[p][t].pc = "complete"
    /\ held' = [held EXCEPT ![p] = "none"]
    /\ To(p, t, After(t))
    /\ Drain(p, waiting, held')
    /\ UNCHANGED <<waiting, row, online, briefed, wake, busy, calls, fence, recovering, turnedAway, faults>>

(* Other work takes a slot of the batch, gives it up, and drains later.    *)
OtherStarts(p) ==
    /\ p \in Sharing /\ ~busy[p] /\ CanStart(p, held)
    /\ Fault        \* bound: a wake may lose its slot a few times, not for ever
    /\ busy' = [busy EXCEPT ![p] = TRUE]
    /\ UNCHANGED <<waiting, row, online, briefed, park, wake, held, calls, fence, due, recovering, turnedAway>>

OtherEnds(p) ==
    /\ busy[p]
    /\ busy' = [busy EXCEPT ![p] = FALSE]
    /\ Arm(p, {"drain"})
    /\ UNCHANGED <<waiting, row, online, briefed, park, wake, held, calls, fence, recovering, turnedAway, faults>>

DrainFires(p) ==
    /\ "drain" \in due[p]
    /\ due' = [due EXCEPT ![p] = (@ \ {"drain"}) \union
                   IF Answered /\ CanStart(p, held) THEN {"answer"} ELSE {}]
    /\ UNCHANGED <<waiting, row, online, briefed, park, wake, held, busy, calls, fence, recovering, turnedAway, faults>>

-----------------------------------------------------------------------------
(* Waking *)

(* Mutant: a refused claim sets no retry.                                  *)
WakeCallUnarmed(p, s) ==
    /\ s \in due[p] \intersect {"answer", "retry"}
    /\ wake[p].pc # "idle" \/ ~WakeClaimable(p)
    /\ due' = [due EXCEPT ![p] = @ \ {s}]
    /\ UNCHANGED <<waiting, row, online, briefed, park, wake, held, busy, calls, fence, recovering, turnedAway, faults>>

(* A call that finds a wake of this process under way joins it.            *)
WakeCall(p, s) ==
    /\ s \in due[p] \intersect {"answer", "retry"}
    /\ wake[p].pc # "idle" \/ ~WakeClaimable(p)
    /\ due' = [due EXCEPT ![p] = (@ \ {s}) \union
                   IF wake[p].pc = "idle" /\ Answered THEN {"retry"} ELSE {}]
    /\ UNCHANGED <<waiting, row, online, briefed, park, wake, held, busy, calls, fence, recovering, turnedAway, faults>>

WakeClaim(p, s) ==
    /\ s \in due[p] \intersect {"answer", "retry"}
    /\ wake[p].pc = "idle" /\ WakeClaimable(p)
    /\ waiting' = [waiting EXCEPT !.wake = p]
    /\ wake' = [wake EXCEPT ![p].pc = "claimed"]
    /\ due' = [due EXCEPT ![p] = @ \ {s}]
    /\ UNCHANGED <<row, online, briefed, park, held, busy, calls, fence, recovering, turnedAway, faults>>

(* The lease of a live owner runs out and another process claims it, but   *)
(* not between a renewal and the start it precedes.                        *)
WakeTaken(p, q) ==
    /\ p # q /\ waiting.open /\ waiting.wake = q
    /\ wake[q].pc # "start"
    /\ wake[p].pc = "idle" /\ "retry" \in due[p]
    /\ Fault
    /\ waiting' = [waiting EXCEPT !.wake = p]
    /\ wake' = [wake EXCEPT ![p].pc = "claimed"]
    /\ due' = [due EXCEPT ![p] = @ \ {"retry"}]
    /\ UNCHANGED <<row, online, briefed, park, held, busy, calls, fence, recovering, turnedAway>>

WakeEnds(p) == wake' = [wake EXCEPT ![p] = Asleep]

(* The issue left the factory's scope: nobody is woken.                    *)
WakeCancelled(p) ==
    /\ wake[p].pc = "claimed" /\ OwnsWake(p)
    /\ waiting' = NoRecord
    /\ WakeEnds(p)
    /\ UNCHANGED <<row, online, briefed, park, held, busy, calls, fence, due, recovering, turnedAway, faults>>

(* No room in the batch: the wake is given up and nothing retries it.  The *)
(* slot may be freed before the lease is back.                             *)
WakeFindsFull(p) ==
    /\ wake[p].pc = "claimed" /\ ~CanStart(p, held)
    /\ wake' = [wake EXCEPT ![p].pc = "full"]
    /\ turnedAway' = TRUE
    /\ UNCHANGED <<waiting, row, online, briefed, park, held, busy, calls, fence, due, recovering, faults>>

WakeTurnedAway(p) ==
    /\ wake[p].pc = "full"
    /\ waiting' = WakeReleased(p)
    /\ WakeEnds(p)
    /\ UNCHANGED <<row, online, briefed, park, held, busy, calls, fence, due, recovering, turnedAway, faults>>

WakeFindsRoom(p) ==
    /\ wake[p].pc = "claimed" /\ CanStart(p, held)
    /\ wake' = [wake EXCEPT ![p].pc = "room"]
    /\ UNCHANGED <<waiting, row, online, briefed, park, held, busy, calls, fence, due, recovering, turnedAway, faults>>

(* A row that waits for a human is promoted only if the batch has room.    *)
Promotable(p) ==
    /\ row.owner \in {None, p}
    /\ row.phase = "waiting" => Cardinality({q \in Proc : busy[q]}) < BatchSize

(* The saves of a row are serialised: a park's save goes first.            *)
WakeRow(p) ==
    /\ wake[p].pc = "room"
    /\ \A t \in Thread : park[p][t].pc # "saved"
    /\ IF Promotable(p)
       THEN /\ row' = [phase |-> "dispatching", owner |-> p]
            /\ held' = [held EXCEPT ![p] = "working"]
            /\ wake' = [wake EXCEPT ![p].pc = "rowed"]
            /\ UNCHANGED <<waiting, due>>
       ELSE /\ waiting' = WakeReleased(p)
            /\ Arm(p, {"retry"}) /\ WakeEnds(p)
            /\ UNCHANGED <<row, held>>
    /\ UNCHANGED <<online, briefed, park, busy, calls, fence, recovering, turnedAway, faults>>

(* Mutant: every agent of the record is started, whoever is online.        *)
WakeRosterUnread(p) ==
    /\ wake[p].pc = "rowed" /\ OwnsWake(p)
    /\ wake' = [wake EXCEPT ![p].pc = "team"]
    /\ UNCHANGED <<waiting, row, online, briefed, park, held, busy, calls, fence, due, recovering, turnedAway, faults>>

WakeRoster(p) ==
    /\ wake[p].pc = "rowed" /\ OwnsWake(p)
    /\ wake' = [wake EXCEPT ![p].pc = "team", ![p].roster = online]
    /\ UNCHANGED <<waiting, row, online, briefed, park, held, busy, calls, fence, due, recovering, turnedAway, faults>>

(* A name on the roster was started by an earlier wake and is adopted;     *)
(* another is started once the releases now fenced have settled.           *)
WakeAgent(p) ==
    LET a == Team[wake[p].at] IN
    /\ wake[p].pc = "team" /\ wake[p].at <= Len(Team) /\ OwnsWake(p)
    /\ wake' = IF a \in wake[p].roster
               THEN [wake EXCEPT ![p].resumed = @ \union {a}, ![p].at = @ + 1]
               ELSE [wake EXCEPT ![p].pc = "start",
                                 ![p].awaited = {c \in fence[p] : c.agent = a},
                                 ![p].seen = {c \in calls[p] : c.agent = a}]
    /\ UNCHANGED <<waiting, row, online, briefed, park, held, busy, calls, fence, due, recovering, turnedAway, faults>>

WakeStart(p) ==
    LET a == Team[wake[p].at] IN
    /\ wake[p].pc = "start" /\ wake[p].awaited = {}
    /\ online' = online \union {a}
    /\ briefed' = briefed \union {a}
    /\ wake' = [wake EXCEPT ![p].pc = "team", ![p].seen = {},
                            ![p].resumed = @ \union {a}, ![p].at = @ + 1]
    /\ UNCHANGED <<waiting, row, park, held, busy, calls, fence, due, recovering, turnedAway, faults>>

(* The fence outlasts its grace, or the fleet refuses the start.           *)
WakeStartFails(p) ==
    /\ wake[p].pc = "start"
    /\ \/ wake[p].awaited # {} /\ UNCHANGED faults
       \/ Fault
    /\ wake' = [wake EXCEPT ![p].pc = "undo", ![p].awaited = {}, ![p].seen = {}]
    /\ UNCHANGED <<waiting, row, online, briefed, park, held, busy, calls, fence, due, recovering, turnedAway>>

(* The agents resumed so far are released, as far as the fleet obeys.      *)
WakeUndo(p) ==
    /\ wake[p].pc = "undo"
    /\ \E S \in SUBSET wake[p].resumed : online' = online \ S
    /\ held' = [held EXCEPT ![p] = "none"]
    /\ waiting' = WakeReleased(p)
    /\ Arm(p, {"retry"}) /\ WakeEnds(p)
    /\ UNCHANGED <<row, briefed, park, busy, calls, fence, recovering, turnedAway, faults>>

WakeDone(p) ==
    /\ wake[p].pc = "team" /\ wake[p].at > Len(Team) /\ OwnsWake(p)
    /\ waiting' = NoRecord
    /\ row' = IF row.owner = p THEN [row EXCEPT !.phase = "running"] ELSE row
    /\ WakeEnds(p)
    /\ UNCHANGED <<online, briefed, park, held, busy, calls, fence, due, recovering, turnedAway, faults>>

(* A renewal finds that the lease has moved: the wake leaves everything.   *)
WakeLost(p) ==
    /\ wake[p].pc \in {"rowed", "team"} /\ ~OwnsWake(p)
    /\ held' = [held EXCEPT ![p] = "none"]
    /\ Arm(p, {"retry"}) /\ WakeEnds(p)
    /\ UNCHANGED <<waiting, row, online, briefed, park, busy, calls, fence, recovering, turnedAway, faults>>

-----------------------------------------------------------------------------
(* Crashes *)

Dying(p, h) == IF h = p THEN Gone ELSE h

(* The process restarts under a new identity; its calls to the fleet have  *)
(* landed or never will.                                                   *)
Crash(p) ==
    LET called == {c.agent : c \in calls[p]} \union
                  {Team[park[p][t].at] : t \in {u \in Thread : park[p][u].pc \in {"grace", "forced"}}}
    IN
    /\ Fault
    /\ waiting' = [waiting EXCEPT !.delivery = Dying(p, @), !.wake = Dying(p, @)]
    /\ row' = [row EXCEPT !.owner = Dying(p, @)]
    /\ \E S \in SUBSET called : online' = online \ S
    /\ park' = [park EXCEPT ![p] = [t \in Thread |-> Resting]]
    /\ WakeEnds(p)
    /\ held' = [held EXCEPT ![p] = "none"] /\ busy' = [busy EXCEPT ![p] = FALSE]
    /\ calls' = [calls EXCEPT ![p] = {}] /\ fence' = [fence EXCEPT ![p] = {}]
    /\ due' = [due EXCEPT ![p] = {"sweep", "answer"}]
    /\ recovering' = [recovering EXCEPT ![p] = {}]
    /\ UNCHANGED <<briefed, turnedAway>>

(* The leases of a dead process run out.                                   *)
Lapse ==
    /\ \/ /\ waiting.delivery = Gone
          /\ waiting' = [waiting EXCEPT !.delivery = None]
          /\ UNCHANGED row
       \/ /\ waiting.wake = Gone
          /\ waiting' = [waiting EXCEPT !.wake = None]
          /\ UNCHANGED row
       \/ /\ row.owner = Gone
          /\ row' = [row EXCEPT !.owner = None]
          /\ UNCHANGED waiting
    /\ UNCHANGED <<online, briefed, park, wake, held, busy, calls, fence, due, recovering, turnedAway, faults>>

(* A process takes over the row of a dead one.                             *)
Recover(p) ==
    /\ row.owner = None /\ row.phase \in {"running", "parking"}
    /\ row' = [row EXCEPT !.owner = p]
    /\ held' = [held EXCEPT ![p] = "working"]
    /\ Arm(p, IF row.phase = "parking" THEN {"drive"} ELSE {})
    /\ UNCHANGED <<waiting, online, briefed, park, wake, busy, calls, fence, recovering, turnedAway, faults>>

-----------------------------------------------------------------------------
(* The dispatch driver beside it *)

(* A teammate dies while its team works: the exit handler sees no park.    *)
AgentExits(p, a) ==
    /\ a \in Exiting \intersect online /\ held[p] # "none"
    /\ row = [phase |-> "running", owner |-> p]
    /\ ~waiting.open \/ a # Asker
    /\ Fault
    /\ online' = online \ {a}
    /\ recovering' = [recovering EXCEPT ![p] = @ \union {a}]
    /\ UNCHANGED <<waiting, row, briefed, park, wake, held, busy, calls, fence, due, turnedAway>>

(* The handler brings it back with the task it had; the row of an          *)
(* implementer is saved.                                                   *)
ExitRecovered(p, a) ==
    /\ a \in recovering[p]
    /\ recovering' = [recovering EXCEPT ![p] = @ \ {a}]
    /\ IF a \in online
       THEN UNCHANGED <<row, online, briefed>>
       ELSE /\ online' = online \union {a}
            /\ briefed' = briefed \ {a}
            /\ \/ UNCHANGED row
               \/ row.owner = p /\ row' = [row EXCEPT !.phase = "running"]
    /\ UNCHANGED <<waiting, park, wake, held, busy, calls, fence, due, turnedAway, faults>>

(* A row found dispatching is dispatched again: its missing agents are     *)
(* started with the task of the dispatch, or taken to be there already.    *)
ResumeDispatch(p) ==
    /\ row = [phase |-> "dispatching", owner |-> None]
    /\ \E S \in SUBSET (Agents \ online) :
           /\ online' = online \union S
           /\ briefed' = briefed \ S
    /\ row' = [phase |-> "running", owner |-> p]
    /\ held' = [held EXCEPT ![p] = "working"]
    /\ UNCHANGED <<waiting, park, wake, busy, calls, fence, due, recovering, turnedAway, faults>>

-----------------------------------------------------------------------------
(* Specification *)

ParkStep(p, t) ==
    \/ ParkSave(p, t) \/ ParkNext(p, t) \/ ReleaseLands(p, t) \/ ParkCheck(p, t)
    \/ ParkMark(p, t) \/ ParkSaved(p, t) \/ ParkComplete(p, t)
    \/ Deliver(p, t) \/ Delivered(p, t)

ParkFault(p, t) == ReleaseFails(p, t) \/ GraceExpires(p, t) \/ DeliveryFails(p, t)

WakeStep(p) ==
    \/ WakeFindsFull(p) \/ WakeTurnedAway(p) \/ WakeFindsRoom(p) \/ WakeRow(p)
    \/ WakeRoster(p) \/ WakeAgent(p) \/ WakeStart(p)
    \/ wake[p].awaited # {} /\ WakeStartFails(p)
    \/ WakeUndo(p) \/ WakeDone(p) \/ WakeLost(p)

Next ==
    \/ \E p \in Proc :
          \/ Ask(p) \/ Reply(p) \/ SweepFires(p) \/ DriveFires(p)
          \/ OtherStarts(p) \/ OtherEnds(p) \/ DrainFires(p)
          \/ \E t \in Thread : ParkStep(p, t) \/ ParkFault(p, t)
          \/ \E c \in calls[p] : LateRelease(p, c)
          \/ \E s \in {"answer", "retry"} : WakeCall(p, s) \/ WakeClaim(p, s)
          \/ \E q \in Proc : WakeTaken(p, q)
          \/ WakeStep(p) \/ WakeStartFails(p) \/ WakeCancelled(p)
          \/ Crash(p) \/ Recover(p)
    \/ Lapse

Fairness ==
    /\ \A p \in Proc :
          /\ \A t \in Thread : WF_vars(ParkStep(p, t))
          /\ \A c \in Call : WF_vars(LateRelease(p, c))
          /\ \A s \in {"answer", "retry"} : WF_vars(WakeCall(p, s)) /\ SF_vars(WakeClaim(p, s))
          /\ WF_vars(WakeStep(p))
          /\ WF_vars(SweepFires(p)) /\ WF_vars(DriveFires(p)) /\ WF_vars(DrainFires(p))
          /\ WF_vars(Recover(p))
    /\ WF_vars(Lapse)

Spec == Init /\ [][Next]_vars /\ Fairness

(* The same with the actions of the dispatch driver.                       *)
DriverNext ==
    \/ Next
    \/ \E p \in Proc, a \in Agents : AgentExits(p, a) \/ ExitRecovered(p, a)
    \/ \E p \in Proc : ResumeDispatch(p)

DriverSpec == Init /\ [][DriverNext]_vars

-----------------------------------------------------------------------------
(* Properties *)

(* No wake starts a worker under a name that is online: the park of one    *)
(* process, the wakes and the takeovers of others, and the releases still  *)
(* in flight leave no second worker (the adoption of online names in       *)
(* #resumeWaitingClarification, with the lease renewed before each start). *)
NoSecondWorker == [][\A p \in Proc : WakeStart(p) => Team[wake[p].at] \notin online]_vars

(* A name is not started while any release is in flight that its process   *)
(* had walked away from when the wake came to it, the older of two calls   *)
(* no less than the newer (#awaitAbandonedClarificationRelease).           *)
FencedStart == [][\A p \in Proc : WakeStart(p) => wake[p].seen = {}]_vars

(* parkedAtMs is the wake gate: once it is set nobody of the team that was *)
(* released is online, only agents that a wake has started since, whoever  *)
(* parked the team and however often (#releaseAgentsForClarification).     *)
GateShut == waiting.parked => online \subseteq briefed

(* A wake that reports the team restarted has restarted all of it with the *)
(* answer: a name it adopts was started by an earlier wake.                *)
AnsweredTeam == [][\A p \in Proc : WakeDone(p) => Agents \subseteq briefed]_vars

(* A reserved question ends in a parked team although releases fail, are   *)
(* abandoned, and the process crashes: a park that threw is tried again.   *)
TeamParks == waiting.open ~> (~waiting.open \/ waiting.parked)

(* An answer wakes the team, whatever fails on the way, unless its wake    *)
(* was turned away for want of a batch slot.                               *)
AnswerWakes == Answered ~> (~Answered \/ turnedAway)
=============================================================================
