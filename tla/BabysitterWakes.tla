--------------------------- MODULE BabysitterWakes ---------------------------
(***************************************************************************)
(* How events on a pull request wake its babysitter.                       *)
(*                                                                         *)
(* The subscription service hands out deliveries until they are accepted.  *)
(* Factory queues a wake, writes it into the babysitter's durable session, *)
(* accepts the delivery and later injects one prompt for all that is       *)
(* queued, submitting it with a separate keystroke.  A babysitter fences   *)
(* its destructive git work: it asks, waits for the acknowledgement, works *)
(* and says when it is done; no keystroke may land in between.  Factory    *)
(* may crash, the team may be parked for a human, the babysitter may be    *)
(* restarted and the pull request closed, all at any point.                *)
(***************************************************************************)
EXTENDS FiniteSets, Naturals

CONSTANTS Delivery,   \* deliveries of the service, each an event of the pull request
          Overlaps,   \* the babysitter's next message or a flush may overtake the
                      \* handler of its last one; else handlers are quick
          Faults      \* bound: crashes, failed calls, parkings and critical sections

VARIABLES service,    \* per delivery: not there yet, due, or accepted
          session,    \* the durable session
          owner,      \* Factory's in-memory ownership
          wake,       \* Factory's in-memory wake of the babysitter
          flight,     \* where the flush of the wake stands, and what it delivers
          route,      \* where the routing of a delivery stands
          asks, ends, \* handlers of the babysitter's two messages
          agent,      \* the babysitter, as it sees its critical section
          submitted,  \* deliveries the babysitter was woken for
          human,      \* the work unit waits for a human
          closing,    \* the retirement of a closed pull request
          faults      \* those of Faults so far

wakeVars == <<service, session, owner, wake, flight, route, asks, ends, agent, submitted,
              human, closing, faults>>

Session == [open : BOOLEAN, pending : SUBSET Delivery, claims : SUBSET Delivery,
            critical : BOOLEAN]
NoSession == [open |-> FALSE, pending |-> {}, claims |-> {}, critical |-> FALSE]

(* held is the ownership of the pull request; noted is what the tracked    *)
(* babysitter's spec says is pending, which every write of the session     *)
(* copies.                                                                 *)
Owner == [held : BOOLEAN, claims : SUBSET Delivery, noted : SUBSET Delivery, fenced : BOOLEAN]
Unowned == [held |-> FALSE, claims |-> {}, noted |-> {}, fenced |-> FALSE]

(* The kinds of event are told apart by the deliveries they stand for.     *)
Wake == [kinds : SUBSET Delivery, delivering : SUBSET Delivery, timer : BOOLEAN,
         deferred : BOOLEAN, suspended : BOOLEAN]
NoWake == [kinds |-> {}, delivering |-> {}, timer |-> FALSE, deferred |-> FALSE,
           suspended |-> FALSE]

NoFlight == [pc |-> "none", kinds |-> {}]
NoRoute == [pc |-> "none", delivery |-> {}]

TypeOK ==
    /\ service \in [Delivery -> {"none", "due", "accepted"}]
    /\ session \in Session /\ owner \in Owner /\ wake \in Wake
    /\ flight \in [pc : {"none", "inject", "settle"}, kinds : SUBSET Delivery]
    /\ route.pc \in {"none", "persist", "arm", "claim", "accept", "accepted"}
    /\ route.delivery \subseteq Delivery /\ Cardinality(route.delivery) <= 1
    /\ asks \in {"none", "sent", "persist", "acknowledge"}
    /\ ends \in {"none", "sent", "clear", "persist", "submit", "settle"}
    /\ agent \in {"free", "asked", "working"}
    /\ submitted \subseteq Delivery /\ human \in BOOLEAN
    /\ closing \in {"none", "cancel", "closed"} /\ faults \in 0 .. Faults

-----------------------------------------------------------------------------
(* Helpers *)

Fault == faults < Faults /\ faults' = faults + 1

(* The session is written from memory as it is when the write happens.     *)
Written(o) == [open |-> TRUE, pending |-> o.noted, claims |-> o.claims, critical |-> o.fenced]

Noting(w) == [owner EXCEPT !.noted = w.kinds \union w.delivering]

(* A timer is set unless something else will look at the wake.             *)
Schedule(w) == IF flight # NoFlight \/ w.deferred \/ w.suspended THEN w ELSE [w EXCEPT !.timer = TRUE]

(* A wake that waits for a human is suspended, the others are not.         *)
Suspends(w) == [w EXCEPT !.suspended = human]

(* What a flush leaves behind is flushed again.                            *)
Rescheduled(w) ==
    IF w.kinds # {} /\ ~w.deferred /\ ~w.suspended /\ ~owner.fenced
    THEN [w EXCEPT !.timer = TRUE] ELSE w

Init ==
    /\ service = [d \in Delivery |-> "none"]
    /\ owner = [Unowned EXCEPT !.held = TRUE] /\ session = [NoSession EXCEPT !.open = TRUE]
    /\ wake = NoWake /\ flight = NoFlight /\ route = NoRoute /\ asks = "none" /\ ends = "none"
    /\ agent = "free" /\ submitted = {} /\ human = FALSE /\ closing = "none" /\ faults = 0

Happens(d) ==
    /\ service[d] = "none"
    /\ service' = [service EXCEPT ![d] = "due"]
    /\ UNCHANGED <<session, owner, wake, flight, route, asks, ends, agent, submitted, human,
                   closing, faults>>

-----------------------------------------------------------------------------
(* A delivery is claimed, queued, written down and accepted *)

(* One whose claim is already held goes straight to its acceptance: that   *)
(* is also how a retry after a restart or a failed acceptance proceeds.    *)
RouteClaims(d) ==
    /\ owner.held /\ route = NoRoute /\ service[d] = "due"
    /\ IF d \in owner.claims
       THEN route' = [pc |-> "accept", delivery |-> {d}] /\ UNCHANGED wake /\ UNCHANGED owner
       ELSE LET w == [wake EXCEPT !.kinds = @ \union {d}] IN
            /\ wake' = w /\ owner' = Noting(w)
            /\ route' = [pc |-> "persist", delivery |-> {d}]
    /\ UNCHANGED <<service, session, flight, asks, ends, agent, submitted, human, closing, faults>>

(* The write was decided on while the pull request was owned; it is not    *)
(* decided on again.                                                       *)
RoutePersists ==
    /\ route.pc = "persist"
    /\ route' = [route EXCEPT !.pc = "arm"]
    /\ session' = Written(owner)
    /\ UNCHANGED <<service, owner, wake, flight, asks, ends, agent, submitted, human, closing, faults>>

RouteArms ==
    LET w == Suspends(wake) IN
    /\ route.pc = "arm"
    /\ route' = IF owner.held THEN [route EXCEPT !.pc = "claim"] ELSE NoRoute
    /\ wake' = IF owner.fenced \/ ~owner.held THEN w ELSE Schedule(w)
    /\ UNCHANGED <<service, session, owner, flight, asks, ends, agent, submitted, human, closing, faults>>

RouteHolds ==
    LET o == [owner EXCEPT !.claims = @ \union route.delivery] IN
    /\ route.pc = "claim"
    /\ IF owner.held THEN owner' = o /\ session' = Written(o) /\ route' = [route EXCEPT !.pc = "accept"]
       ELSE route' = NoRoute /\ UNCHANGED <<owner, session>>
    /\ UNCHANGED <<service, wake, flight, asks, ends, agent, submitted, human, closing, faults>>

RouteAccepts ==
    /\ route.pc = "accept"
    /\ service' = [d \in Delivery |-> IF d \in route.delivery THEN "accepted" ELSE service[d]]
    /\ route' = [route EXCEPT !.pc = "accepted"]
    /\ UNCHANGED <<session, owner, wake, flight, asks, ends, agent, submitted, human, closing, faults>>

(* The call fails and the claim stays, or only its answer is lost: the     *)
(* retry that follows is answered as the first one was.                    *)
RouteFails ==
    /\ route.pc = "accept"
    /\ Fault
    /\ route' = NoRoute
    /\ UNCHANGED <<service, session, owner, wake, flight, asks, ends, agent, submitted, human, closing>>

RouteAccepted ==
    LET o == [owner EXCEPT !.claims = @ \ route.delivery] IN
    /\ route.pc = "accepted"
    /\ IF owner.held THEN owner' = o /\ session' = Written(o) ELSE UNCHANGED <<owner, session>>
    /\ route' = NoRoute
    /\ UNCHANGED <<service, wake, flight, asks, ends, agent, submitted, human, closing, faults>>

-----------------------------------------------------------------------------
(* The flush of a wake *)

FlushFires ==
    LET w == [Suspends(wake) EXCEPT !.timer = FALSE]
        d == [w EXCEPT !.delivering = w.kinds, !.kinds = {}] IN
    /\ owner.held /\ wake.timer /\ flight = NoFlight /\ (Overlaps \/ ends # "settle")
    /\ IF w.kinds = {} \/ w.suspended \/ owner.fenced
       THEN wake' = Rescheduled(w) /\ UNCHANGED <<owner, session, flight>>
       ELSE wake' = d /\ owner' = Noting(d) /\ session' = Written(Noting(d)) /\ flight' = [pc |-> "inject", kinds |-> w.kinds]
    /\ UNCHANGED <<service, route, asks, ends, agent, submitted, human, closing, faults>>

(* The prompt has been injected.  If a fence has come up meanwhile its     *)
(* keystroke is kept for the end of the critical section.                  *)
Injected ==
    /\ flight.pc = "inject"
    /\ IF owner.fenced
       THEN /\ wake' = [wake EXCEPT !.deferred = TRUE] /\ flight' = NoFlight
            /\ UNCHANGED submitted
       ELSE /\ submitted' = submitted \union flight.kinds /\ flight' = [flight EXCEPT !.pc = "settle"]
            /\ UNCHANGED wake
    /\ UNCHANGED <<service, session, owner, route, asks, ends, agent, human, closing, faults>>

(* What a failed call did not deliver is queued again.                     *)
Requeued(w, kinds) == [w EXCEPT !.kinds = @ \union kinds, !.delivering = {}]

InjectFails ==
    LET w == Requeued(wake, flight.kinds) IN
    /\ flight.pc = "inject"
    /\ Fault
    /\ wake' = Rescheduled(w) /\ owner' = Noting(w) /\ session' = Written(Noting(w))
    /\ flight' = NoFlight
    /\ UNCHANGED <<service, route, asks, ends, agent, submitted, human, closing>>

FlushSettles ==
    LET w == [wake EXCEPT !.delivering = {}] IN
    /\ flight.pc = "settle"
    /\ wake' = Rescheduled(w) /\ owner' = Noting(w) /\ session' = Written(Noting(w))
    /\ flight' = NoFlight
    /\ UNCHANGED <<service, route, asks, ends, agent, submitted, human, closing, faults>>

-----------------------------------------------------------------------------
(* The critical section of the babysitter *)

AgentAsks ==
    /\ agent = "free" /\ asks = "none" /\ (Overlaps \/ ends = "none") /\ ~human /\ closing = "none"
    /\ Fault
    /\ agent' = "asked" /\ asks' = "sent"
    /\ UNCHANGED <<service, session, owner, wake, flight, route, ends, submitted, human, closing>>

(* The fence goes up before anything is awaited.                           *)
AskArrives ==
    /\ owner.held /\ asks = "sent"
    /\ owner' = [owner EXCEPT !.fenced = TRUE] /\ asks' = "persist"
    /\ UNCHANGED <<service, session, wake, flight, route, ends, agent, submitted, human, closing, faults>>

AskPersists ==
    /\ asks = "persist"
    /\ IF owner.held THEN session' = Written(owner) /\ asks' = "acknowledge"
       ELSE asks' = "none" /\ UNCHANGED session
    /\ UNCHANGED <<service, owner, wake, flight, route, ends, agent, submitted, human, closing, faults>>

AskAcknowledged ==
    /\ asks = "acknowledge"
    /\ agent' = IF agent = "asked" THEN "working" ELSE agent
    /\ asks' = "none"
    /\ UNCHANGED <<service, session, owner, wake, flight, route, ends, submitted, human, closing, faults>>

AgentDone ==
    /\ agent = "working" /\ ends = "none"
    /\ agent' = "free" /\ ends' = "sent"
    /\ UNCHANGED <<service, session, owner, wake, flight, route, asks, submitted, human, closing, faults>>

EndArrives ==
    /\ owner.held /\ ends = "sent"
    /\ ends' = "clear"
    /\ UNCHANGED <<service, session, owner, wake, flight, route, asks, agent, submitted, human,
                   closing, faults>>

EndClears ==
    /\ ends = "clear"
    /\ owner' = [owner EXCEPT !.fenced = FALSE] /\ ends' = "persist"
    /\ UNCHANGED <<service, session, wake, flight, route, asks, agent, submitted, human, closing, faults>>

EndPersists ==
    /\ ends = "persist"
    /\ IF owner.held THEN session' = Written(owner) /\ ends' = "submit"
       ELSE ends' = "none" /\ UNCHANGED session
    /\ UNCHANGED <<service, owner, wake, flight, route, asks, agent, submitted, human, closing, faults>>

(* The deferred keystroke is sent, and what came in meanwhile is flushed.  *)
EndSubmits ==
    LET w == Suspends(wake) IN
    /\ ends = "submit"
    /\ IF w.deferred /\ ~w.suspended
       THEN /\ submitted' = submitted \union w.delivering
            /\ wake' = [w EXCEPT !.deferred = FALSE] /\ ends' = "settle"
       ELSE /\ wake' = IF w.kinds # {} THEN Schedule(w) ELSE w
            /\ ends' = "none" /\ UNCHANGED submitted
    /\ UNCHANGED <<service, session, owner, flight, route, asks, agent, human, closing, faults>>

EndSettles ==
    LET w == [wake EXCEPT !.delivering = {}] IN
    /\ ends = "settle"
    /\ IF owner.held
       THEN /\ owner' = Noting(w) /\ session' = Written(Noting(w))
            /\ wake' = IF w.kinds # {} THEN Schedule(w) ELSE w
       ELSE UNCHANGED <<owner, session, wake>>
    /\ ends' = "none"
    /\ UNCHANGED <<service, flight, route, asks, agent, submitted, human, closing, faults>>

-----------------------------------------------------------------------------
(* The babysitter is parked, restarted, retired; Factory crashes *)

(* The team waits for a human, between two critical sections.              *)
Parks ==
    /\ ~human /\ agent = "free" /\ asks = "none" /\ ends = "none" /\ closing = "none"
    /\ Fault
    /\ human' = TRUE
    /\ UNCHANGED <<service, session, owner, wake, flight, route, asks, ends, agent, submitted, closing>>

(* A babysitter that is started again has no critical section and no       *)
(* prompt: its fence is taken down and what was being delivered is queued. *)
Retarget(waits) ==
    LET w == IF wake.deferred THEN [Requeued(wake, wake.delivering) EXCEPT !.deferred = FALSE]
             ELSE wake
        kept == [w EXCEPT !.suspended = waits, !.timer = FALSE]
        o == [owner EXCEPT !.fenced = FALSE, !.noted = kept.kinds \union kept.delivering] IN
    /\ wake' = IF kept.kinds # {} THEN Schedule(kept) ELSE kept
    /\ owner' = o /\ session' = Written(o)

(* The answer promotes the work unit and resumes the team.                 *)
Resumes ==
    /\ human /\ owner.held /\ closing = "none"
    /\ human' = FALSE
    /\ Retarget(FALSE)
    /\ UNCHANGED <<service, flight, route, asks, ends, agent, submitted, closing, faults>>

(* A wake that cannot be injected for long enough restarts its babysitter. *)
Recovers ==
    /\ owner.held /\ flight.pc = "inject" /\ agent = "free" /\ asks = "none" /\ ends = "none" /\ ~human
    /\ Fault
    /\ LET w == Requeued(wake, flight.kinds)
           o == [owner EXCEPT !.fenced = FALSE, !.noted = w.kinds] IN
       /\ wake' = [w EXCEPT !.timer = TRUE] /\ owner' = o /\ session' = Written(o)
    /\ flight' = NoFlight
    /\ UNCHANGED <<service, route, asks, ends, agent, submitted, human, closing>>

CancelBegins ==
    /\ owner.held /\ closing = "none"
    /\ closing' = "cancel" /\ wake' = NoWake /\ flight' = NoFlight
    /\ owner' = [owner EXCEPT !.fenced = FALSE, !.noted = {}]
    /\ UNCHANGED <<service, session, route, asks, ends, agent, submitted, human, faults>>

CancelEnds ==
    /\ closing = "cancel" /\ owner.held
    /\ closing' = "closed" /\ owner' = Unowned /\ session' = NoSession
    /\ UNCHANGED <<service, wake, flight, route, asks, ends, agent, submitted, human, faults>>

Crashes ==
    /\ owner.held
    /\ Fault
    /\ owner' = Unowned /\ wake' = NoWake /\ flight' = NoFlight /\ route' = NoRoute
    /\ asks' = IF asks = "sent" THEN asks ELSE "none"
    /\ ends' = IF ends = "sent" THEN ends ELSE "none"
    /\ UNCHANGED <<service, session, agent, submitted, human, closing>>

(* The session is restored with its fence, its claims and its wake, or     *)
(* discarded if the pull request is not open any more.                     *)
RestoresClosed ==
    /\ ~owner.held /\ closing = "cancel"
    /\ session' = NoSession /\ closing' = "closed"
    /\ UNCHANGED <<service, owner, wake, flight, route, asks, ends, agent, submitted, human, faults>>

Restores ==
    /\ ~owner.held /\ closing = "none" /\ session.open
    /\ owner' = [held |-> TRUE, claims |-> session.claims, noted |-> session.pending,
                 fenced |-> session.critical]
    /\ wake' = [NoWake EXCEPT !.kinds = session.pending, !.suspended = human /\ session.pending # {},
                              !.timer = session.pending # {} /\ ~human /\ ~session.critical]
    /\ UNCHANGED <<service, session, flight, route, asks, ends, agent, submitted, human, closing, faults>>

-----------------------------------------------------------------------------

FactoryStep ==
    \/ \E d \in Delivery : RouteClaims(d)
    \/ RoutePersists \/ RouteArms \/ RouteHolds \/ RouteAccepts \/ RouteAccepted
    \/ FlushFires \/ Injected \/ FlushSettles
    \/ AskArrives \/ AskPersists \/ AskAcknowledged
    \/ EndArrives \/ EndClears \/ EndPersists \/ EndSubmits \/ EndSettles
    \/ CancelEnds \/ Restores \/ RestoresClosed

WakeNext ==
    \/ FactoryStep
    \/ \E d \in Delivery : Happens(d)
    \/ RouteFails \/ InjectFails \/ AgentAsks \/ AgentDone \/ Parks \/ Resumes \/ Recovers
    \/ CancelBegins \/ Crashes

-----------------------------------------------------------------------------
(* Properties *)

(* A delivery is accepted, and so never offered again, only when its wake  *)
(* is in the durable session or has reached the babysitter.                *)
AcceptedWakeKept ==
    \A d \in Delivery :
        service[d] = "accepted" => d \in submitted \/ d \in session.pending \/ closing # "none"

(* The fence of a section that is over, whose end a crash swallowed.       *)
StuckFence == session.critical /\ agent = "free" /\ asks = "none" /\ ends = "none"

(* An event on the pull request reaches the babysitter, if critical        *)
(* sections end and humans answer, until the pull request is closed.       *)
WakesTaken ==
    \A d \in Delivery : service[d] # "none" => d \in submitted \/ closing # "none" \/ StuckFence

=============================================================================
