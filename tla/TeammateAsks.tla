---------------------------- MODULE TeammateAsks ----------------------------
(***************************************************************************)
(* Questions of one agent to one teammate, over a transport whose replies  *)
(* do not say which question they answer.                                  *)
(*                                                                         *)
(* askTeammate claims the pair, listens, and sends through                 *)
(* waitForInjected, which sends once more when the teammate's worker gets  *)
(* ready, and is confirmed by an event that names the teammate and not the *)
(* message.  When an ask is over its claim is dropped, or kept for good    *)
(* while an answer may still come.                                         *)
(***************************************************************************)
EXTENDS FiniteSets, Naturals

CONSTANTS Ask,        \* the questions, asked in any order
          None,
          Lossy,      \* events of the broker may be lost
          Ambiguous   \* a send that throws may have been accepted

VARIABLES ask,        \* askTeammate
          answer,     \* the question whose reply an ask returned
          claim,      \* the AskClaim of the pair
          wait,       \* waitForInjected of each ask
          mail,       \* what became of the two sends of each ask
          injecting,  \* delivery_injected events on their way
          failing,    \* delivery_failed events on their way
          failed      \* #failedDeliveries

askVars == <<ask, answer, claim>>
mailVars == <<mail, injecting, failing>>
teammateVars == <<askVars, wait, mailVars, failed>>

Send == Ask \X {1, 2}
NoWait == [st |-> "no", ids |-> {}, resend |-> "no", untracked |-> 0, confirmed |-> FALSE, dup |-> FALSE]

TypeOK ==
    /\ ask \in [Ask -> {"no", "armed", "pending", "answered", "failed", "timedout", "refused"}]
    /\ answer \in [Ask -> Ask \cup {None}]
    /\ claim \in {"free", "waiting", "timed-out-uncorrelated", "duplicate-uncorrelated"}
    /\ wait \in [Ask -> [st : {"no", "sending", "active", "confirmed", "rejected", "error"}, ids : SUBSET {1, 2},
                         resend : {"no", "flying", "done"}, untracked : 0 .. 1,
                         confirmed : BOOLEAN, dup : BOOLEAN]]
    /\ mail \in [Send -> {"no", "sent", "injected", "dead", "answered"}]
    /\ injecting \subseteq Send /\ failing \subseteq Send /\ failed \subseteq Send

Init ==
    /\ ask = [a \in Ask |-> "no"] /\ answer = [a \in Ask |-> None] /\ claim = "free"
    /\ wait = [a \in Ask |-> NoWait] /\ mail = [s \in Send |-> "no"]
    /\ injecting = {} /\ failing = {} /\ failed = {}

-----------------------------------------------------------------------------
(* The end of an ask, of its delivery, and of the claim *)

(* #recomputeDuplicateRisk                                                 *)
DuplicateRisk(w) == Cardinality(w.ids) + w.untracked > 1

ReleaseOrQuarantine(w) == IF w.dup THEN "duplicate-uncorrelated" ELSE "free"

(* The claim of an ask that is settled and whose delivery is.  A timed-out *)
(* one is freed by a definite rejection alone.                             *)
ClaimAfter(a, outcome, w) ==
    CASE ask[a] = "answered" -> ReleaseOrQuarantine(w)
      [] ask[a] = "timedout" -> IF outcome = "rejected" THEN "free" ELSE claim
      [] ask[a] = "pending"  -> IF outcome = "confirmed" THEN claim ELSE "free"

(* Delivery settles with w as the waiter's last state.                     *)
Settles(a, outcome, w) ==
    LET last == [w EXCEPT !.st = outcome, !.dup = outcome = "confirmed" /\ DuplicateRisk(w)] IN
    /\ wait' = [wait EXCEPT ![a] = last]
    /\ claim' = ClaimAfter(a, outcome, last)
    /\ ask' = [ask EXCEPT ![a] = IF ask[a] = "pending" /\ outcome # "confirmed" THEN "failed" ELSE @]

Continues(a, w) == wait' = [wait EXCEPT ![a] = w] /\ UNCHANGED <<ask, claim>>

(* #resolvePendingInjected: a resend in flight keeps the waiter pending.   *)
Resolves(a, w) ==
    IF w.resend = "flying" THEN Continues(a, [w EXCEPT !.confirmed = TRUE])
    ELSE Settles(a, "confirmed", w)

(* #failPendingInjectedEvent                                               *)
FailsEvent(a, w, n) ==
    LET left == [w EXCEPT !.ids = @ \ {n}] IN
    IF left.ids = {} /\ left.resend # "flying" THEN Settles(a, "rejected", left)
    ELSE Continues(a, left)

-----------------------------------------------------------------------------
(* askTeammate *)

Asks(a) ==
    /\ ask[a] = "no"
    /\ IF claim = "free"
       THEN ask' = [ask EXCEPT ![a] = "armed"] /\ claim' = "waiting"
       ELSE ask' = [ask EXCEPT ![a] = "refused"] /\ UNCHANGED claim
    /\ UNCHANGED <<answer, wait, mailVars, failed>>

(* The send leaves; the provider accepts it or not.                        *)
Leaves(s) == \E got \in {"no", "sent"} : mail' = [mail EXCEPT ![s] = got]

Sends(a) ==
    /\ ask[a] = "armed"
    /\ ask' = [ask EXCEPT ![a] = "pending"]
    /\ wait' = [wait EXCEPT ![a].st = "sending"]
    /\ Leaves(<<a, 1>>)
    /\ UNCHANGED <<answer, claim, injecting, failing, failed>>

(* The first send returns: it was confirmed meanwhile, has failed, or is   *)
(* waited for.                                                             *)
Returns(a) ==
    LET w == [wait[a] EXCEPT !.st = "active", !.ids = {1}] IN
    /\ wait[a].st = "sending" /\ mail[<<a, 1>>] # "no"
    /\ CASE w.confirmed -> Settles(a, "confirmed", w)
         [] ~w.confirmed /\ <<a, 1>> \in failed -> FailsEvent(a, w, 1)
         [] OTHER -> Continues(a, w)
    /\ UNCHANGED <<answer, mailVars, failed>>

MayHaveThrown(s) == mail[s] = "no" \/ Ambiguous

Throws(a) ==
    /\ wait[a].st = "sending" /\ MayHaveThrown(<<a, 1>>)
    /\ Settles(a, "error", wait[a])
    /\ UNCHANGED <<answer, mailVars, failed>>

(* #triggerReadyResend: the worker gets ready, or was and a second passed. *)
Resends(a) ==
    /\ wait[a].st = "active" /\ wait[a].resend = "no" /\ ~wait[a].confirmed
    /\ wait' = [wait EXCEPT ![a].resend = "flying"]
    /\ Leaves(<<a, 2>>)
    /\ UNCHANGED <<askVars, injecting, failing, failed>>

(* A first send that failed before its waiter was there, to a ready worker. *)
ReturnsToResend(a) ==
    /\ wait[a].st = "sending" /\ <<a, 1>> \in failed /\ ~wait[a].confirmed
    /\ wait' = [wait EXCEPT ![a].st = "active", ![a].resend = "flying"]
    /\ Leaves(<<a, 2>>)
    /\ UNCHANGED <<askVars, injecting, failing, failed>>

ResendReturns(a) ==
    LET w == [wait[a] EXCEPT !.resend = "done", !.ids = @ \cup {2}] IN
    /\ wait[a].st = "active" /\ wait[a].resend = "flying" /\ mail[<<a, 2>>] # "no"
    /\ CASE w.confirmed -> Settles(a, "confirmed", w)
         [] ~w.confirmed /\ <<a, 2>> \in failed -> FailsEvent(a, w, 2)
         [] OTHER -> Continues(a, w)
    /\ UNCHANGED <<answer, mailVars, failed>>

ResendThrows(a) ==
    LET w == [wait[a] EXCEPT !.resend = "done", !.untracked = 1] IN
    /\ wait[a].st = "active" /\ wait[a].resend = "flying" /\ MayHaveThrown(<<a, 2>>)
    /\ CASE w.confirmed -> Settles(a, "confirmed", w)
         [] ~w.confirmed /\ w.ids = {} -> Settles(a, "error", w)
         [] OTHER -> Continues(a, w)
    /\ UNCHANGED <<answer, mailVars, failed>>

-----------------------------------------------------------------------------
(* Timers *)

(* Mutant: a timeout drops the claim as a failure does.                    *)
TimesOutReleasing(a) ==
    /\ ask[a] \in {"armed", "pending"}
    /\ ask' = [ask EXCEPT ![a] = "timedout"] /\ claim' = "free"
    /\ UNCHANGED <<answer, wait, mailVars, failed>>

TimesOut(a) ==
    /\ ask[a] \in {"armed", "pending"}
    /\ ask' = [ask EXCEPT ![a] = "timedout"]
    /\ claim' = IF ask[a] = "armed" THEN "free" ELSE "timed-out-uncorrelated"
    /\ UNCHANGED <<answer, wait, mailVars, failed>>

(* The waiter's timer is set after that of its ask, for the same instant.  *)
WaitTimesOut(a) ==
    /\ wait[a].st = "active" /\ ~wait[a].confirmed /\ ask[a] \in {"answered", "timedout"}
    /\ Lossy \/ \A n \in {1, 2} : mail[<<a, n>>] \notin {"injected", "answered"}
    /\ Settles(a, "error", wait[a])
    /\ UNCHANGED <<answer, mailVars, failed>>

-----------------------------------------------------------------------------
(* The broker, the worker and their events *)

Injects(s) ==
    /\ mail[s] = "sent"
    /\ mail' = [mail EXCEPT ![s] = "injected"]
    /\ injecting' = injecting \cup {s}
    /\ UNCHANGED <<askVars, wait, failing, failed>>

Drops(s) ==
    /\ mail[s] = "sent"
    /\ mail' = [mail EXCEPT ![s] = "dead"]
    /\ failing' = failing \cup {s}
    /\ UNCHANGED <<askVars, wait, injecting, failed>>

Loses(s) ==
    /\ Lossy /\ s \in injecting \cup failing
    /\ injecting' = injecting \ {s} /\ failing' = failing \ {s}
    /\ UNCHANGED <<askVars, wait, mail, failed>>

(* #resolveInjected: the waiter that holds the id, else any for the agent. *)
InjectedSeen(s) ==
    /\ s \in injecting /\ injecting' = injecting \ {s}
    /\ LET waiters == {a \in Ask : wait[a].st \in {"sending", "active"}} IN
       IF waiters = {} THEN UNCHANGED <<ask, claim, wait>>
       ELSE \E a \in IF s[1] \in waiters THEN {s[1]} ELSE waiters :
                IF wait[a].st = "sending" THEN Continues(a, [wait[a] EXCEPT !.confirmed = TRUE])
                ELSE Resolves(a, wait[a])
    /\ UNCHANGED <<answer, mail, failing, failed>>

(* #rejectInjected                                                         *)
FailureSeen(s) ==
    /\ s \in failing /\ failing' = failing \ {s} /\ failed' = failed \cup {s}
    /\ IF wait[s[1]].st = "active" /\ s[2] \in wait[s[1]].ids
       THEN FailsEvent(s[1], wait[s[1]], s[2]) ELSE UNCHANGED <<ask, claim, wait>>
    /\ UNCHANGED <<answer, mail, injecting>>

(* The teammate replies.  Whoever listens takes it; the pair stays claimed *)
(* while delivery is not settled.                                          *)
Answers(s) ==
    /\ mail[s] = "injected"
    /\ mail' = [mail EXCEPT ![s] = "answered"]
    /\ LET listening == {a \in Ask : ask[a] = "pending"} IN
       IF listening = {} THEN UNCHANGED askVars
       ELSE /\ ask' = [a \in Ask |-> IF a \in listening THEN "answered" ELSE ask[a]]
            /\ answer' = [a \in Ask |-> IF a \in listening THEN s[1] ELSE answer[a]]
            /\ claim' = LET settled == {a \in listening : wait[a].st = "confirmed"} IN
                IF settled = {} THEN claim
                ELSE ReleaseOrQuarantine([dup |-> \E a \in settled : wait[a].dup])
    /\ UNCHANGED <<wait, injecting, failing, failed>>

-----------------------------------------------------------------------------

AskStep(a) ==
    \/ Asks(a) \/ Sends(a) \/ Returns(a) \/ Throws(a) \/ Resends(a) \/ ReturnsToResend(a)
    \/ ResendReturns(a) \/ ResendThrows(a) \/ TimesOut(a) \/ WaitTimesOut(a)

TeammateNext ==
    \/ \E a \in Ask : AskStep(a)
    \/ \E s \in Send : Injects(s) \/ Drops(s) \/ Loses(s) \/ InjectedSeen(s) \/ FailureSeen(s) \/ Answers(s)

-----------------------------------------------------------------------------
(* Properties *)

(* An ask returns the answer to its own question, never that of an earlier *)
(* one that was given up.                                                  *)
AnswerIsOwn == \A a \in Ask : ask[a] = "answered" => answer[a] = a

=============================================================================
