------------------------------ MODULE CloudEvents ------------------------------
(***************************************************************************)
(* Progress events on their way to the Cloud: an outbox file that several  *)
(* processes append to and deliver from, each under the file's lock, and   *)
(* the reporter of each process, whose flushes, retry timer and shutdown   *)
(* overlap with its reports and with the other processes.                  *)
(*                                                                         *)
(* An operation on the outbox is one step: it runs under the lock, and it  *)
(* writes the file by a rename.  Delivery is at least once; the Cloud      *)
(* counts an event it has seen as a duplicate.                             *)
(*                                                                         *)
(* The file lists its entries in the order in which they were written: it  *)
(* is the set of them, and each has its place in that order.               *)
(***************************************************************************)
EXTENDS Naturals, FiniteSets

CONSTANTS Proc,       \* processes that share the outbox
          Event,      \* event ids
          Critical,   \* events that are compacted last
          MaxEvents,  \* capacity of the outbox
          BatchSize,  \* events of one request
          Nobody,     \* an event that nobody has reported
          MaxEventFaults   \* bound on requests and lock attempts that fail

ASSUME EventAssumption ==
    /\ IsFiniteSet(Event) /\ Critical \subseteq Event /\ Nobody \notin Proc
    /\ MaxEvents \in Nat /\ BatchSize \in Nat \ {0} /\ MaxEventFaults \in Nat

VARIABLES box,        \* the entries of the file
          place,      \* of an event among all that were written, from 1 on
          dropped,    \* its counter of dropped events
          accepted,   \* what the Cloud has
          origin,     \* the process that wrote an event, if any did
          open,       \* a reporter is open, closing, closed, or crashed
          retryAt,    \* its retry timer is armed
          flushAt,    \* where its flush is
          batch,      \* what its flush has taken
          recheck,    \* its last flush has yet to look for what came meanwhile
          eventFaults

boxVars == <<box, place, dropped, origin>>
reporterVars == <<open, retryAt, flushAt, batch, recheck>>
eventVars == <<boxVars, accepted, reporterVars, eventFaults>>

FlushStages == {"idle", "peek", "send", "ack", "discard", "settle"}

EventTypes ==
    /\ box \subseteq Event /\ Cardinality(box) <= MaxEvents /\ place \in [Event -> Nat]
    /\ dropped \in Nat /\ accepted \subseteq Event
    /\ origin \in [Event -> Proc \cup {Nobody}]
    /\ open \in [Proc -> {"open", "closing", "closed", "crashed"}]
    /\ retryAt \in [Proc -> BOOLEAN] /\ recheck \in [Proc -> BOOLEAN]
    /\ flushAt \in [Proc -> FlushStages]
    /\ batch \in [Proc -> SUBSET Event] /\ eventFaults \in 0 .. MaxEventFaults

EventInit ==
    /\ box = {} /\ place = [e \in Event |-> 0] /\ dropped = 0 /\ accepted = {}
    /\ origin = [e \in Event |-> Nobody]
    /\ open = [p \in Proc |-> "open"] /\ retryAt = [p \in Proc |-> FALSE]
    /\ flushAt = [p \in Proc |-> "idle"] /\ batch = [p \in Proc |-> {}]
    /\ recheck = [p \in Proc |-> FALSE] /\ eventFaults = 0

EventFails == eventFaults < MaxEventFaults /\ eventFaults' = eventFaults + 1
EventWorks == UNCHANGED eventFaults

(***************************************************************************)
(* The file.                                                               *)
(***************************************************************************)
\* compactDocument: one entry too many costs the oldest ordinary entry, and a
\* critical one only when every entry is critical.
Oldest(from, order) == {e \in from : \A f \in from : order[e] <= order[f]}

Victims(entries, order) ==
    Oldest(IF entries \subseteq Critical THEN entries ELSE entries \ Critical, order)

Written == {e \in Event : origin[e] # Nobody}

\* Mutant of Overfull: the limit is looked at before the entry is added.
OverfullBefore(e) == Cardinality(box) > MaxEvents

Overfull(e) == Cardinality(box \cup {e}) > MaxEvents

Enqueues(p, e) ==
    \/ e \in box /\ UNCHANGED boxVars
    \/ /\ e \notin box
       /\ origin' = [origin EXCEPT ![e] = p]
       /\ place' = [place EXCEPT ![e] = Cardinality(Written) + 1]
       /\ LET gone == IF Overfull(e) THEN Victims(box \cup {e}, place') ELSE {} IN
          box' = (box \cup {e}) \ gone /\ dropped' = dropped + Cardinality(gone)

\* A batch is what one instance wrote, from the oldest entry on.
Batches ==
    {some \in SUBSET box :
       /\ some # {} /\ Cardinality(some) <= BatchSize
       /\ \A e \in some, f \in box : place[f] <= place[e] => f \in some /\ origin[f] = origin[e]}

(***************************************************************************)
(* The reporter.                                                           *)
(***************************************************************************)
\* #scheduleFlush: one timer at a time, none once the reporter closes.
Scheduled(p) == [retryAt EXCEPT ![p] = retryAt[p] \/ open[p] = "open"]

FlushAt(p, s) == flushAt' = [flushAt EXCEPT ![p] = s]

\* A report that cannot have the lock is lost, and says so only in the log.
Report(p, e) ==
    /\ open[p] # "crashed" /\ origin[e] = Nobody
    /\ \/ /\ EventWorks /\ Enqueues(p, e) /\ retryAt' = Scheduled(p)
       \/ EventFails /\ UNCHANGED <<boxVars, retryAt>>
    /\ UNCHANGED <<accepted, open, flushAt, batch, recheck>>

\* The timer fires; a flush that is under way is joined.
TimerFires(p) ==
    /\ open[p] = "open" /\ retryAt[p]
    /\ retryAt' = [retryAt EXCEPT ![p] = FALSE]
    /\ flushAt' = [flushAt EXCEPT ![p] = IF @ = "idle" THEN "peek" ELSE @]
    /\ UNCHANGED <<boxVars, accepted, open, batch, recheck, eventFaults>>

\* A flush that could not go on arms the timer and leaves.
GivesUp(p) == FlushAt(p, "settle") /\ retryAt' = Scheduled(p)

Alive(p) == open[p] # "crashed"

Peek(p) ==
    /\ Alive(p) /\ flushAt[p] = "peek"
    /\ \/ /\ EventWorks /\ UNCHANGED retryAt
          /\ \/ box = {} /\ FlushAt(p, "settle") /\ UNCHANGED batch
             \/ \E some \in Batches :
                  /\ \A other \in Batches : other \subseteq some
                  /\ batch' = [batch EXCEPT ![p] = some] /\ FlushAt(p, "send")
       \/ EventFails /\ GivesUp(p) /\ UNCHANGED batch
    /\ UNCHANGED <<boxVars, accepted, open, recheck>>

\* The Cloud has the batch and says so, counting what it had before.
Delivered(p) ==
    /\ accepted' = accepted \cup batch[p]
    /\ FlushAt(p, "ack") /\ EventWorks /\ UNCHANGED retryAt

\* The answer is lost or late: the attempt is repeated, or the flush gives up.
Unheard(p) ==
    /\ EventFails /\ accepted' \in {accepted, accepted \cup batch[p]}
    /\ GivesUp(p) \/ UNCHANGED <<flushAt, retryAt>>

\* Mutant of Incomplete: any 201 acknowledges the batch.
IncompleteCounts(p) ==
    /\ EventFails /\ \E some \in SUBSET batch[p] : accepted' = accepted \cup some
    /\ FlushAt(p, "ack") /\ UNCHANGED retryAt

\* A 201 that does not count every event of the batch is not an acknowledgement.
Incomplete(p) ==
    /\ EventFails /\ \E some \in SUBSET batch[p] : accepted' = accepted \cup some
    /\ GivesUp(p)

\* 400, 409, 413, 415, 422: the batch can never be delivered.
Rejected(p) == EventFails /\ FlushAt(p, "discard") /\ UNCHANGED <<accepted, retryAt>>

Send(p) ==
    /\ Alive(p) /\ flushAt[p] = "send"
    /\ IF open[p] = "closed"
         THEN FlushAt(p, "settle") /\ UNCHANGED <<accepted, retryAt, eventFaults>>
         ELSE Delivered(p) \/ Unheard(p) \/ Incomplete(p) \/ Rejected(p)
    /\ UNCHANGED <<boxVars, open, batch, recheck>>

Acknowledge(p) ==
    /\ Alive(p) /\ flushAt[p] = "ack"
    /\ \/ EventWorks /\ box' = box \ batch[p] /\ FlushAt(p, "peek") /\ UNCHANGED retryAt
       \/ EventFails /\ GivesUp(p) /\ UNCHANGED box
    /\ UNCHANGED <<place, dropped, origin, accepted, open, batch, recheck>>

\* What another process has taken out meanwhile is not counted again.
Discard(p) ==
    LET gone == batch[p] \cap box IN
    /\ Alive(p) /\ flushAt[p] = "discard"
    /\ \/ /\ EventWorks /\ box' = box \ gone /\ dropped' = dropped + Cardinality(gone)
          /\ IF gone # {} THEN FlushAt(p, "peek") /\ UNCHANGED retryAt ELSE GivesUp(p)
       \/ EventFails /\ GivesUp(p) /\ UNCHANGED <<box, dropped>>
    /\ UNCHANGED <<place, origin, accepted, open, batch, recheck>>

\* The flush is over; unless a retry is due, it looks for what came meanwhile.
Settle(p) ==
    /\ Alive(p) /\ flushAt[p] = "settle" /\ FlushAt(p, "idle")
    /\ recheck' = [recheck EXCEPT ![p] = open[p] = "open" /\ ~retryAt[p]]
    /\ batch' = [batch EXCEPT ![p] = {}]
    /\ UNCHANGED <<boxVars, accepted, open, retryAt, eventFaults>>

Recheck(p) ==
    /\ Alive(p) /\ recheck[p] /\ recheck' = [recheck EXCEPT ![p] = FALSE]
    /\ retryAt' = IF box # {} THEN Scheduled(p) ELSE retryAt
    /\ UNCHANGED <<boxVars, accepted, open, flushAt, batch, eventFaults>>

\* close: one last flush, or the one under way, and then every request is
\* aborted, whether it has ended or its deadline has passed.
Close(p) ==
    /\ open[p] = "open"
    /\ open' = [open EXCEPT ![p] = "closing"] /\ retryAt' = [retryAt EXCEPT ![p] = FALSE]
    /\ flushAt' = [flushAt EXCEPT ![p] = IF @ = "idle" THEN "peek" ELSE @]
    /\ UNCHANGED <<boxVars, accepted, batch, recheck, eventFaults>>

Closed(p) ==
    /\ open[p] = "closing" /\ open' = [open EXCEPT ![p] = "closed"]
    /\ UNCHANGED <<boxVars, accepted, retryAt, flushAt, batch, recheck, eventFaults>>

Crash(p) ==
    /\ open[p] # "crashed" /\ EventFails /\ open' = [open EXCEPT ![p] = "crashed"]
    /\ batch' = [batch EXCEPT ![p] = {}]
    /\ UNCHANGED <<boxVars, accepted, retryAt, flushAt, recheck>>

FlushStep(p) == TimerFires(p) \/ Peek(p) \/ Send(p) \/ Acknowledge(p) \/ Discard(p)
                  \/ Settle(p) \/ Recheck(p)

EventNext ==
    \E p \in Proc : \/ FlushStep(p) \/ Close(p) \/ Closed(p) \/ Crash(p)
                    \/ \E e \in Event : Report(p, e)

EventSpec == EventInit /\ [][EventNext]_eventVars

-----------------------------------------------------------------------------
(* Properties *)

(* Whatever requests fail and processes race, an event that was written is *)
(* in the outbox, in the Cloud, or in the count of dropped events.         *)
NoSilentLoss ==
    Cardinality(Written \ (box \cup accepted)) <= dropped

(* What a process has written leaves the outbox, unless the process closes *)
(* or crashes.                                                             *)
EventsSettled ==
    \A e \in Event, p \in Proc :
        origin[e] = p /\ e \in box => open[p] # "open"

=============================================================================
