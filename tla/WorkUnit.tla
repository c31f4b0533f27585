------------------------------ MODULE WorkUnit ------------------------------
(***************************************************************************)
(* What the dispatch lifecycle store promises of a work unit, without      *)
(* leases, clocks, caches or saves in flight: it is opened once, passes    *)
(* from holder to holder in numbered terms, gathers pull requests, is      *)
(* announced once, and is finished for good.                               *)
(***************************************************************************)
EXTENDS Naturals

CONSTANTS Proc, Key, Repo

VARIABLES unit, notices

vars == <<unit, notices>>

Unopened == [finished |-> FALSE]

Init ==
    /\ unit = [k \in Key |-> Unopened]
    /\ notices = [k \in Key |-> 0]

(* An opened unit in a term of one holder. *)
Held(finished, holder, term, prs, notified) ==
    [finished |-> finished, holder |-> holder, term |-> term, prs |-> prs,
     notified |-> notified]

Becomes(k, u) == unit' = [unit EXCEPT ![k] = u]

Open(k) ==
    /\ unit[k] = Unopened
    /\ \E p \in Proc, prs \in SUBSET Repo : Becomes(k, Held(FALSE, p, 1, prs, FALSE))
    /\ UNCHANGED notices

Unfinished(k) == unit[k] # Unopened /\ ~unit[k].finished

TakeOver(k) ==
    LET u == unit[k] IN
    /\ Unfinished(k)
    /\ \E p \in Proc \ {u.holder} :
         Becomes(k, Held(FALSE, p, u.term + 1, u.prs, u.notified))
    /\ UNCHANGED notices

(* The holder adds receipts, and may finish. *)
Progress(k) ==
    LET u == unit[k] IN
    /\ Unfinished(k)
    /\ \E more \in SUBSET Repo, finished \in BOOLEAN :
         Becomes(k, Held(finished, u.holder, u.term, u.prs \union more, u.notified))
    /\ UNCHANGED notices

Announce(k) ==
    LET u == unit[k] IN
    /\ Unfinished(k)
    /\ ~u.notified
    /\ Becomes(k, Held(FALSE, u.holder, u.term, u.prs, TRUE))
    /\ notices' = [notices EXCEPT ![k] = @ + 1]

Next == \E k \in Key : Open(k) \/ TakeOver(k) \/ Progress(k) \/ Announce(k)

Spec == Init /\ [][Next]_vars
=============================================================================
