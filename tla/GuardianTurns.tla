---------------------------- MODULE GuardianTurns ----------------------------
(***************************************************************************)
(* The conversation of a feature guardian with a human in a Slack thread:  *)
(* each reply or reaction starts a run of the agent, which reads the       *)
(* conversation, decides, and checkpoints what it is about to do before it *)
(* does it.  Runs of the two triggers overlap, are delivered again, and    *)
(* may stop at any point; the next event resumes what was checkpointed.    *)
(*                                                                         *)
(* One question; an event is its number in the order of Slack.             *)
(***************************************************************************)
EXTENDS Naturals, FiniteSets

CONSTANTS Run,          \* runs that may overlap, one of each trigger
          Remarks,      \* what an event may say
          Events,       \* events of the thread
          MaxTurns,     \* MAX_TURNS
          Attempts,     \* MAX_REMEDIATION_ATTEMPTS
          MaxUnknown    \* submissions whose outcome the agent never learns

VARIABLES doc,      \* the record of the conversation, replaced as a whole
          runs,     \* a run: where it is, its event, its snapshot
          kind,     \* what an event says, once one has been delivered
          moved,    \* the manifest or procedure changed after the question
          replies, confirmed, ledger, issues, unknown

guardianVars == <<doc, runs, kind, moved, replies, confirmed, ledger, issues, unknown>>

Event == 1 .. Events
Kind == {"unclear", "untested", "failure", "report", "confirm", "claim", "defer"}
ASSUME GuardianAssumption ==
    /\ Events \in Nat /\ MaxTurns \in Nat /\ Attempts \in Nat /\ MaxUnknown \in Nat
    /\ Remarks \subseteq Kind

Recorded == {"confirmation-recorded", "remediation-recorded", "deferred-recorded"}
Terminal == {"confirmed", "remediation-open", "deferred"}
Status == {"asked", "discussing", "verifying"} \cup Recorded \cup Terminal

(* The tier gate lets the procedure run, or it does not.                   *)
Gated == {"deferred-recorded", "verifying"}

(* What the procedure proves: that its command passed, failed, or was not  *)
(* run.                                                                    *)
Results == {"passed", "failed", "skip"}

(* 0 stands for no event.                                                  *)
Doc == [status : Status, turns : 0 .. MaxTurns, asks : 0 .. 2 * Events, seen : SUBSET Event, mark : 0 .. Events,
        pending : 0 .. Events, result : Results \cup {"none"}, path : BOOLEAN]

Place == {"idle", "fresh", "clarify", "resume", "verify", "judge", "recheck", "remedy", "submit",
          "receipt", "dropped", "remedied", "finish", "path", "say", "close"}
Doing == [at : Place, event : 0 .. Events, snap : Doc]
Ledger == [intents : SUBSET (1 .. Attempts), drops : SUBSET (1 .. Attempts), receipt : BOOLEAN]

GuardianTypes ==
    /\ doc \in Doc /\ runs \in [Run -> Doing]
    /\ kind \in [Event -> Kind \cup {"none"}] /\ moved \in BOOLEAN
    /\ replies \subseteq Terminal /\ confirmed \in BOOLEAN
    /\ ledger \in Ledger /\ issues \in 0 .. Attempts /\ unknown \in 0 .. MaxUnknown

Asked == [status |-> "asked", turns |-> 0, asks |-> 0, seen |-> {}, mark |-> 0, pending |-> 0, result |-> "none",
          path |-> FALSE]

NoRun == [at |-> "idle", event |-> 0, snap |-> Asked]

GuardianInit ==
    /\ doc = Asked /\ runs = [r \in Run |-> NoRun] /\ kind = [e \in Event |-> "none"] /\ moved = FALSE
    /\ replies = {} /\ confirmed = FALSE /\ ledger = [intents |-> {}, drops |-> {}, receipt |-> FALSE]
    /\ issues = 0 /\ unknown = 0

-----------------------------------------------------------------------------

Go(r, next) == runs' = [runs EXCEPT ![r].at = next]
EndsRun(r) == runs' = [runs EXCEPT ![r] = NoRun]

(* Mutant: the write does not name the revision it is based on.            *)
StoresBlind(r, new, next) ==
    /\ doc' = new
    /\ runs' = [runs EXCEPT ![r].at = next, ![r].snap = new]

(* The record is written at the revision that was read, or the run throws. *)
Stores(r, new, next) ==
    IF runs[r].snap = doc
    THEN /\ doc' = new
         /\ runs' = IF next = "idle" THEN [runs EXCEPT ![r] = NoRun]
                    ELSE [runs EXCEPT ![r].at = next, ![r].snap = new]
    ELSE EndsRun(r) /\ UNCHANGED doc

(* checkpointPending                                                       *)
Checkpoint(r, status, counts) ==
    LET s == runs[r].snap e == runs[r].event IN
    Stores(r, [s EXCEPT !.status = status, !.turns = IF counts /\ @ < MaxTurns THEN @ + 1 ELSE @,
                       !.pending = e, !.mark = e],
          IF status = "verifying" THEN "verify" ELSE "finish")

(* What ends a turn: the event counts as seen, nothing is pending.         *)
Closed(s, status) ==
    [s EXCEPT !.status = status, !.pending = 0, !.seen = @ \cup {s.pending}, !.mark = s.pending, !.result = "none"]

-----------------------------------------------------------------------------

(* A delivery, the first or a later one.                                   *)
Deliver(r, e) ==
    /\ runs[r].at = "idle" /\ doc.status \notin Terminal
    /\ IF kind[e] = "none" THEN \E k \in Remarks : kind' = [kind EXCEPT ![e] = k] ELSE UNCHANGED kind
    /\ doc.pending # 0 \/ (e \notin doc.seen /\ e > doc.mark)
    /\ runs' = [runs EXCEPT ![r] = [at |-> IF doc.pending # 0 THEN "resume" ELSE "fresh", event |-> e, snap |-> doc]]
    /\ UNCHANGED <<doc, moved, replies, confirmed, ledger, issues, unknown>>

Clarifies(s, k) == k = "unclear" \/ (k \in {"untested", "failure", "report"} /\ s.turns = 0)

Decide(r) ==
    LET s == runs[r].snap k == kind[runs[r].event] IN
    /\ runs[r].at = "fresh"
    /\ IF moved THEN Checkpoint(r, "deferred-recorded", FALSE)
       ELSE IF Clarifies(s, k)
       THEN IF s.turns >= MaxTurns THEN Checkpoint(r, "deferred-recorded", TRUE)
            ELSE Go(r, "clarify") /\ UNCHANGED doc
       ELSE IF k = "confirm" THEN Checkpoint(r, "confirmation-recorded", TRUE)
       ELSE IF k = "defer" THEN Checkpoint(r, "deferred-recorded", TRUE)
       ELSE \E status \in Gated : Checkpoint(r, status, TRUE)
    /\ UNCHANGED <<kind, moved, replies, confirmed, ledger, issues, unknown>>

(* The clarification is posted by a key of its own, then recorded.         *)
Clarified(r) ==
    LET s == runs[r].snap e == runs[r].event IN
    /\ runs[r].at = "clarify"
    /\ Stores(r, [s EXCEPT !.status = "discussing", !.turns = @ + 1, !.asks = @ + 1, !.seen = @ \cup {e}, !.mark = e],
             "idle")
    /\ UNCHANGED <<kind, moved, replies, confirmed, ledger, issues, unknown>>

Resume(r) ==
    LET s == runs[r].snap IN
    /\ runs[r].at = "resume"
    /\ IF s.status \in Recorded THEN Go(r, "finish") /\ UNCHANGED doc
       ELSE \/ /\ moved \/ s.result = "none"
               /\ Stores(r, [s EXCEPT !.status = "deferred-recorded"], "finish")
            \/ ~moved /\ Go(r, "verify") /\ UNCHANGED doc
    /\ UNCHANGED <<kind, moved, replies, confirmed, ledger, issues, unknown>>

(* The procedure runs once per checkpoint; its result is saved before      *)
(* anything follows from it.                                               *)
Verify(r) ==
    LET s == runs[r].snap IN
    /\ runs[r].at = "verify"
    /\ IF s.result # "none" THEN Go(r, "judge") /\ UNCHANGED doc
       ELSE \E result \in Results : Stores(r, [s EXCEPT !.result = result], "judge")
    /\ UNCHANGED <<kind, moved, replies, confirmed, ledger, issues, unknown>>

Judge(r) ==
    LET s == runs[r].snap k == kind[s.pending] IN
    /\ runs[r].at = "judge"
    /\ CASE s.result = "failed" \/ (s.result = "passed" /\ k = "report" /\ s.asks >= 1) ->
                Go(r, "remedy") /\ UNCHANGED doc
         [] s.result = "passed" /\ k \in {"failure", "report"} /\ ~(k = "report" /\ s.asks >= 1) ->
                Go(r, "recheck") /\ UNCHANGED doc
         [] s.result = "passed" /\ k \notin {"failure", "report"} ->
                Stores(r, [s EXCEPT !.status = "confirmation-recorded"], "finish")
         [] OTHER -> Stores(r, [s EXCEPT !.status = "deferred-recorded"], "finish")
    /\ UNCHANGED <<kind, moved, replies, confirmed, ledger, issues, unknown>>

(* A turn that a resumed check closed leaves the newer event to be handled *)
(* in the same run.                                                        *)
Rechecked(r) ==
    LET s == runs[r].snap e == runs[r].event new == [Closed(s, "discussing") EXCEPT !.asks = @ + 1] IN
    /\ runs[r].at = "recheck"
    /\ Stores(r, new, IF e > s.pending THEN "fresh" ELSE "idle")
    /\ UNCHANGED <<kind, moved, replies, confirmed, ledger, issues, unknown>>

-----------------------------------------------------------------------------
(* The remediation issue, through a ledger of immutable files *)

(* A file of the ledger is created by one run only.                        *)
Claimed(n) == n \in ledger.intents

(* Mutant: an intent that somebody else has written does not stop us.      *)
UpsertAgain(r) ==
    /\ runs[r].at = "remedy"
    /\ IF ledger.receipt THEN Go(r, "remedied") /\ UNCHANGED ledger
       ELSE \E n \in 1 .. Attempts \ ledger.drops :
                ledger' = [ledger EXCEPT !.intents = @ \cup {n}] /\ Go(r, "submit")
    /\ UNCHANGED <<doc, kind, moved, replies, confirmed, issues, unknown>>

(* An issue that exists may or may not be in the list yet.                 *)
Upsert(r) ==
    LET open == 1 .. Attempts \ ledger.drops IN
    /\ runs[r].at = "remedy"
    /\ \/ ledger.receipt /\ Go(r, "remedied") /\ UNCHANGED ledger
       \/ ~ledger.receipt /\ issues > 0 /\ Go(r, "receipt") /\ UNCHANGED ledger
       \/ /\ ~ledger.receipt
          /\ \/ open = {} /\ EndsRun(r) /\ UNCHANGED ledger
             \/ \E n \in open :
                  /\ \A m \in open : n <= m
                  /\ IF Claimed(n) THEN EndsRun(r) /\ UNCHANGED ledger
                     ELSE ledger' = [ledger EXCEPT !.intents = @ \cup {n}] /\ Go(r, "submit")
    /\ UNCHANGED <<doc, kind, moved, replies, confirmed, issues, unknown>>

Submit(r) ==
    /\ runs[r].at = "submit"
    /\ \/ issues' = issues + 1 /\ Go(r, "receipt") /\ UNCHANGED unknown
       \/ Go(r, "dropped") /\ UNCHANGED <<issues, unknown>>
       \/ /\ unknown < MaxUnknown /\ unknown' = unknown + 1
          /\ issues' \in {issues, issues + 1}
          /\ EndsRun(r)
    /\ UNCHANGED <<doc, kind, moved, replies, confirmed, ledger>>

Dropped(r) ==
    /\ runs[r].at = "dropped"
    /\ ledger' = [ledger EXCEPT !.drops = @ \cup ledger.intents]
    /\ EndsRun(r)
    /\ UNCHANGED <<doc, kind, moved, replies, confirmed, issues, unknown>>

Receipt(r) ==
    /\ runs[r].at = "receipt"
    /\ ledger' = [ledger EXCEPT !.receipt = TRUE]
    /\ Go(r, "remedied")
    /\ UNCHANGED <<doc, kind, moved, replies, confirmed, issues, unknown>>

Remedied(r) ==
    /\ runs[r].at = "remedied"
    /\ Stores(r, [runs[r].snap EXCEPT !.status = "remediation-recorded"], "finish")
    /\ UNCHANGED <<kind, moved, replies, confirmed, ledger, issues, unknown>>

-----------------------------------------------------------------------------
(* Finishing what is recorded *)

OutcomeOf(status) ==
    CASE status = "confirmation-recorded" -> "confirmed"
      [] status = "remediation-recorded" -> "remediation-open"
      [] OTHER -> "deferred"

(* The confirmation file is created once; the same content again is fine.  *)
Finish(r) ==
    LET s == runs[r].snap confirms == s.status = "confirmation-recorded" IN
    /\ runs[r].at = "finish"
    /\ confirmed' = (confirmed \/ confirms)
    /\ Go(r, IF confirms /\ ~s.path THEN "path" ELSE "say")
    /\ UNCHANGED <<doc, kind, moved, replies, ledger, issues, unknown>>

SavesPath(r) ==
    /\ runs[r].at = "path"
    /\ Stores(r, [runs[r].snap EXCEPT !.path = TRUE], "say")
    /\ UNCHANGED <<kind, moved, replies, confirmed, ledger, issues, unknown>>

Says(r) ==
    /\ runs[r].at = "say"
    /\ replies' = replies \cup {OutcomeOf(runs[r].snap.status)}
    /\ Go(r, "close")
    /\ UNCHANGED <<doc, kind, moved, confirmed, ledger, issues, unknown>>

Closes(r) ==
    LET s == runs[r].snap IN
    /\ runs[r].at = "close"
    /\ Stores(r, Closed(s, OutcomeOf(s.status)), "idle")
    /\ UNCHANGED <<kind, moved, replies, confirmed, ledger, issues, unknown>>

Stops(r) ==
    /\ runs[r].at # "idle" /\ EndsRun(r)
    /\ UNCHANGED <<doc, kind, moved, replies, confirmed, ledger, issues, unknown>>

Moves ==
    /\ ~moved /\ moved' = TRUE
    /\ UNCHANGED <<doc, runs, kind, replies, confirmed, ledger, issues, unknown>>

GuardianNext ==
    \/ Moves
    \/ \E r \in Run :
        \/ \E e \in Event : Deliver(r, e)
        \/ Decide(r) \/ Clarified(r) \/ Resume(r) \/ Verify(r) \/ Judge(r) \/ Rechecked(r)
        \/ Upsert(r) \/ Submit(r) \/ Dropped(r) \/ Receipt(r) \/ Remedied(r)
        \/ Finish(r) \/ SavesPath(r) \/ Says(r) \/ Closes(r) \/ Stops(r)

GuardianSpec == GuardianInit /\ [][GuardianNext]_guardianVars

-----------------------------------------------------------------------------
(* Properties *)

(* The thread hears one outcome, whatever runs overlap or stop: the one    *)
(* the record ends with, and never a confirmation beside an issue.         *)
OneOutcome ==
    /\ Cardinality(replies) <= 1
    /\ doc.status \in Terminal => replies = {doc.status}
    /\ "confirmed" \in replies => confirmed /\ issues = 0

(* A defect is submitted once, when nobody knows what became of the first  *)
(* submission, too.                                                        *)
OneIssue == issues <= 1

(* A report comes to one outcome and one issue, whichever run handles it.  *)
ReportedOnce == OneOutcome /\ OneIssue

=============================================================================
