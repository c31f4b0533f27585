---------------------------- MODULE StatusReceipts ----------------------------
(***************************************************************************)
(* Writes of an issue's lifecycle by the command line of GitHub.  The      *)
(* provider offers no compare-and-set, so a call reads the labels, takes a *)
(* baseline of the issue's events, edits, confirms, and then looks in the  *)
(* events for the one that brought about what it asked for: only if that   *)
(* event is by its own login does it report that it was applied.           *)
(*                                                                         *)
(* Closing an issue goes the same way, over its state in place of labels;  *)
(* a closed issue is one with the label "closed" here.  The command edits  *)
(* labels one by one, in any order.                                        *)
(***************************************************************************)
EXTENDS Naturals, Sequences, FiniteSets

CONSTANTS Writer,    \* processes that write the issue's lifecycle, one call each
          Person,    \* somebody who does so by hand
          SameLogin, \* the writers share a login
          MaxEdits   \* bound on edits by hand

VARIABLES labels, log, call, edits

receiptVars == <<labels, log, call, edits>>

\* Status labels: "progress" has an older spelling that still counts.
Status == {"progress", "progress-old", "review"}
Label == Status \cup {"closed"}
Target == {"ready", "in-progress", "human-review", "closed"}

Call == [at : {"idle", "baseline", "edit", "confirm", "receipt", "done"}, to : Target,
         before : SUBSET Label, base : Nat, based : BOOLEAN, todo : SUBSET Label,
         result : {"none", "already-matched", "applied", "acknowledged", "failed"}, token : Nat]

TypeOK ==
    /\ labels \subseteq Label /\ call \in [Writer -> Call] /\ edits \in 0..MaxEdits
    /\ \A i \in DOMAIN log :
         log[i] \in [label : Label, on : BOOLEAN, login : Writer \cup {Person},
                     by : Writer \cup {Person}]

NoCall == [at |-> "idle", to |-> "ready", before |-> {}, base |-> 0, based |-> FALSE, todo |-> {},
           result |-> "none", token |-> 0]

ReceiptInit ==
    /\ labels \in {{}, {"progress-old"}, {"review"}} /\ log = <<>>
    /\ call = [w \in Writer |-> NoCall] /\ edits = 0

-----------------------------------------------------------------------------
(* Labels and what they say *)

StatusOf(ls) ==
    CASE "review" \in ls -> "human-review"
      [] "review" \notin ls /\ ls \cap {"progress", "progress-old"} # {} -> "in-progress"
      [] OTHER -> "ready"

Is(to, ls) == IF to = "closed" THEN "closed" \in ls ELSE StatusOf(ls) = to

Wanted(to) ==
    CASE to = "in-progress" -> {"progress"} [] to = "human-review" -> {"review"}
      [] to = "closed" -> {"closed"} [] OTHER -> {}

\* The labels that a call toggles.
Toggles(to, ls) ==
    (Wanted(to) \ ls) \cup (IF to = "closed" THEN {} ELSE (ls \cap Status) \ Wanted(to))

Login(w) == IF SameLogin THEN CHOOSE v \in Writer : TRUE ELSE w

\* An edit that changes nothing leaves no event.
Edit(l, on, login, by) ==
    IF (l \in labels) = on
      THEN UNCHANGED <<labels, log>>
      ELSE /\ labels' = IF on THEN labels \cup {l} ELSE labels \ {l}
           /\ log' = Append(log, [label |-> l, on |-> on, login |-> login, by |-> by])

ByHand ==
    /\ edits < MaxEdits /\ edits' = edits + 1
    /\ \E l \in Label : Edit(l, l \notin labels, Person, Person)
    /\ UNCHANGED call

-----------------------------------------------------------------------------
(* A call *)

Moves(w, at) == call' = [call EXCEPT ![w].at = at]
Returns(w, result) == call' = [call EXCEPT ![w].at = "done", ![w].result = result]

\* The labels as they are now.  A call with nothing to edit takes no baseline.
Reads(w) ==
    /\ call[w].at = "idle"
    /\ \E to \in Target :
         IF to = "closed" /\ "closed" \in labels
           THEN call' = [call EXCEPT ![w].at = "done", ![w].to = to,
                                     ![w].result = "already-matched"]
           ELSE call' = [call EXCEPT ![w].to = to, ![w].before = labels,
                           ![w].todo = Toggles(to, labels),
                           ![w].at = IF Toggles(to, labels) = {} THEN "confirm" ELSE "baseline"]
    /\ UNCHANGED <<labels, log, edits>>

\* The events so far; a failure to read them leaves the call without.
Baseline(w) ==
    /\ call[w].at = "baseline"
    /\ \E ok \in BOOLEAN :
         call' = [call EXCEPT ![w].at = "edit", ![w].base = Len(log), ![w].based = ok]
    /\ UNCHANGED <<labels, log, edits>>

Edits(w) ==
    /\ call[w].at = "edit"
    /\ \E l \in call[w].todo :
         /\ Edit(l, l \in Wanted(call[w].to), Login(w), w)
         /\ call' = [call EXCEPT ![w].todo = @ \ {l},
                                 ![w].at = IF call[w].todo = {l} THEN "confirm" ELSE "edit"]
    /\ UNCHANGED edits

Confirmed(to) == Toggles(to, labels) = {}

Matched(c) == c.to # "closed" /\ (StatusOf(c.before) = c.to \/ Toggles(c.to, c.before) = {})

Confirms(w) ==
    /\ call[w].at = "confirm"
    /\ CASE ~Confirmed(call[w].to) -> Returns(w, "failed")
         [] Confirmed(call[w].to) /\ Matched(call[w]) -> Returns(w, "already-matched")
         [] OTHER -> Moves(w, "receipt")
    /\ UNCHANGED <<labels, log, edits>>

-----------------------------------------------------------------------------
(* The receipt *)

\* The labels after the i-th event, as the call works them out.
After(c, i) ==
    {l \in Label :
       LET Changes == {j \in (c.base + 1)..i : log[j].label = l}
       IN IF Changes = {}
            THEN l \in c.before
            ELSE log[CHOOSE j \in Changes : \A k \in Changes : k <= j].on}

Makes(c, i) == ~Is(c.to, After(c, i - 1)) /\ Is(c.to, After(c, i))

Expected(c, e) ==
    CASE c.to = "closed" -> e.label = "closed" /\ e.on
      [] c.to = "human-review" -> e.label = "review" /\ e.on
      [] c.to \in {"in-progress", "ready"} /\ StatusOf(c.before) = "human-review" ->
           e.label = "review" /\ ~e.on
      [] OTHER -> e.label \in {"progress", "progress-old"} /\ e.on = (c.to = "in-progress")

\* Mutant of Authored: whoever brought it about.
AuthoredByAnyone(w, i) == Expected(call[w], log[i])

Authored(w, i) == Expected(call[w], log[i]) /\ log[i].login = Login(w)

\* The last event that brought about what was asked for, if it is one's own.
Receipt(w) ==
    LET c == call[w]
        Defining == {i \in (c.base + 1)..Len(log) :
                       /\ Makes(c, i) /\ \A j \in (i + 1)..Len(log) : ~Makes(c, j)
                       /\ Authored(w, i)}
    IN /\ c.at = "receipt"
       /\ IF c.based /\ Is(c.to, After(c, Len(log))) /\ Defining # {}
            THEN call' = [call EXCEPT ![w].at = "done", ![w].result = "applied",
                                      ![w].token = CHOOSE i \in Defining : TRUE]
            ELSE Returns(w, "acknowledged")
       /\ UNCHANGED <<labels, log, edits>>

ReceiptNext ==
    \/ \E w \in Writer : Reads(w) \/ Baseline(w) \/ Edits(w) \/ Confirms(w) \/ Receipt(w)
    \/ ByHand

-----------------------------------------------------------------------------
(* Properties *)

(* A call reports that it was applied only for an event that it brought    *)
(* about itself: of several writers and a person who change an issue at    *)
(* the same time, at most one owns a transition.                           *)
ReceiptIsOwn == \A w \in Writer : call[w].result = "applied" => log[call[w].token].by = w

=============================================================================
