---------------------------- MODULE GuardianCycle ----------------------------
(***************************************************************************)
(* The scheduled tick of the feature guardian: it reads the manifest of    *)
(* features and the progress of the cycle, reconciles the two, checks the  *)
(* next feature and checkpoints it at the revision it read.  Ticks may     *)
(* overlap and stop anywhere; features come and go.                        *)
(*                                                                         *)
(* A feature is its place in the order of criticality and tier.            *)
(***************************************************************************)
EXTENDS Naturals, FiniteSets

CONSTANTS Tick,       \* ticks that may overlap
          Features,   \* features there can be
          MaxChanges, MaxStops

VARIABLES manifest, \* the features of the checkout
          doc,      \* the progress record
          ticks,    \* a tick: where it is, what it read, whether its base is stale
          changes, stops

cycleVars == <<manifest, doc, ticks, changes, stops>>

Feature == 1 .. Features
Progress == [there : BOOLEAN, checked : SUBSET Feature, total : 0 .. Features]
Absent == [there |-> FALSE, checked |-> {}, total |-> 0]
Idle == [at |-> "idle", features |-> {}, base |-> Absent, stale |-> FALSE]

TypeOK ==
    /\ manifest \in SUBSET Feature \ {{}} /\ doc \in Progress
    /\ ticks \in [Tick -> [at : {"idle", "manifest", "loaded", "reconciled", "picking"}, features : SUBSET Feature,
                           base : Progress, stale : BOOLEAN]]
    /\ changes \in 0 .. MaxChanges /\ stops \in 0 .. MaxStops

Init ==
    /\ manifest \in SUBSET Feature \ {{}} /\ doc = Absent /\ ticks = [t \in Tick |-> Idle]
    /\ changes = 0 /\ stops = 0

-----------------------------------------------------------------------------

(* A write at the revision that was read; another revision, and the tick   *)
(* throws.                                                                 *)
Saves(t, new, next) ==
    IF ticks[t].stale
    THEN ticks' = [ticks EXCEPT ![t] = Idle] /\ UNCHANGED doc
    ELSE /\ doc' = new
         /\ ticks' = [u \in Tick |->
              IF u # t THEN [ticks[u] EXCEPT !.stale = TRUE]
              ELSE IF next = "idle" THEN Idle ELSE [ticks[t] EXCEPT !.at = next, !.base = new]]

(* classifyManifestDelta                                                   *)
Retired(t) == ticks[t].base.checked \ ticks[t].features
Unsafe(t) ==
    \/ ticks[t].base.total > Cardinality(ticks[t].features) + 1
    \/ Cardinality(Retired(t)) > 1

Fresh(t) == [there |-> TRUE, checked |-> {}, total |-> Cardinality(ticks[t].features)]

-----------------------------------------------------------------------------

Begins(t) ==
    /\ ticks[t].at = "idle"
    /\ ticks' = [ticks EXCEPT ![t] = [Idle EXCEPT !.at = "manifest", !.features = manifest]]
    /\ UNCHANGED <<manifest, doc, changes, stops>>

Loads(t) ==
    /\ ticks[t].at = "manifest"
    /\ ticks' = [ticks EXCEPT ![t].at = "loaded", ![t].base = doc, ![t].stale = FALSE]
    /\ UNCHANGED <<manifest, doc, changes, stops>>

(* A missing record is the only bootstrap.                                 *)
Bootstraps(t) ==
    /\ ticks[t].at = "loaded" /\ ~ticks[t].base.there
    /\ Saves(t, Fresh(t), "loaded")
    /\ UNCHANGED <<manifest, changes, stops>>

Refuses(t) ==
    /\ ticks[t].at = "loaded" /\ ticks[t].base.there /\ Unsafe(t)
    /\ ticks' = [ticks EXCEPT ![t] = Idle]
    /\ UNCHANGED <<manifest, doc, changes, stops>>

(* One checked feature that is gone starts the cycle again; any other      *)
(* change keeps what is checked.                                           *)
Reconciles(t) ==
    LET p == ticks[t].base IN
    /\ ticks[t].at = "loaded" /\ p.there /\ ~Unsafe(t)
    /\ IF Retired(t) # {} THEN Saves(t, Fresh(t), "reconciled")
       ELSE IF p.total # Cardinality(ticks[t].features)
       THEN Saves(t, [p EXCEPT !.total = Cardinality(ticks[t].features)], "reconciled")
       ELSE ticks' = [ticks EXCEPT ![t].at = "reconciled"] /\ UNCHANGED doc
    /\ UNCHANGED <<manifest, changes, stops>>

(* A complete cycle starts again.                                          *)
Cycles(t) ==
    /\ ticks[t].at = "reconciled"
    /\ IF ticks[t].features \subseteq ticks[t].base.checked THEN Saves(t, Fresh(t), "picking")
       ELSE ticks' = [ticks EXCEPT ![t].at = "picking"] /\ UNCHANGED doc
    /\ UNCHANGED <<manifest, changes, stops>>

(* The next feature, checked and checkpointed.                             *)
Checks(t) ==
    LET open == ticks[t].features \ ticks[t].base.checked IN
    /\ ticks[t].at = "picking"
    /\ \E f \in open : /\ \A g \in open : f <= g
                       /\ Saves(t, [ticks[t].base EXCEPT !.checked = @ \cup {f}], "idle")
    /\ UNCHANGED <<manifest, changes, stops>>

Stops(t) ==
    /\ ticks[t].at # "idle" /\ stops < MaxStops
    /\ stops' = stops + 1 /\ ticks' = [ticks EXCEPT ![t] = Idle]
    /\ UNCHANGED <<manifest, doc, changes>>

(* A feature is added, or retired.                                         *)
ManifestChanges ==
    /\ changes < MaxChanges /\ changes' = changes + 1
    /\ \E f \in Feature : manifest' \in {manifest \cup {f}, manifest \ {f}} \ {manifest, {}}
    /\ UNCHANGED <<doc, ticks, stops>>

Step(t) == Loads(t) \/ Bootstraps(t) \/ Refuses(t) \/ Reconciles(t) \/ Cycles(t) \/ Checks(t)

CycleNext == ManifestChanges \/ \E t \in Tick : Begins(t) \/ Step(t) \/ Stops(t)

-----------------------------------------------------------------------------
(* Properties *)

(* Progress that the present manifest is refused for, until the manifest   *)
(* is repaired.                                                            *)
Refused == doc.total > Cardinality(manifest) + 1 \/ Cardinality(doc.checked \ manifest) > 1

(* Every feature that stays in the manifest is checked again and again,    *)
(* whatever ticks overlap or stop, unless too many features went at once.  *)
Checked(f) == f \in doc.checked \/ Refused

=============================================================================
