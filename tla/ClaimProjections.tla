--------------------------- MODULE ClaimProjections ---------------------------
(***************************************************************************)
(* What a factory may conclude from an issue's labels as its connected     *)
(* projection shows them.  The projection is a copy that lags behind the   *)
(* provider, a claim is a replacement of the whole label set whose receipt *)
(* proves nothing, and "ready" is what the projection shows before a claim *)
(* has landed as well as after it was removed again.  The adapter believes *)
(* a fresh "ready" only if it is newer than a projection that it has seen  *)
(* with the claim.                                                         *)
(*                                                                         *)
(* The provider's versions are kept in order; the place of a version is    *)
(* the time of its update.  A claim of a factory ends, and leaves its      *)
(* request behind if that was not answered in time.                        *)
(***************************************************************************)
EXTENDS Naturals, Sequences

CONSTANTS MaxClaims, MaxEdits

VARIABLES versions, shown, anchor, claim, request, claims, edits, trusted

projectionVars == <<versions, shown, anchor, claim, request, claims, edits, trusted>>

Status == {"ready", "in-progress", "human-review"}

TypeOK ==
    /\ Len(versions) > 0 /\ \A i \in DOMAIN versions : versions[i] \in Status
    /\ shown \in DOMAIN versions /\ anchor \in 0..Len(versions)
    /\ claim \in [at : {"none", "sent", "unsure"}, since : Nat]
    /\ request \in BOOLEAN
    /\ claims \in 0..MaxClaims /\ edits \in 0..MaxEdits
    /\ trusted \in {"nothing", "ready", "human-review"}

ProjectionInit ==
    /\ versions = <<"ready">> /\ shown = 1 /\ anchor = 0
    /\ claim = [at |-> "none", since |-> 0] /\ request = FALSE /\ claims = 0 /\ edits = 0
    /\ trusted = "nothing"

Latest == versions[Len(versions)]
Add(version) == versions' = Append(versions, version)

-----------------------------------------------------------------------------
(* The provider and its projection *)

Lag ==
    /\ shown < Len(versions) /\ shown' \in (shown + 1)..Len(versions)
    /\ UNCHANGED <<versions, anchor, claim, request, claims, edits, trusted>>

\* A request that was sent takes effect, whether anyone still waits for it.
Lands ==
    /\ request /\ request' = FALSE
    /\ Add("in-progress")
    /\ UNCHANGED <<shown, anchor, claim, claims, edits, trusted>>

Loses ==
    /\ request /\ claim.at = "unsure" /\ request' = FALSE
    /\ UNCHANGED <<versions, shown, anchor, claim, claims, edits, trusted>>

\* A person edits the text, or the status.
ByHand ==
    /\ edits < MaxEdits /\ edits' = edits + 1
    /\ \/ Add(Latest)
       \/ Latest = "in-progress" /\ Add("ready")
       \/ Latest # "human-review" /\ Add("human-review")
    /\ UNCHANGED <<shown, anchor, claim, request, claims, trusted>>

-----------------------------------------------------------------------------
(* The adapter *)

\* #anchorClaimProjection, at every read that shows the claim.
Anchor == IF versions[shown] = "in-progress" /\ shown > anchor THEN shown ELSE anchor

\* setStatus, for an issue that the projection shows to be ready.
Claim ==
    /\ claim.at = "none" /\ ~request /\ claims < MaxClaims /\ claims' = claims + 1
    /\ versions[shown] = "ready"
    /\ claim' = [at |-> "sent", since |-> Len(versions)]
    /\ request' = TRUE
    /\ UNCHANGED <<versions, shown, anchor, edits, trusted>>

\* No answer in time, or a dispatch that is given up: is the claim still there?
Unsure ==
    /\ claim.at = "sent" /\ claim' = [claim EXCEPT !.at = "unsure"]
    /\ UNCHANGED <<versions, shown, anchor, request, claims, edits, trusted>>

\* Any read anchors, also those that ask for nothing fresh.
Reads ==
    /\ anchor' = Anchor /\ anchor' # anchor
    /\ UNCHANGED <<versions, shown, claim, request, claims, edits, trusted>>

\* #postdatesClaimMutation.
Postdates(status) ==
    /\ shown > claim.since
    /\ (anchor > 0 /\ shown > anchor) \/ status # "ready"

\* getIssueStatus for a claim that must not block the factory any longer.
Trusts ==
    /\ claim.at = "unsure"
    /\ LET status == versions[shown]
       IN /\ status # "in-progress" /\ Postdates(status) /\ trusted' = status
    /\ claim' = [claim EXCEPT !.at = "none"]
    /\ UNCHANGED <<versions, shown, anchor, request, claims, edits>>

ProjectionNext ==
    \/ Lag \/ Lands \/ Loses \/ ByHand \/ Claim \/ Unsure \/ Reads \/ Trusts

-----------------------------------------------------------------------------
(* Properties *)

(* A claim that is taken to be gone because the issue is ready again has   *)
(* landed and was removed since: it is not still on its way to an issue    *)
(* that others are free to work on by now.                                 *)
FreshReadyIsReal == claim.at = "none" /\ trusted = "ready" => ~request

=============================================================================
