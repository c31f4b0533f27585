------------------------- MODULE ControlPlaneCircuit -------------------------
(***************************************************************************)
(* The circuit breaker before the fleet's control plane.                   *)
(*                                                                         *)
(* Before a worker is spawned, the control plane must have shown recently  *)
(* that it answers: a roster read is probed, one at a time, and shared by  *)
(* all who wait.  Failures of reads and of spawns open the circuit for a   *)
(* while; then one fresh probe decides.  Requests outlive the state they   *)
(* were made in, so an answer counts only for the opening it was asked     *)
(* under.  A roster that was read before keeps a closed circuit usable     *)
(* when a read fails.                                                      *)
(***************************************************************************)
EXTENDS FiniteSets, Naturals

CONSTANTS Probe,      \* roster reads, each in flight once at a time
          Mutation,   \* spawns and resumes, each under way once at a time
          Threshold,  \* failures that open the circuit
          Outages,    \* bound: times the control plane goes down
          Openings    \* bound: once it has opened so often, nothing more is
                      \* asked of a control plane that is down

VARIABLES failures,   \* #consecutiveFailures, counted up to Threshold
          cooling,    \* #retryAtMs lies in the future
          opened,     \* #openGeneration
          cached,     \* #cachedRoster: none, usable or older than its TTL
          refresh,    \* #rosterRefreshAfterMs: none, in the future or past
          current,    \* #probeInFlight
          probes,     \* the reads in flight
          evidence,   \* lastSuccessfulEvidenceAtMs within the admission lease
          mutations,  \* the spawns and resumes under way
          up,         \* the control plane answers
          outages     \* those of Outages so far

circuitVars == <<failures, cooling, opened, cached, refresh, current, probes, evidence, mutations,
                 up, outages>>

(* doomed: asked while the control plane was down, and not yet answered.   *)
(* read: somebody else than an admission waits for it, too.                *)
NoProbe == [asked |-> FALSE, opening |-> 0, doomed |-> FALSE, read |-> FALSE]
NoMutation == [pc |-> "idle", probe |-> {}, opening |-> 0]

(* Each of those in flight can open the circuit once more.                 *)
Opening == 0 .. Openings + Cardinality(Probe) + Cardinality(Mutation)
Bounded == up \/ opened < Openings

TypeOK ==
    /\ failures \in 0 .. Threshold /\ cooling \in BOOLEAN /\ opened \in Opening
    /\ cached \in {"none", "usable", "expired"} /\ refresh \in {"none", "waits", "due"}
    /\ current \subseteq Probe /\ Cardinality(current) <= 1
    /\ probes \in [Probe -> [asked : BOOLEAN, opening : Opening, doomed : BOOLEAN, read : BOOLEAN]]
    /\ \A q \in current : probes[q].asked
    /\ evidence \in BOOLEAN
    /\ mutations \in [Mutation -> [pc : {"idle", "waits", "runs"}, probe : SUBSET Probe, opening : Opening]]
    /\ up \in BOOLEAN /\ outages \in 0 .. Outages

State == IF failures < Threshold THEN "closed" ELSE IF cooling THEN "open" ELSE "half-open"

HasFreshEvidence == evidence /\ cached = "usable"

Init ==
    /\ failures = 0 /\ cooling = FALSE /\ opened = 0 /\ cached = "none" /\ refresh = "none"
    /\ current = {} /\ probes = [q \in Probe |-> NoProbe] /\ evidence = FALSE
    /\ mutations = [m \in Mutation |-> NoMutation] /\ up = TRUE /\ outages = 0

-----------------------------------------------------------------------------
(* Reads *)

(* One that began before the circuit opened cannot recover it.             *)
Joinable == current # {} /\ (State # "half-open" \/ \A q \in current : probes[q].opening = opened)

Asks(q, read) ==
    /\ ~probes[q].asked /\ Bounded
    /\ current' = {q}
    /\ probes' = [probes EXCEPT ![q] = [asked |-> TRUE, opening |-> opened, doomed |-> ~up, read |-> read]]

(* A read that is not an admission: a sweep, a cleanup, an exit check.     *)
ReadBegins(q) ==
    /\ State # "open"
    /\ \/ Joinable /\ q \in current /\ probes' = [probes EXCEPT ![q].read = TRUE] /\ UNCHANGED current
       \/ ~Joinable /\ Asks(q, TRUE)
    /\ UNCHANGED <<failures, cooling, opened, cached, refresh, evidence, mutations, up, outages>>

Waiting(q) == {m \in Mutation : mutations[m].pc = "waits" /\ q \in mutations[m].probe}

(* Those who waited for q go on, the others among them are refused.        *)
Admits(q, admitted) ==
    mutations' = [m \in Mutation |->
        IF m \in admitted THEN [NoMutation EXCEPT !.pc = "runs"]
        ELSE IF m \in Waiting(q) THEN NoMutation ELSE mutations[m]]

ProbeOver(q) == probes' = [probes EXCEPT ![q] = NoProbe] /\ current' = current \ {q}

ProbeAnswered(q) ==
    /\ probes[q].asked /\ ~probes[q].doomed
    /\ ProbeOver(q)
    /\ \/ /\ State # "open" /\ probes[q].opening = opened
          /\ failures' = 0 /\ cooling' = FALSE /\ cached' = "usable" /\ refresh' = "none"
          /\ evidence' = (evidence \/ Waiting(q) # {})
          /\ Admits(q, Waiting(q))
       \/ /\ State = "open" \/ probes[q].opening # opened
          /\ evidence' = FALSE
          /\ Admits(q, {})
          /\ UNCHANGED <<failures, cooling, cached, refresh>>
    /\ UNCHANGED <<opened, up, outages>>

(* A failure counts unless the circuit is open.                            *)
RecordFailure ==
    LET count == IF cooling THEN failures ELSE IF failures = Threshold THEN Threshold ELSE failures + 1
        opens == ~cooling /\ count = Threshold IN
    /\ failures' = count /\ cooling' = (cooling \/ opens) /\ opened' = IF opens THEN opened + 1 ELSE opened

(* A usable roster keeps a closed circuit closed and is the answer of      *)
(* those who take a stale one.  Admission takes that for evidence, too.    *)
ProbeFails(q) ==
    LET kept == failures < Threshold /\ cached = "usable"
        stale == kept /\ probes[q].opening = opened
        fallback == {m \in Waiting(q) : stale /\ mutations[m].opening = opened} IN
    /\ probes[q].asked /\ (probes[q].doomed \/ ~up)
    /\ ProbeOver(q)
    /\ IF probes[q].opening # opened THEN UNCHANGED <<failures, cooling, opened, refresh>>
       ELSE /\ refresh' = "waits"
            /\ IF kept THEN UNCHANGED <<failures, cooling, opened>> ELSE RecordFailure
    /\ evidence' = (fallback # {} /\ ~probes[q].read)
    /\ Admits(q, fallback)
    /\ UNCHANGED <<cached, up, outages>>

-----------------------------------------------------------------------------
(* Spawns and resumes *)

Runs(m) == mutations' = [mutations EXCEPT ![m] = [NoMutation EXCEPT !.pc = "runs"]]
Waits(m, q) == mutations' = [mutations EXCEPT ![m] = [pc |-> "waits", probe |-> {q}, opening |-> opened]]

(* Fresh evidence, or a usable roster that need not be refreshed yet,      *)
(* admits at once.                                                         *)
AdmittedAtOnce(m) ==
    /\ mutations[m].pc = "idle" /\ State = "closed" /\ Bounded
    /\ \/ HasFreshEvidence
       \/ cached = "usable" /\ refresh = "waits"
    /\ evidence' = TRUE
    /\ Runs(m)
    /\ UNCHANGED <<failures, cooling, opened, cached, refresh, current, probes, up, outages>>

AdmissionProbes(m, q) ==
    /\ mutations[m].pc = "idle" /\ State # "open"
    /\ State = "half-open" \/ ~HasFreshEvidence
    /\ ~(State = "closed" /\ cached = "usable" /\ refresh = "waits")
    /\ Waits(m, q)
    /\ \/ Joinable /\ q \in current /\ UNCHANGED <<current, probes>>
       \/ ~Joinable /\ Asks(q, FALSE)
    /\ UNCHANGED <<failures, cooling, opened, cached, refresh, evidence, up, outages>>

Succeeds(m) ==
    /\ mutations[m].pc = "runs"
    /\ evidence' = TRUE /\ mutations' = [mutations EXCEPT ![m] = NoMutation]
    /\ UNCHANGED <<failures, cooling, opened, cached, refresh, current, probes, up, outages>>

(* Refused for a reason of its own, or for want of a control plane.        *)
Fails(m) ==
    /\ mutations[m].pc = "runs"
    /\ evidence' = FALSE /\ mutations' = [mutations EXCEPT ![m] = NoMutation]
    /\ \/ UNCHANGED <<failures, cooling, opened>>
       \/ ~up /\ RecordFailure
    /\ UNCHANGED <<cached, refresh, current, probes, up, outages>>

-----------------------------------------------------------------------------
(* Time and the control plane *)

CoolsDown ==
    /\ cooling
    /\ cooling' = FALSE
    /\ UNCHANGED <<failures, opened, cached, refresh, current, probes, evidence, mutations, up, outages>>

Ages ==
    /\ \/ refresh = "waits" /\ refresh' = "due" /\ UNCHANGED <<cached, evidence>>
       \/ cached = "usable" /\ cached' = "expired" /\ UNCHANGED <<refresh, evidence>>
       \/ evidence /\ evidence' = FALSE /\ UNCHANGED <<cached, refresh>>
    /\ UNCHANGED <<failures, cooling, opened, current, probes, mutations, up, outages>>

GoesDown ==
    /\ up /\ outages < Outages
    /\ up' = FALSE /\ outages' = outages + 1
    /\ UNCHANGED <<failures, cooling, opened, cached, refresh, current, probes, evidence, mutations>>

(* The reads that were asked meanwhile fail, at their timeout at last.     *)
ComesUp ==
    /\ ~up
    /\ up' = TRUE
    /\ UNCHANGED <<failures, cooling, opened, cached, refresh, current, probes, evidence, mutations, outages>>

-----------------------------------------------------------------------------

CircuitNext ==
    \/ \E q \in Probe : ReadBegins(q) \/ ProbeAnswered(q) \/ ProbeFails(q)
    \/ \E m \in Mutation : AdmittedAtOnce(m) \/ Succeeds(m) \/ Fails(m)
    \/ \E m \in Mutation, q \in Probe : AdmissionProbes(m, q)
    \/ CoolsDown \/ Ages \/ GoesDown \/ ComesUp

-----------------------------------------------------------------------------
(* Properties *)

(* The circuit does not stay open once the control plane answers again.    *)
CircuitRecovered == failures < Threshold

=============================================================================
