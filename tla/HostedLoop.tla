----------------------------- MODULE HostedLoop -----------------------------
(***************************************************************************)
(* The hosted orchestrator: short operations over one durable record.      *)
(*                                                                         *)
(* A sweep reconciles the record of an issue, triages it and spawns its    *)
(* invocations; the ingestion of a completion records what an agent        *)
(* reported.  Every operation claims the workspace lease under a fresh     *)
(* owner, renews it before each call to the outside and writes only while  *)
(* it holds it.  An operation may stall past its lease or die at any       *)
(* point, calls to the outside may have happened all the same, and         *)
(* completions arrive late, twice or out of order.                         *)
(***************************************************************************)
EXTENDS FiniteSets, Naturals

CONSTANTS Slot,         \* slots in which operations run, one after the other
          Inv,          \* invocations of the issue's decision
          MaxHostedTroubles  \* bound: leases that run out, operations that die, failed calls

(* The lease says "none" and "gone" of itself: neither is an operation.     *)
ASSUME HostedAssumption == "none" \notin Slot /\ "gone" \notin Slot /\ MaxHostedTroubles \in Nat

VARIABLES lease,     \* holder of the live lease; "gone" is an operation that died
          record,    \* the stored record
          op,        \* per slot: the operation that runs there
          agent,     \* per invocation: what became of it in the fleet
          clear,     \* the issue says enough to be dispatched
          announced, \* verdicts the completion writeback has posted
          hostedTroubles   \* those of MaxHostedTroubles so far

hostedVars == <<lease, record, op, agent, clear, announced, hostedTroubles>>

Finished == {"completed", "failed"}
Writeback == {"clarification", "dispatch", "completion"}

Record ==
    [phase : {"none", "triaging", "awaiting-clarification", "dispatching", "running",
              "merge-gate", "complete", "blocked"},
     invocations : [Inv -> {"absent", "pending", "dispatched"} \union Finished],
     writeback : [Writeback -> {"none", "pending", "failed", "posted"}],
     gate : {"none", "ready", "blocked"}]

NewRecord == [phase |-> "none", invocations |-> [i \in Inv |-> "absent"],
              writeback |-> [k \in Writeback |-> "none"], gate |-> "none"]

(* stage tells a sweep that reconciles from one that has discovered the    *)
(* issue and from the ingestion of a completion; rec is the operation's    *)
(* copy, kind the writeback under way, next where it goes on after it.     *)
Operation ==
    [pc : {"idle", "reconcile", "report", "note", "post", "noted", "spawn", "spawned", "poll",
           "gate", "decide", "final", "discover", "triage", "release"},
     stage : {"reconcile", "discover", "completion"}, rec : Record, kind : Writeback,
     posted : BOOLEAN, next : {"discover", "poll", "final", "release"}]

NoOperation == [pc |-> "idle", stage |-> "completion", rec |-> NewRecord, kind |-> "dispatch",
                posted |-> FALSE, next |-> "release"]

HostedTypes ==
    /\ lease \in Slot \union {"none", "gone"}
    /\ record \in Record
    /\ op \in [Slot -> Operation]
    /\ agent \in [Inv -> {"none", "works"} \union Finished]
    /\ clear \in BOOLEAN /\ announced \subseteq {"ready", "blocked"}
    /\ hostedTroubles \in 0 .. MaxHostedTroubles

-----------------------------------------------------------------------------
(* Helpers *)

HostedTrouble == hostedTroubles < MaxHostedTroubles /\ hostedTroubles' = hostedTroubles + 1
OpAt(o, pc) == op[o].pc = pc
Rec(o) == op[o].rec
AllDone(r) == \A i \in Inv : r.invocations[i] \in Finished
Onward(o) == IF op[o].stage = "reconcile" THEN "discover" ELSE "release"

Goes(o, r, pc) == op' = [op EXCEPT ![o].rec = r, ![o].pc = pc]
Notes(o, r, k, next) == op' = [op EXCEPT ![o].rec = r, ![o].pc = "note", ![o].kind = k,
                                          ![o].next = next, ![o].posted = FALSE]
OpEnds(o) == op' = [op EXCEPT ![o].pc = "release"]

(* A write under a lease that is not live any more is refused, and the     *)
(* operation ends.                                                         *)
SaveRecord(o, r) == record' = IF lease = o THEN r ELSE record

HostedInit ==
    /\ lease = "none" /\ record = NewRecord /\ op = [o \in Slot |-> NoOperation]
    /\ agent = [i \in Inv |-> "none"] /\ clear = FALSE /\ announced = {} /\ hostedTroubles = 0

-----------------------------------------------------------------------------
(* The two operations begin *)

BeginSweep(o) ==
    /\ OpAt(o, "idle") /\ lease = "none"
    /\ lease' = o
    /\ op' = [op EXCEPT ![o] = [NoOperation EXCEPT !.pc = "reconcile", !.stage = "reconcile",
                                                   !.rec = record]]
    /\ UNCHANGED <<record, agent, clear, announced, hostedTroubles>>

(* The first terminal report of an agent wins.                             *)
Applied(r, i, status) ==
    IF r.invocations[i] \in Finished THEN r ELSE [r EXCEPT !.invocations[i] = status]

(* A report of an agent that was started: late, repeated, out of order.    *)
BeginCompletion(o, i, status) ==
    /\ OpAt(o, "idle") /\ lease = "none"
    /\ agent[i] \in Finished /\ status \in {"dispatched"} \union Finished
    /\ record.invocations[i] # "absent" /\ record.phase \notin {"complete", "blocked"}
    /\ lease' = o
    /\ op' = [op EXCEPT ![o] = [NoOperation EXCEPT !.pc = "report",
                                                   !.rec = Applied(record, i, status)]]
    /\ UNCHANGED <<record, agent, clear, announced, hostedTroubles>>

ReportSaved(o) ==
    /\ OpAt(o, "report")
    /\ SaveRecord(o, Rec(o))
    /\ IF lease = o /\ AllDone(Rec(o)) THEN Goes(o, Rec(o), "gate") ELSE OpEnds(o)
    /\ UNCHANGED <<lease, agent, clear, announced, hostedTroubles>>

-----------------------------------------------------------------------------
(* Reconciliation *)

(* Mutant: a record whose dispatch was interrupted is left to discovery,   *)
(* which takes it for one that runs.                                       *)
ReconcileRunning(o) ==
    LET r == Rec(o) IN
    /\ OpAt(o, "reconcile")
    /\ \/ r.phase = "running" /\ lease = o /\ Notes(o, r, "dispatch", "poll")
       \/ r.phase = "merge-gate" /\ lease = o /\ Goes(o, r, "poll")
       \/ r.phase \in {"running", "merge-gate"} /\ lease # o /\ OpEnds(o)
       \/ r.phase \in {"none", "triaging", "awaiting-clarification"} /\ Goes(o, r, "discover")
       \/ r.phase \in {"complete", "blocked", "dispatching"} /\ OpEnds(o)
    /\ UNCHANGED <<lease, record, agent, clear, announced, hostedTroubles>>

Reconcile(o) ==
    LET r == Rec(o) IN
    /\ OpAt(o, "reconcile")
    /\ \/ r.phase = "awaiting-clarification" /\ Notes(o, r, "clarification", "discover")
       \/ r.phase = "dispatching" /\ Goes(o, r, "spawn")
       \/ r.phase = "running" /\ lease = o /\ Notes(o, r, "dispatch", "poll")
       \/ r.phase = "merge-gate" /\ lease = o /\ Goes(o, r, "poll")
       \/ r.phase \in {"running", "merge-gate"} /\ lease # o /\ OpEnds(o)
       \/ r.phase \in {"none", "triaging", "complete", "blocked"} /\ Goes(o, r, "discover")
    /\ UNCHANGED <<lease, record, agent, clear, announced, hostedTroubles>>

(* Every invocation that is not over is asked for; one the fleet does not  *)
(* know keeps its status.                                                  *)
Polled(r, i) ==
    IF r.invocations[i] \in Finished \/ agent[i] = "none" THEN r.invocations[i]
    ELSE IF agent[i] = "works" THEN "dispatched" ELSE agent[i]

Poll(o) ==
    LET r == [Rec(o) EXCEPT !.invocations = [i \in Inv |-> Polled(Rec(o), i)]]
        onward == IF AllDone(r) THEN "gate" ELSE "discover" IN
    /\ OpAt(o, "poll")
    /\ IF r = Rec(o) THEN Goes(o, r, onward) /\ UNCHANGED record
       ELSE SaveRecord(o, r) /\ IF lease = o THEN Goes(o, r, onward) ELSE OpEnds(o)
    /\ UNCHANGED <<lease, agent, clear, announced, hostedTroubles>>

-----------------------------------------------------------------------------
(* Dispatch *)

(* Invocations are spawned one by one; the lease is renewed before each.   *)
Spawn(o, i) ==
    /\ OpAt(o, "spawn") /\ Rec(o).invocations[i] = "pending"
    /\ IF lease = o
       THEN /\ agent' = [agent EXCEPT ![i] = IF @ = "none" THEN "works" ELSE @]
            /\ Goes(o, [Rec(o) EXCEPT !.invocations[i] = "dispatched"], "spawned")
       ELSE OpEnds(o) /\ UNCHANGED agent
    /\ UNCHANGED <<lease, record, clear, announced, hostedTroubles>>

(* The call fails, or the agent starts and the answer is lost.             *)
SpawnFails(o, i) ==
    /\ OpAt(o, "spawn") /\ Rec(o).invocations[i] = "pending" /\ lease = o
    /\ HostedTrouble
    /\ agent' \in {agent, [agent EXCEPT ![i] = IF @ = "none" THEN "works" ELSE @]}
    /\ op' = [op EXCEPT ![o].pc = Onward(o)]
    /\ UNCHANGED <<lease, record, clear, announced>>

SpawnSaved(o) ==
    /\ OpAt(o, "spawned")
    /\ SaveRecord(o, Rec(o))
    /\ IF lease = o THEN Goes(o, Rec(o), "spawn") ELSE OpEnds(o)
    /\ UNCHANGED <<lease, agent, clear, announced, hostedTroubles>>

Started(o) ==
    LET r == [Rec(o) EXCEPT !.phase = "running"] IN
    /\ OpAt(o, "spawn") /\ \A i \in Inv : Rec(o).invocations[i] # "pending"
    /\ SaveRecord(o, r)
    /\ IF lease = o THEN Notes(o, r, "dispatch", Onward(o)) ELSE OpEnds(o)
    /\ UNCHANGED <<lease, agent, clear, announced, hostedTroubles>>

-----------------------------------------------------------------------------
(* Writebacks *)

(* One that was posted is not posted again.                                *)
Note(o) ==
    LET r == [Rec(o) EXCEPT !.writeback[op[o].kind] = "pending"] IN
    /\ OpAt(o, "note")
    /\ IF Rec(o).writeback[op[o].kind] = "posted"
       THEN Goes(o, Rec(o), op[o].next) /\ UNCHANGED record
       ELSE SaveRecord(o, r) /\ IF lease = o THEN Goes(o, r, "post") ELSE OpEnds(o)
    /\ UNCHANGED <<lease, agent, clear, announced, hostedTroubles>>

Says(o) == IF op[o].kind = "completion" THEN {Rec(o).gate} ELSE {}

Post(o) ==
    /\ OpAt(o, "post")
    /\ IF lease = o
       THEN /\ announced' = announced \union Says(o)
            /\ op' = [op EXCEPT ![o].pc = "noted", ![o].posted = TRUE]
       ELSE OpEnds(o) /\ UNCHANGED announced
    /\ UNCHANGED <<lease, record, agent, clear, hostedTroubles>>

(* A call that fails may have been made all the same.                      *)
PostFails(o) ==
    /\ OpAt(o, "post") /\ lease = o
    /\ HostedTrouble
    /\ announced' \in {announced, announced \union Says(o)}
    /\ op' = [op EXCEPT ![o].pc = "noted"]
    /\ UNCHANGED <<lease, record, agent, clear>>

Noted(o) ==
    LET r == [Rec(o) EXCEPT !.writeback[op[o].kind] =
                  IF op[o].posted THEN "posted" ELSE "failed"] IN
    /\ OpAt(o, "noted")
    /\ SaveRecord(o, r)
    /\ IF lease = o THEN Goes(o, r, op[o].next) ELSE OpEnds(o)
    /\ UNCHANGED <<lease, agent, clear, announced, hostedTroubles>>

-----------------------------------------------------------------------------
(* The merge gate *)

Gate(o) ==
    LET r == [Rec(o) EXCEPT !.phase = "merge-gate"] IN
    /\ OpAt(o, "gate")
    /\ SaveRecord(o, r)
    /\ IF lease = o THEN Goes(o, r, "decide") ELSE OpEnds(o)
    /\ UNCHANGED <<lease, agent, clear, announced, hostedTroubles>>

(* Where no gate is configured every invocation has to have completed.     *)
Verdict(r) == IF \A i \in Inv : r.invocations[i] = "completed" THEN "ready" ELSE "blocked"

DecideVerdict(o) ==
    LET r == [Rec(o) EXCEPT !.gate = Verdict(Rec(o))] IN
    /\ OpAt(o, "decide")
    /\ SaveRecord(o, r)
    /\ IF lease = o THEN Notes(o, r, "completion", "final") ELSE OpEnds(o)
    /\ UNCHANGED <<lease, agent, clear, announced, hostedTroubles>>

(* Mutant: the verdict is final whether or not anybody was told.           *)
FinalUntold(o) ==
    LET r == [Rec(o) EXCEPT !.phase = IF Rec(o).gate = "ready" THEN "complete" ELSE "blocked"] IN
    /\ OpAt(o, "final")
    /\ SaveRecord(o, r)
    /\ IF lease = o THEN Goes(o, r, Onward(o)) ELSE OpEnds(o)
    /\ UNCHANGED <<lease, agent, clear, announced, hostedTroubles>>

Final(o) ==
    LET r == [Rec(o) EXCEPT !.phase = IF Rec(o).gate = "ready" THEN "complete" ELSE "blocked"]
        told == Rec(o).writeback["completion"] = "posted" IN
    /\ OpAt(o, "final")
    /\ IF told THEN SaveRecord(o, r) ELSE UNCHANGED record
    /\ IF told /\ lease = o THEN Goes(o, r, Onward(o)) ELSE op' = [op EXCEPT ![o].pc = Onward(o)]
    /\ UNCHANGED <<lease, agent, clear, announced, hostedTroubles>>

-----------------------------------------------------------------------------
(* Discovery and triage *)

Discover(o) ==
    LET r == [record EXCEPT !.phase = "triaging"] IN
    /\ OpAt(o, "discover")
    /\ \/ /\ lease = o /\ record.phase = "dispatching"
          /\ op' = [op EXCEPT ![o].rec = record, ![o].pc = "spawn", ![o].stage = "discover"]
          /\ UNCHANGED record
       \/ /\ lease = o /\ record.phase \in {"none", "triaging", "awaiting-clarification"}
          /\ record' = r
          /\ op' = [op EXCEPT ![o].rec = r, ![o].pc = "triage", ![o].stage = "discover"]
       \/ /\ lease # o \/ record.phase \in {"running", "merge-gate", "complete", "blocked"}
          /\ OpEnds(o) /\ UNCHANGED record
    /\ UNCHANGED <<lease, agent, clear, announced, hostedTroubles>>

(* The decision names the invocations, or asks for a clarification.        *)
Triage(o) ==
    LET asks == [Rec(o) EXCEPT !.phase = "awaiting-clarification"]
        plans == [Rec(o) EXCEPT !.phase = "dispatching", !.invocations = [i \in Inv |-> "pending"]]
        r == IF clear THEN plans ELSE asks IN
    /\ OpAt(o, "triage")
    /\ SaveRecord(o, r)
    /\ \/ lease = o /\ clear /\ Goes(o, r, "spawn")
       \/ lease = o /\ ~clear /\ Notes(o, r, "clarification", "release")
       \/ lease # o /\ OpEnds(o)
    /\ UNCHANGED <<lease, agent, clear, announced, hostedTroubles>>

TriageFails(o) ==
    /\ OpAt(o, "triage")
    /\ HostedTrouble
    /\ OpEnds(o)
    /\ UNCHANGED <<lease, record, agent, clear, announced>>

-----------------------------------------------------------------------------
(* Operations end, or do not *)

ReleaseLease(o) ==
    /\ OpAt(o, "release")
    /\ lease' = IF lease = o THEN "none" ELSE lease
    /\ op' = [op EXCEPT ![o] = NoOperation]
    /\ UNCHANGED <<record, agent, clear, announced, hostedTroubles>>

Dies(o) ==
    /\ ~OpAt(o, "idle")
    /\ HostedTrouble
    /\ lease' = IF lease = o THEN "gone" ELSE lease
    /\ op' = [op EXCEPT ![o] = NoOperation]
    /\ UNCHANGED <<record, agent, clear, announced>>

(* The lease of an operation that stalls runs out under it.                *)
Stalls(o) ==
    /\ lease = o
    /\ HostedTrouble
    /\ lease' = "none"
    /\ UNCHANGED <<record, op, agent, clear, announced>>

Expires ==
    /\ lease = "gone" /\ lease' = "none"
    /\ UNCHANGED <<record, op, agent, clear, announced, hostedTroubles>>

Clarifies ==
    /\ ~clear /\ clear' = TRUE
    /\ UNCHANGED <<lease, record, op, agent, announced, hostedTroubles>>

AgentEnds(i) ==
    /\ agent[i] = "works"
    /\ \E status \in Finished : agent' = [agent EXCEPT ![i] = status]
    /\ UNCHANGED <<lease, record, op, clear, announced, hostedTroubles>>

-----------------------------------------------------------------------------

Step(o) ==
    \/ ReportSaved(o) \/ Reconcile(o) \/ Poll(o) \/ (\E i \in Inv : Spawn(o, i)) \/ SpawnSaved(o)
    \/ Started(o) \/ Note(o) \/ Post(o) \/ Noted(o) \/ Gate(o) \/ DecideVerdict(o) \/ Final(o)
    \/ Discover(o) \/ Triage(o) \/ ReleaseLease(o)

HostedNext ==
    \/ \E o \in Slot : \/ BeginSweep(o) \/ Step(o) \/ PostFails(o) \/ TriageFails(o)
                     \/ Dies(o) \/ Stalls(o)
                     \/ \E i \in Inv : \/ SpawnFails(o, i)
                                       \/ \E status \in Finished \union {"dispatched"} :
                                              BeginCompletion(o, i, status)
    \/ Expires \/ Clarifies \/ \E i \in Inv : AgentEnds(i)

HostedSpec == HostedInit /\ [][HostedNext]_hostedVars

-----------------------------------------------------------------------------
(* Properties *)

(* The issue is complete or blocked only after that very verdict, and no   *)
(* other, was announced.                                                   *)
VerdictAnnounced ==
    /\ record.phase = "complete" => announced = {"ready"}
    /\ record.phase = "blocked" => announced = {"blocked"}

(* An issue whose dispatch was begun ends, through every failed call, dead *)
(* operation and lost lease.                                               *)
DispatchOver == record.phase # "dispatching"

=============================================================================
