------------------------ MODULE BabysitterGenerations ------------------------
(***************************************************************************)
(* How one pull request gets at most one babysitter.                       *)
(*                                                                         *)
(* Several work units may point at the same pull request, and a work unit  *)
(* may be driven by two processes while its ownership moves.  A babysitter *)
(* is placed under a durable claim on the pull request.  Placing it is a   *)
(* remote call whose answer may be lost: the claim is given back only on   *)
(* evidence that no worker was created.                                    *)
(***************************************************************************)
EXTENDS FiniteSets, Naturals

CONSTANTS Proc, Work,
          Mishaps    \* bound: failed calls, takeovers, restarts and retirements

VARIABLES claim,     \* generation that holds the pull request; 0 is nobody
          granted,   \* generations granted so far
          sessions,  \* work units with a durable babysitter session for it
          owner,     \* process that owns the work unit's lifecycle row
          row,       \* the babysitter in the row: unknown, planned or placed
          record,    \* the same in each process's batch
          attempt,   \* the run of #ensureBabysitter of each process and work unit
          creating,  \* work units whose placement may still create a worker
          workers,   \* work units whose babysitter is live
          mishaps    \* those of Mishaps so far

generationVars == <<claim, granted, sessions, owner, row, record, attempt, creating, workers, mishaps>>

Placement == {"unknown", "planned", "placed"}
NoAttempt == [pc |-> "idle", generation |-> 0, created |-> "no"]
Attempt == [pc : {"idle", "snapshot", "sessions", "claim", "roster", "plan", "spawn", "answer",
                  "owned", "registered", "persist", "catch"},
            generation : 0 .. Mishaps + 1, created : {"no", "uncertain", "yes"}]

GenerationTypes ==
    /\ claim \in 0 .. granted /\ granted \in 0 .. Mishaps + 1
    /\ sessions \subseteq Work /\ owner \in [Work -> Proc] /\ row \in [Work -> Placement]
    /\ record \in [Proc -> [Work -> Placement]] /\ attempt \in [Proc -> [Work -> Attempt]]
    /\ creating \subseteq Work /\ workers \subseteq Work /\ mishaps \in 0 .. Mishaps

Mishap == mishaps < Mishaps /\ mishaps' = mishaps + 1

At(p, w, pc) == attempt[p][w].pc = pc
StepsTo(p, w, pc) == attempt' = [attempt EXCEPT ![p][w].pc = pc]
StepsWith(p, w, pc, created) == attempt' = [attempt EXCEPT ![p][w].pc = pc, ![p][w].created = created]
Concludes(p, w) == attempt' = [attempt EXCEPT ![p][w] = NoAttempt]

(* The row is saved by its owner only.                                     *)
Saves(p, w, placement) ==
    /\ record' = [record EXCEPT ![p][w] = placement]
    /\ row' = IF owner[w] = p THEN [row EXCEPT ![w] = placement] ELSE row

GenerationInit ==
    /\ claim = 0 /\ granted = 0 /\ sessions = {} /\ creating = {} /\ workers = {} /\ mishaps = 0
    /\ owner = [w \in Work |-> CHOOSE p \in Proc : TRUE]
    /\ row = [w \in Work |-> "unknown"] /\ record = [p \in Proc |-> row]
    /\ attempt = [p \in Proc |-> [w \in Work |-> NoAttempt]]

-----------------------------------------------------------------------------
(* The admission *)

(* An event shows the pull request.  A babysitter that is tracked with its *)
(* result needs no claim.                                                  *)
Begins(p, w) ==
    /\ At(p, w, "idle") /\ owner[w] = p /\ w \notin sessions
    /\ StepsTo(p, w, IF record[p][w] = "placed" THEN "persist" ELSE "snapshot")
    /\ UNCHANGED <<claim, granted, sessions, owner, row, record, creating, workers, mishaps>>

SnapshotRead(p, w) ==
    /\ At(p, w, "snapshot")
    /\ \/ StepsTo(p, w, "sessions") /\ UNCHANGED mishaps
       \/ Mishap /\ Concludes(p, w)
    /\ UNCHANGED <<claim, granted, sessions, owner, row, record, creating, workers>>

PriorSessions(p, w) ==
    /\ At(p, w, "sessions")
    /\ IF sessions = {} THEN StepsTo(p, w, "claim") ELSE Concludes(p, w)
    /\ UNCHANGED <<claim, granted, sessions, owner, row, record, creating, workers, mishaps>>

(* A claim whose answer is lost stays: its generation is not known.        *)
MarkRunning(p, w) ==
    /\ At(p, w, "claim")
    /\ IF claim = 0
       THEN /\ claim' = granted + 1 /\ granted' = granted + 1
            /\ \/ attempt' = [attempt EXCEPT ![p][w].pc = "roster", ![p][w].generation = granted + 1]
                  /\ UNCHANGED mishaps
               \/ Mishap /\ StepsTo(p, w, "catch")
       ELSE Concludes(p, w) /\ UNCHANGED <<claim, granted, mishaps>>
    /\ UNCHANGED <<sessions, owner, row, record, creating, workers>>

-----------------------------------------------------------------------------
(* The placement *)

(* A name that is online is adopted, unless the roster was read too early  *)
(* to show it; a read that fails places nothing.                           *)
Roster(p, w) ==
    /\ At(p, w, "roster")
    /\ \/ /\ w \in workers /\ Saves(p, w, "placed")
          /\ StepsWith(p, w, IF owner[w] = p THEN "persist" ELSE "catch", "yes")
          /\ UNCHANGED mishaps
       \/ StepsTo(p, w, "plan") /\ UNCHANGED <<record, row, mishaps>>
       \/ Mishap /\ StepsTo(p, w, "catch") /\ UNCHANGED <<record, row>>
    /\ UNCHANGED <<claim, granted, sessions, owner, creating, workers>>

(* The intent is saved before the call, then the worktree is prepared.     *)
Plans(p, w) ==
    /\ At(p, w, "plan")
    /\ Saves(p, w, "planned")
    /\ \/ owner[w] = p /\ StepsTo(p, w, "spawn") /\ UNCHANGED mishaps
       \/ owner[w] # p /\ StepsTo(p, w, "catch") /\ UNCHANGED mishaps
       \/ Mishap /\ StepsTo(p, w, "catch")
    /\ UNCHANGED <<claim, granted, sessions, owner, creating, workers>>

Spawns(p, w) ==
    /\ At(p, w, "spawn")
    /\ creating' = creating \union {w}
    /\ StepsWith(p, w, "answer", "uncertain")
    /\ UNCHANGED <<claim, granted, sessions, owner, row, record, workers, mishaps>>

(* The worker comes up, at any time after the call, or never does.         *)
Creates(w) ==
    /\ w \in creating
    /\ creating' = creating \ {w} /\ workers' = workers \union {w}
    /\ UNCHANGED <<claim, granted, sessions, owner, row, record, attempt, mishaps>>

SpawnAnswered(p, w) ==
    /\ At(p, w, "answer") /\ w \in workers
    /\ StepsWith(p, w, "owned", "yes")
    /\ UNCHANGED <<claim, granted, sessions, owner, row, record, creating, workers, mishaps>>

(* Refused before anything was asked of a node, or not answered.           *)
SpawnFails(p, w) ==
    /\ At(p, w, "answer")
    /\ Mishap
    /\ \/ w \in creating /\ creating' = creating \ {w} /\ StepsWith(p, w, "catch", "no")
       \/ StepsTo(p, w, "catch") /\ UNCHANGED creating
    /\ UNCHANGED <<claim, granted, sessions, owner, row, record, workers>>

(* A placement whose row has moved on is released again.                   *)
StillOwned(p, w) ==
    /\ At(p, w, "owned")
    /\ IF owner[w] = p THEN StepsTo(p, w, "registered") /\ UNCHANGED <<workers, mishaps>>
       ELSE /\ StepsTo(p, w, "catch")
            /\ \/ workers' = workers \ {w} /\ UNCHANGED mishaps
               \/ Mishap /\ UNCHANGED workers
    /\ UNCHANGED <<claim, granted, sessions, owner, row, record, creating>>

(* A worker that does not register is released; if that fails it is kept   *)
(* in the row for a successor.                                             *)
RegistrationTimesOut(p, w) ==
    /\ At(p, w, "registered")
    /\ Mishap
    /\ \/ workers' = workers \ {w} /\ UNCHANGED <<record, row>>
       \/ Saves(p, w, "placed") /\ UNCHANGED workers
    /\ StepsTo(p, w, "catch")
    /\ UNCHANGED <<claim, granted, sessions, owner, creating>>

Registered(p, w) ==
    /\ At(p, w, "registered")
    /\ Saves(p, w, "placed")
    /\ StepsTo(p, w, IF owner[w] = p THEN "persist" ELSE "catch")
    /\ UNCHANGED <<claim, granted, sessions, owner, creating, workers, mishaps>>

SessionPersisted(p, w) ==
    /\ At(p, w, "persist")
    /\ IF owner[w] = p
       THEN sessions' = sessions \union {w} /\ Concludes(p, w)
       ELSE StepsTo(p, w, "catch") /\ UNCHANGED sessions
    /\ UNCHANGED <<claim, granted, owner, row, record, creating, workers, mishaps>>

(* Mutant: a call that failed is taken for one that placed nothing.        *)
CatchFrees(p, w) ==
    LET a == attempt[p][w] IN
    /\ At(p, w, "catch")
    /\ IF a.generation # 0 /\ a.created # "yes" /\ claim = a.generation
       THEN claim' = 0 /\ sessions' = IF owner[w] = p THEN sessions \ {w} ELSE sessions
       ELSE UNCHANGED <<claim, sessions>>
    /\ Concludes(p, w)
    /\ UNCHANGED <<granted, owner, row, record, creating, workers, mishaps>>

(* The claim is compared and deleted if no worker can exist.               *)
Catch(p, w) ==
    LET a == attempt[p][w] IN
    /\ At(p, w, "catch")
    /\ \/ /\ a.generation # 0 /\ a.created = "no" /\ claim = a.generation
          /\ claim' = 0
          /\ sessions' = IF owner[w] = p THEN sessions \ {w} ELSE sessions
          /\ UNCHANGED mishaps
       \/ /\ a.generation = 0 \/ a.created # "no" \/ claim # a.generation
          /\ UNCHANGED <<claim, sessions, mishaps>>
       \/ Mishap /\ UNCHANGED <<claim, sessions>>
    /\ Concludes(p, w)
    /\ UNCHANGED <<granted, owner, row, record, creating, workers>>

-----------------------------------------------------------------------------
(* Ownership moves, processes restart, pull requests are superseded *)

(* The new owner restores the row and adopts a planned name that is online.*)
TakesOver(p, w) ==
    /\ owner[w] # p /\ At(p, w, "idle")
    /\ Mishap
    /\ owner' = [owner EXCEPT ![w] = p]
    /\ LET placement == IF row[w] = "planned" /\ w \in workers THEN "placed" ELSE row[w] IN
       /\ record' = [record EXCEPT ![p][w] = placement]
       /\ row' = [row EXCEPT ![w] = placement]
    /\ UNCHANGED <<claim, granted, sessions, attempt, creating, workers>>

Restarts(p) ==
    /\ Mishap
    /\ attempt' = [attempt EXCEPT ![p] = [w \in Work |-> NoAttempt]]
    /\ record' = [record EXCEPT ![p] = row]
    /\ UNCHANGED <<claim, granted, sessions, owner, row, creating, workers>>

(* An exact receipt names another pull request: the babysitter of this one *)
(* is released, and its session and its place in the row are cleared.      *)
Supersedes(p, w) ==
    /\ owner[w] = p /\ At(p, w, "idle") /\ "placed" \in {record[p][w], row[w]}
    /\ Mishap
    /\ workers' = workers \ {w} /\ sessions' = sessions \ {w}
    /\ record' = [record EXCEPT ![p][w] = "unknown"] /\ row' = [row EXCEPT ![w] = "unknown"]
    /\ UNCHANGED <<claim, granted, owner, attempt, creating>>

-----------------------------------------------------------------------------

GenerationNext ==
    \/ \E w \in Work : Creates(w)
    \/ \E p \in Proc : Restarts(p)
    \/ \E p \in Proc, w \in Work :
          \/ Begins(p, w) \/ SnapshotRead(p, w) \/ PriorSessions(p, w) \/ MarkRunning(p, w)
          \/ Roster(p, w) \/ Plans(p, w) \/ Spawns(p, w) \/ SpawnAnswered(p, w) \/ SpawnFails(p, w)
          \/ StillOwned(p, w) \/ RegistrationTimesOut(p, w) \/ Registered(p, w)
          \/ SessionPersisted(p, w) \/ Catch(p, w) \/ TakesOver(p, w) \/ Supersedes(p, w)

GenerationSpec == GenerationInit /\ [][GenerationNext]_generationVars

(* A pull request has one babysitter at most, counting those that may      *)
(* still come up.                                                          *)
OneBabysitter == Cardinality(workers \union creating) <= 1

=============================================================================
