----------------------------- MODULE NotionIntake -----------------------------
(***************************************************************************)
(* Intake of one Notion page by several hosts.  The page names a           *)
(* repository, for which an issue is created, and a workspace, for which a *)
(* worker is spawned.  Every host has its own mount of the page, which     *)
(* follows edits with a delay, and its own file of receipts; what they     *)
(* share are the durable claims: relay channels whose names only one can   *)
(* create, each with one record that is sent after the channel is made.    *)
(*                                                                         *)
(* The search that looks for an existing issue reads an index that lags.   *)
(* A digest stands for a version of the page, 0 for none.                  *)
(***************************************************************************)
EXTENDS Naturals, FiniteSets

CONSTANTS Host,       \* dispatchers, one run of intake at a time each
          Movable,    \* those whose manifest may come to carry the page over the relay
          MaxDigest,  \* versions of the page
          MaxTroubles \* bound on calls that fail and on runs that are killed

ASSUME IntakeAssumption == MaxDigest \in Nat \ {0} /\ MaxTroubles \in Nat

VARIABLES page, portable, mount, channel, filed, worker, receipts, run, troubles

intakeVars == <<page, portable, mount, channel, filed, worker, receipts, run, troubles>>

Digest == 1..MaxDigest
Key == {"unit", "repo", "workspace", "migration"}
Dest == {"repo", "workspace"}
NoReceipt == [digest |-> 0, portable |-> FALSE]
Receipt == [digest : 0..MaxDigest, portable : BOOLEAN]
Resting == [at |-> "idle", dest |-> "repo", digest |-> 0, how |-> "fresh", writes |-> 0,
         receipt |-> NoReceipt]

Runs == [at : {"idle", "check", "find", "unit", "unitSend", "claim", "claimSend", "claimed",
               "adopt", "migrate", "migrateSend", "effect", "refresh", "save"},
         dest : Dest, digest : 0..MaxDigest, how : {"fresh", "found", "receipt"},
         writes : 0..MaxDigest, receipt : Receipt]

IntakeTypes ==
    /\ page \in Digest /\ portable \subseteq Host /\ mount \in [Host -> Digest]
    /\ channel \in [Key -> [made : BOOLEAN, digest : 0..MaxDigest]]
    /\ filed \in [count : Nat, digest : 0..MaxDigest, portable : BOOLEAN, found : BOOLEAN]
    /\ worker \in [spawns : Nat, refreshes : Nat, digest : 0..MaxDigest, up : BOOLEAN]
    /\ receipts \in [Host -> [Dest -> Receipt]]
    /\ run \in [Host -> Runs]
    /\ troubles \in 0..MaxTroubles

\* A legacy dispatcher may have claimed the repository, and created its issue,
\* before pages had a claim of their own.
IntakeInit ==
    /\ page = 1 /\ portable = {} /\ mount = [h \in Host |-> 1]
    /\ \E legacy \in BOOLEAN :
         /\ channel = [k \in Key |-> IF legacy /\ k = "repo" THEN [made |-> TRUE, digest |-> 1]
                                     ELSE [made |-> FALSE, digest |-> 0]]
         /\ filed = [count |-> IF legacy THEN 1 ELSE 0, digest |-> IF legacy THEN 1 ELSE 0,
                     portable |-> FALSE, found |-> legacy]
    /\ worker = [spawns |-> 0, refreshes |-> 0, digest |-> 0, up |-> FALSE]
    /\ receipts = [h \in Host |-> [d \in Dest |-> NoReceipt]]
    /\ run = [h \in Host |-> Resting] /\ troubles = 0

Trouble == troubles < MaxTroubles /\ troubles' = troubles + 1
NoTrouble == UNCHANGED troubles
Shared == UNCHANGED <<page, portable, mount, channel, filed, worker>>

(***************************************************************************)
(* Advances of one run.                                                       *)
(***************************************************************************)
At(h, s) == run[h].at = s
Advances(h, s) == run' = [run EXCEPT ![h].at = s]

\* The task ends, done or blocked, and the next destination's begins.
Skip(h) ==
    run' = [run EXCEPT ![h] = IF run[h].dest = "repo"
                                THEN [Resting EXCEPT !.at = "check", !.dest = "workspace",
                                                  !.digest = run[h].digest]
                                ELSE Resting]

\* A call fails, and its task is reported blocked.
Fails(h) ==
    /\ ~At(h, "idle") /\ Trouble /\ Skip(h)
    /\ Shared /\ UNCHANGED receipts

Begin(h) ==
    /\ At(h, "idle")
    /\ run' = [run EXCEPT ![h] = [Resting EXCEPT !.at = "check", !.digest = mount[h]]]
    /\ Shared /\ UNCHANGED <<receipts, troubles>>

\* assertMountedTaskUnchanged.
Unchanged(h) == mount[h] = run[h].digest

Has(h) == receipts[h][run[h].dest].digest # 0

Check(h) ==
    /\ At(h, "check")
    /\ IF ~Unchanged(h) \/ (Has(h) /\ receipts[h][run[h].dest].digest # run[h].digest)
         THEN Skip(h)
       ELSE IF run[h].dest = "repo" THEN Advances(h, "find")
       ELSE run' = [run EXCEPT ![h].at = "unit",
                               ![h].how = IF Has(h) THEN "receipt" ELSE "fresh"]
    /\ Shared /\ UNCHANGED <<receipts, troubles>>

\* An issue that is found must be one of this digest that somebody claimed, and
\* its delivery is not taken back.
Reconciles(h) ==
    /\ filed.digest = run[h].digest
    /\ IF channel["repo"].made THEN channel["repo"].digest = run[h].digest ELSE Has(h)
    /\ h \in portable \/ ~(filed.portable \/ receipts[h]["repo"].portable)

FindBySource(h) ==
    /\ At(h, "find")
    /\ \/ /\ filed.found
          /\ IF Reconciles(h) THEN run' = [run EXCEPT ![h].at = "unit", ![h].how = "found"]
                              ELSE Skip(h)
       \/ /\ ~filed.found
          /\ IF Has(h) THEN Skip(h) ELSE Advances(h, "unit")
    /\ Shared /\ UNCHANGED <<receipts, troubles>>

(***************************************************************************)
(* Claims.                                                                 *)
(***************************************************************************)
\* Only one creator of a channel succeeds, whatever the others had seen.
Creates(h, k, next) ==
    /\ ~channel[k].made
    /\ channel' = [channel EXCEPT ![k].made = TRUE]
    /\ Advances(h, next)

\* The others read its one record; a channel without one refuses the task.
ReadsOwn(h, k) == channel[k].made /\ channel[k].digest = run[h].digest
ReadsOther(h, k) == channel[k].made /\ channel[k].digest # run[h].digest

Sends(h, k, digest, next) ==
    /\ channel' = [channel EXCEPT ![k].digest = digest]
    /\ \/ NoTrouble /\ Advances(h, next)
       \/ Trouble /\ Skip(h)

\* ensureNotionWorkUnitClaim: the page's own claim decides its digest for every
\* destination; a legacy claim of a destination is the authority if there is one.
UnitClaim(h) ==
    LET legacy == {k \in Dest : channel[k].digest # 0}
        digests == {channel[k].digest : k \in legacy} IN
    /\ At(h, "unit")
    /\ \/ ReadsOwn(h, "unit") /\ Advances(h, "claim") /\ UNCHANGED channel
       \/ ReadsOther(h, "unit") /\ Skip(h) /\ UNCHANGED channel
       \/ /\ ~channel["unit"].made /\ Cardinality(digests) > 1
          /\ Skip(h) /\ UNCHANGED channel
       \/ /\ ~channel["unit"].made /\ Cardinality(digests) <= 1
          /\ channel' = [channel EXCEPT !["unit"].made = TRUE]
          /\ \E d \in IF digests = {} THEN {run[h].digest} ELSE digests :
               run' = [run EXCEPT ![h].at = "unitSend", ![h].writes = d]
    /\ UNCHANGED <<page, portable, mount, filed, worker, receipts, troubles>>

UnitSend(h) ==
    /\ At(h, "unitSend")
    /\ \/ /\ run[h].writes = run[h].digest
          /\ Sends(h, "unit", run[h].digest, "claim")
       \/ /\ run[h].writes # run[h].digest /\ NoTrouble /\ Skip(h)
          /\ channel' = [channel EXCEPT !["unit"].digest = run[h].writes]
    /\ UNCHANGED <<page, portable, mount, filed, worker, receipts>>

\* Mutant of Proceeds: who finds the claim taken goes on as its owner.
ProceedsAnyway(h) == Advances(h, "effect")

\* A task whose destination is claimed already: a new issue is refused, a worker
\* is looked for, and what is known to be delivered is reconciled.
Proceeds(h) ==
    IF run[h].how = "found" THEN Advances(h, "effect")
    ELSE IF run[h].how = "receipt" THEN Advances(h, "claimed")
    ELSE IF run[h].dest = "repo" THEN Skip(h) ELSE Advances(h, "adopt")

DeliveryClaim(h) ==
    LET k == run[h].dest IN
    /\ At(h, "claim")
    /\ \/ Creates(h, k, "claimSend")
       \/ ReadsOwn(h, k) /\ Proceeds(h) /\ UNCHANGED channel
       \/ ReadsOther(h, k) /\ Skip(h) /\ UNCHANGED channel
    /\ UNCHANGED <<page, portable, mount, filed, worker, receipts, troubles>>

DeliverySend(h) ==
    /\ At(h, "claimSend")
    /\ Sends(h, run[h].dest, run[h].digest,
             IF run[h].how = "receipt" THEN "claimed" ELSE "effect")
    /\ UNCHANGED <<page, portable, mount, filed, worker, receipts>>

\* A worker delivered from a local mount may need the page over the relay.
NeedsMigration(h) ==
    /\ At(h, "claimed")
    /\ IF h \in portable /\ ~receipts[h]["workspace"].portable
         THEN Advances(h, "migrate") ELSE Skip(h)
    /\ Shared /\ UNCHANGED <<receipts, troubles>>

\* The claim of the migration: nobody redispatches a second time.
MigrationClaim(h) ==
    /\ At(h, "migrate")
    /\ \/ Creates(h, "migration", "migrateSend")
       \/ channel["migration"].made /\ Skip(h) /\ UNCHANGED channel
    /\ UNCHANGED <<page, portable, mount, filed, worker, receipts, troubles>>

MigrationSend(h) ==
    /\ At(h, "migrateSend") /\ Sends(h, "migration", run[h].digest, "refresh")
    /\ UNCHANGED <<page, portable, mount, filed, worker, receipts>>

(***************************************************************************)
(* Effects, and the receipts that are written after them.                  *)
(***************************************************************************)
Receives(h, relayed) ==
    run' = [run EXCEPT ![h].at = "save",
                       ![h].receipt = [digest |-> run[h].digest, portable |-> relayed]]

\* The call may have taken effect although it fails.
Effect(h, relayed) == (NoTrouble /\ Receives(h, relayed)) \/ (Trouble /\ Skip(h))

CreateIssue(h) ==
    /\ At(h, "effect") /\ run[h].dest = "repo" /\ run[h].how = "fresh" /\ Unchanged(h)
    /\ filed' = [filed EXCEPT !.count = @ + 1, !.digest = run[h].digest,
                              !.portable = h \in portable]
    /\ Effect(h, h \in portable)
    /\ UNCHANGED <<page, portable, mount, channel, worker, receipts>>

\* An issue that exists gets the portable delivery that it lacks.
UpdateIssue(h) ==
    /\ At(h, "effect") /\ run[h].how = "found"
    /\ IF h \in portable /\ ~filed.portable
         THEN Unchanged(h) /\ filed' = [filed EXCEPT !.portable = TRUE]
                           /\ Effect(h, TRUE)
         ELSE UNCHANGED <<filed, troubles>> /\ Receives(h, h \in portable)
    /\ UNCHANGED <<page, portable, mount, channel, worker, receipts>>

DispatchWorker(h) ==
    /\ At(h, "effect") /\ run[h].dest = "workspace" /\ Unchanged(h)
    /\ worker' = [worker EXCEPT !.spawns = @ + 1, !.digest = run[h].digest, !.up = TRUE]
    /\ Effect(h, h \in portable)
    /\ UNCHANGED <<page, portable, mount, channel, filed, receipts>>

PageMoved(h) ==
    /\ At(h, "effect") /\ ~Unchanged(h) /\ Skip(h)
    /\ Shared /\ UNCHANGED <<receipts, troubles>>

\* Somebody else's worker is taken over if it runs and is not being migrated.
Adopt(h) ==
    /\ At(h, "adopt")
    /\ IF worker.up /\ ~(h \in portable /\ channel["migration"].made)
         THEN Receives(h, h \in portable) ELSE Skip(h)
    /\ Shared /\ UNCHANGED <<receipts, troubles>>

Refresh(h) ==
    /\ At(h, "refresh") /\ worker' = [worker EXCEPT !.refreshes = @ + 1]
    /\ Effect(h, TRUE)
    /\ UNCHANGED <<page, portable, mount, channel, filed, receipts>>

Save(h) ==
    /\ At(h, "save")
    /\ receipts' = [receipts EXCEPT ![h][run[h].dest] = run[h].receipt]
    /\ Skip(h) /\ Shared /\ UNCHANGED troubles

(***************************************************************************)
(* Around the runs.                                                        *)
(***************************************************************************)
Killed(h) ==
    /\ ~At(h, "idle") /\ Trouble /\ run' = [run EXCEPT ![h] = Resting]
    /\ Shared /\ UNCHANGED receipts

PageEdited ==
    /\ page < MaxDigest /\ page' = page + 1
    /\ UNCHANGED <<portable, mount, channel, filed, worker, receipts, run, troubles>>

MountSyncs(h) ==
    /\ mount[h] # page /\ mount' = [mount EXCEPT ![h] = page]
    /\ UNCHANGED <<page, portable, channel, filed, worker, receipts, run, troubles>>

\* The destination is given a manifest that names a relay.
ManifestMoves(h) ==
    /\ h \in Movable \ portable /\ At(h, "idle") /\ portable' = portable \cup {h}
    /\ UNCHANGED <<page, mount, channel, filed, worker, receipts, run, troubles>>

IndexSyncs ==
    /\ filed.count > 0 /\ ~filed.found /\ filed' = [filed EXCEPT !.found = TRUE]
    /\ UNCHANGED <<page, portable, mount, channel, worker, receipts, run, troubles>>

WorkerEnds ==
    /\ worker.up /\ worker' = [worker EXCEPT !.up = FALSE]
    /\ UNCHANGED <<page, portable, mount, channel, filed, receipts, run, troubles>>

Claims(h) == UnitClaim(h) \/ UnitSend(h) \/ DeliveryClaim(h) \/ DeliverySend(h)
               \/ NeedsMigration(h) \/ MigrationClaim(h) \/ MigrationSend(h)

Effects(h) == CreateIssue(h) \/ UpdateIssue(h) \/ DispatchWorker(h) \/ PageMoved(h)
                \/ Adopt(h) \/ Refresh(h) \/ Save(h)

IntakeNext ==
    \/ PageEdited \/ IndexSyncs \/ WorkerEnds
    \/ \E h \in Host : \/ Begin(h) \/ Check(h) \/ FindBySource(h) \/ Claims(h) \/ Effects(h)
                       \/ Fails(h) \/ Killed(h) \/ MountSyncs(h)
                       \/ ManifestMoves(h)

IntakeSpec == IntakeInit /\ [][IntakeNext]_intakeVars

-----------------------------------------------------------------------------
(* Properties *)

(* However many hosts run, die and run again, a page is delivered at most  *)
(* once to each destination, and its worker is redispatched at most once.  *)
DeliveredOnce == filed.count <= 1 /\ worker.spawns <= 1 /\ worker.refreshes <= 1

(* Whatever versions of the page the hosts have mounted, its destinations  *)
(* are given the same one.                                                 *)
OneAuthority == filed.digest # 0 /\ worker.digest # 0 => filed.digest = worker.digest

(* A version of a page reaches a channel, an issue and a worker once,      *)
(* whichever dispatcher has it.                                            *)
PagesDeliveredOnce == DeliveredOnce /\ OneAuthority

=============================================================================
