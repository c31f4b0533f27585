---------------------------- MODULE OutcomeProofs ----------------------------
(***************************************************************************)
(* What an issue comes to is what became of its work.                      *)
(*                                                                         *)
(* The issue of a team is closed only when every implementer has a pull    *)
(* request, for teams of any size on any hosts, and any number of failing  *)
(* saves and crashes: completion is wanted in five places, and each        *)
(* decides from what it has read itself: the mount, the row's receipts,    *)
(* the end of a drive over the team.  Pull requests are never taken back,  *)
(* so what each of them holds for published is published still when it     *)
(* acts.                                                                   *)
(*                                                                         *)
(* A hosted issue is over only when its verdict was announced, for any     *)
(* number of operations, invocations and troubles: whoever holds the lease *)
(* has the record itself, and what was announced is the verdict on a       *)
(* record whose invocations have all ended, which nothing changes.         *)
(***************************************************************************)
EXTENDS TeamPublication, HostedLoop, FiniteSetTheorems, TLAPS

-----------------------------------------------------------------------------
(* Publication of a team: the inductive invariant *)

Whole == \A i \in Impl : pulls[i]

(* What a handler or the drive is about to record is published: the one    *)
(* has a pull request to save, the other has passed every implementer that *)
(* is not left.  A published row of a single implementer has its receipt.  *)
Carried ==
    /\ \A i \in Impl, k \in Kind : handlers[i][k] = "saves" => pulls[i]
    /\ drive.pc # "no" => \A i \in Impl \ drive.left : pulls[i]
    /\ drive.pc = "saves" => \A i \in drive.impl : pulls[i]
    /\ phase = "published" /\ ~Team => Whole

Concluding == completing # "no" \/ closed \/ phase = "closing"

PublicationInv ==
    /\ PublicationTypes
    /\ Carried
    /\ recovered = {} /\ Concluding => Whole

-----------------------------------------------------------------------------
(* The team, the probes and GitHub *)

LEMMA Single ==
    ASSUME ~Team, NEW i \in Impl
    PROVE  Impl = {i}
<1>1. IsFiniteSet(Impl) /\ Cardinality(Impl) \in Nat
  BY PublicationAssumption, FS_CardinalityType
<1>2. IsFiniteSet(Impl \ {i}) /\ Cardinality(Impl \ {i}) = Cardinality(Impl) - 1
  BY <1>1, FS_RemoveElement
<1>3. Cardinality(Impl \ {i}) \in Nat
  BY <1>2, FS_CardinalityType
<1>4. Cardinality(Impl \ {i}) = 0
  BY <1>1, <1>2, <1>3 DEF Team
<1>5. Impl \ {i} = {}
  BY <1>2, <1>4, FS_EmptySet
<1> QED
  BY <1>5

(* Somebody has a pull request and everybody whom the probes ask does.     *)
LEMMA ProbesAreRight ==
    ASSUME PublicationTypes, NEW known, known \subseteq {j \in Impl : pulls[j]},
           AllHavePull(known), NEW i \in Impl, pulls[i]
    PROVE  Whole
<1>1. CASE Team
  BY <1>1 DEF AllHavePull, HasPull, PublicationTypes, Whole
<1>2. CASE ~Team
  BY <1>2, Single DEF Whole
<1> QED
  BY <1>1, <1>2

LEMMA GithubGrows ==
    ASSUME PublicationTypes, NEW i \in Impl, NEW outcome \in {"created", "refused", "failed"},
           Created(i, outcome) \/ Confirmed(i), UNCHANGED mounted
    PROVE  /\ pulls' \in [Impl -> BOOLEAN]
           /\ \A j \in Impl : pulls[j] => pulls'[j]
           /\ \A j \in Impl : mounted'[j] => pulls'[j]
           /\ cache' \subseteq {j \in Impl : pulls'[j]}
           /\ Confirmed(i) \/ outcome = "created" => pulls'[i]
BY DEF PublicationTypes, Created, Confirmed

LEMMA KnownIsPublished ==
    ASSUME PublicationTypes, NEW i \in Impl, NEW r, KnownPull(i, r)
    PROVE  pulls[i]
BY DEF PublicationTypes, KnownPull

-----------------------------------------------------------------------------
(* The initial states, and the implementers *)

LEMMA InitInv == PublicationInit => PublicationInv
<1> SUFFICES ASSUME PublicationInit PROVE PublicationInv
  OBVIOUS
<1>1. PublicationTypes
  <2> USE DEF PublicationInit
  <2>1. handlers \in [Impl -> [Kind -> {"no", "looks", "lands", "saves"}]]
    OBVIOUS
  <2>2. attempts \in [Impl \cup {SaveStep} -> 0 .. MaxPublishAttempts + 1]
    BY PublicationAssumption
  <2>3. drive \in [pc : {"no", "next", "lands", "saves"}, left : SUBSET Impl, impl : SUBSET Impl]
    BY DEF NoDrive
  <2>4. workers \in [Impl -> {"works", "reports", "gone", "released"}]
    OBVIOUS
  <2>5. /\ committed \in [Impl -> BOOLEAN] /\ pulls \in [Impl -> BOOLEAN]
        /\ mounted \in [Impl -> BOOLEAN] /\ \A i \in Impl : mounted[i] => pulls[i]
    OBVIOUS
  <2>6. saveFaults \in 0 .. MaxSaveFaults /\ crashes \in 0 .. MaxCrashes
    BY PublicationAssumption
  <2>7. /\ phase \in {"running"} /\ pullRequests \subseteq {i \in Impl : pulls[i]}
        /\ recovered \subseteq Impl /\ closed \in BOOLEAN /\ noticed \subseteq Impl \X Kind
        /\ retryTimer \in BOOLEAN /\ cache \subseteq {i \in Impl : pulls[i]}
        /\ abandon \in {"no", "wanted", "marked"} /\ completing \in {"no", "writes", "ends"}
    OBVIOUS
  <2> HIDE DEF PublicationInit
  <2> QED
    BY <2>1, <2>2, <2>3, <2>4, <2>5, <2>6, <2>7 DEF PublicationTypes
<1>2. Carried
  BY DEF PublicationInit, Carried, NoDrive
<1> QED
  BY <1>1, <1>2 DEF PublicationInit, PublicationInv, Concluding

LEMMA WorldInv ==
    ASSUME PublicationInv, NEW i \in Impl,
           Commits(i) \/ OpensPull(i) \/ Reports(i) \/ Exits(i) \/ MountShows(i)
    PROVE  PublicationInv'
<1> USE DEF PublicationInv, rowVars, procVars
<1>1. PublicationTypes'
  BY DEF PublicationTypes, Commits, OpensPull, Reports, Exits, MountShows
<1>2. \A j \in Impl : pulls[j] => pulls'[j]
  BY DEF PublicationTypes, Commits, OpensPull, Reports, Exits, MountShows
<1>3. UNCHANGED <<rowVars, procVars>>
  BY DEF Commits, OpensPull, Reports, Exits, MountShows
<1>4. Carried'
  <2>1. UNCHANGED <<handlers, drive, phase>>
    BY <1>3
  <2>2. \A j \in Impl, k \in Kind : handlers'[j][k] = "saves" => pulls'[j]
    BY <1>2, <2>1 DEF Carried
  <2>3. drive'.pc # "no" => \A j \in Impl \ drive'.left : pulls'[j]
    BY <1>2, <2>1 DEF Carried
  <2>4. drive'.pc = "saves" => \A j \in drive'.impl : pulls'[j]
    BY <1>2, <2>1 DEF Carried, PublicationTypes
  <2>5. Whole => Whole'
    BY <1>2 DEF Whole
  <2> QED
    BY <2>1, <2>2, <2>3, <2>4, <2>5, Zenon DEF Carried
<1> QED
  BY <1>1, <1>2, <1>3, <1>4 DEF Concluding, Whole

-----------------------------------------------------------------------------
(* The exits of the implementers *)

Pcs == {"no", "looks", "lands", "saves"}

LEMMA HandlerMoves ==
    ASSUME handlers \in [Impl -> [Kind -> Pcs]], NEW i \in Impl, NEW k \in Kind, NEW pc \in Pcs,
           Handled(i, k, pc)
    PROVE  /\ handlers' \in [Impl -> [Kind -> Pcs]]
           /\ \A j \in Impl, l \in Kind :
                handlers'[j][l] = IF j = i /\ l = k THEN pc ELSE handlers[j][l]
BY DEF Handled, Pcs

(* Enough for a step: what is published stays, a recovery is not undone,   *)
(* and who newly concludes is right.                                       *)
LEMMA Concludes ==
    ASSUME PublicationInv, PublicationTypes', Carried', recovered \subseteq recovered',
           \A j \in Impl : pulls[j] => pulls'[j],
           recovered' = {} /\ Concluding' /\ ~Concluding => Whole'
    PROVE  PublicationInv'
BY DEF PublicationInv, Whole

LEMMA ExitSeenInv ==
    ASSUME PublicationInv, NEW i \in Impl, NEW k \in Kind, ExitSeen(i, k)
    PROVE  PublicationInv'
<1> USE DEF PublicationInv, ExitSeen, worldVars
<1>1. /\ UNCHANGED <<pulls, drive, recovered, closed, pullRequests>>
      /\ phase' \in {phase, "publishing"} /\ completing' \in {completing, "writes"}
  BY DEF SavesPhase, WantsCompletion
<1>2. /\ handlers' \in [Impl -> [Kind -> Pcs]]
      /\ \A j \in Impl, l \in Kind : handlers'[j][l] = "saves" => handlers[j][l] = "saves"
  BY HandlerMoves DEF PublicationTypes, Pcs
<1>3. PublicationTypes'
  BY <1>1, <1>2 DEF PublicationTypes, Pcs
<1>4. Carried'
  BY <1>1, <1>2 DEF Carried, Whole, Team
<1>5. completing' # completing => Whole
  BY ProbesAreRight, i \in Impl DEF PublicationTypes, HasPull
<1> QED
  BY <1>1, <1>3, <1>4, <1>5, Concludes DEF Concluding, Whole

LEMMA HandlerLooksInv ==
    ASSUME PublicationInv, NEW i \in Impl, NEW k \in Kind, HandlerLooks(i, k)
    PROVE  PublicationInv'
<1> USE DEF PublicationInv, HandlerLooks, worldVars, rowVars
<1> PICK r \in {FALSE, Reconciled(k)} :
        /\ Handled(i, k, IF KnownPull(i, r) THEN "saves" ELSE "lands")
        /\ cache' = IF KnownPull(i, r) /\ i \notin pullRequests THEN cache \cup {i} ELSE cache
  OBVIOUS
<1>1. UNCHANGED <<pulls, drive, recovered, closed, pullRequests, phase, completing>>
  OBVIOUS
<1>2. KnownPull(i, r) => pulls[i]
  BY KnownIsPublished
<1>3. /\ handlers' \in [Impl -> [Kind -> Pcs]]
      /\ \A j \in Impl, l \in Kind : handlers'[j][l] = "saves" => pulls[j]
  <2> DEFINE pc == IF KnownPull(i, r) THEN "saves" ELSE "lands"
  <2>1. pc \in Pcs /\ Handled(i, k, pc) /\ (pc = "saves" => pulls[i])
    BY <1>2 DEF Pcs
  <2>2. handlers \in [Impl -> [Kind -> Pcs]]
    BY DEF PublicationTypes, Pcs
  <2> HIDE DEF pc
  <2> QED
    BY <2>1, <2>2, HandlerMoves DEF Carried
<1>4. PublicationTypes'
  BY <1>1, <1>2, <1>3 DEF PublicationTypes, Pcs
<1>5. Carried'
  BY <1>1, <1>3 DEF Carried, Whole, Team
<1> QED
  BY <1>1, <1>4, <1>5, Concludes DEF Concluding, Whole

LEMMA HandlerSavesInv ==
    ASSUME PublicationInv, NEW i \in Impl, NEW k \in Kind, HandlerSaves(i, k)
    PROVE  PublicationInv'
<1> USE DEF PublicationInv, HandlerSaves, worldVars
<1>1. /\ UNCHANGED <<pulls, drive, recovered, closed>>
      /\ phase' \in {phase, "published"} /\ completing' \in {completing, "writes"}
      /\ pullRequests' \in {pullRequests, pullRequests \cup {i}}
  BY DEF SavesPhase, WantsCompletion, SavesReceipt
<1>2. pulls[i]
  BY DEF Carried
<1>3. /\ handlers' \in [Impl -> [Kind -> Pcs]]
      /\ \A j \in Impl, l \in Kind : handlers'[j][l] = "saves" => handlers[j][l] = "saves"
  BY HandlerMoves DEF PublicationTypes, Pcs
<1>4. PublicationTypes'
  <2>1. pullRequests' \subseteq {j \in Impl : pulls'[j]}
    BY <1>1, <1>2 DEF PublicationTypes
  <2>2. saveFaults' \in 0 .. MaxSaveFaults
    BY PublicationAssumption DEF PublicationTypes
  <2> QED
    BY <1>1, <1>3, <2>1, <2>2 DEF PublicationTypes, Pcs
<1>5. ~Team => Whole
  BY <1>2, Single DEF Whole
<1>6. Carried'
  BY <1>1, <1>3, <1>5 DEF Carried, Whole, Team
<1>7. completing' # completing => Whole
  BY <1>1, <1>2, ProbesAreRight DEF PublicationTypes
<1> QED
  BY <1>1, <1>4, <1>6, <1>7, Concludes DEF Concluding, Whole

LEMMA HandlerLandsInv ==
    ASSUME PublicationInv, NEW i \in Impl, NEW k \in Kind, HandlerLands(i, k)
    PROVE  PublicationInv'
<1> USE DEF PublicationInv
<1>1. PICK outcome \in {"created", "refused", "failed"} :
        /\ Created(i, outcome) \/ Confirmed(i)
        /\ \E pc \in {"saves", "no"} :
             Handled(i, k, pc) /\ (pc = "saves" => Confirmed(i) \/ outcome = "created")
  BY DEF HandlerLands
<1>2. UNCHANGED <<pullRequests, closed, committed, mounted, drive, attempts, saveFaults, crashes>>
  BY DEF HandlerLands
<1>3. /\ recovered \subseteq recovered' /\ phase' \in {phase, "running"}
      /\ completing' \in {completing, "writes"}
      /\ completing' # completing => recovered # {}
  BY DEF HandlerLands, Recovers, SavesPhase, WantsCompletion
<1>4. /\ pulls' \in [Impl -> BOOLEAN] /\ \A j \in Impl : pulls[j] => pulls'[j]
      /\ \A j \in Impl : mounted'[j] => pulls'[j]
      /\ cache' \subseteq {j \in Impl : pulls'[j]}
      /\ Confirmed(i) \/ outcome = "created" => pulls'[i]
  BY <1>1, <1>2, GithubGrows
<1>5. /\ handlers' \in [Impl -> [Kind -> Pcs]]
      /\ \A j \in Impl, l \in Kind : handlers'[j][l] = "saves" => pulls'[j]
  <2>1. handlers \in [Impl -> [Kind -> Pcs]]
    BY DEF PublicationTypes, Pcs
  <2> QED
    BY <1>1, <1>4, <2>1, HandlerMoves DEF Carried, Pcs
<1>6. PublicationTypes'
  <2>1. /\ workers' \in [Impl -> {"works", "reports", "gone", "released"}]
        /\ recovered' \subseteq Impl /\ noticed' \subseteq Impl \X Kind
    BY DEF PublicationTypes, HandlerLands, Recovers
  <2>2. retryTimer' \in BOOLEAN /\ abandon' \in {"no", "wanted", "marked"}
    BY DEF PublicationTypes, HandlerLands, Recovers, Abandons
  <2>3. pullRequests' \subseteq {j \in Impl : pulls'[j]}
    BY <1>2, <1>4 DEF PublicationTypes
  <2> QED
    BY <1>2, <1>3, <1>4, <1>5, <2>1, <2>2, <2>3 DEF PublicationTypes, Pcs
<1>7. Carried'
  BY <1>2, <1>3, <1>4, <1>5 DEF Carried, Whole, Team, PublicationTypes
<1> QED
  BY <1>2, <1>3, <1>4, <1>6, <1>7, Concludes DEF Concluding, Whole

-----------------------------------------------------------------------------
(* The drive *)

LEMMA DrivesInv ==
    ASSUME PublicationInv, Drives
    PROVE  PublicationInv'
<1> USE DEF PublicationInv, Drives
<1>1. /\ UNCHANGED <<pullRequests, recovered, closed, committed, pulls, mounted, handlers,
                     noticed, cache, attempts, saveFaults, crashes>>
      /\ phase' \in {phase, "abandoned"} /\ completing' \in {completing, "writes"}
      /\ drive' \in {drive, [NoDrive EXCEPT !.pc = "next", !.left = Impl]}
  BY DEF AbandonsResume, WantsCompletion
<1>2. PublicationTypes'
  <2>1. workers' \in [Impl -> {"works", "reports", "gone", "released"}]
    BY DEF PublicationTypes, AbandonsResume
  <2>2. drive' \in [pc : {"no", "next", "lands", "saves"}, left : SUBSET Impl, impl : SUBSET Impl]
    BY <1>1 DEF PublicationTypes, NoDrive
  <2> QED
    BY <1>1, <2>1, <2>2 DEF PublicationTypes, Terminal, Abandons
<1>3. Carried'
  BY <1>1 DEF Carried, Whole, Team, NoDrive
<1>4. completing' # completing =>
        phase = "closing" \/ (phase = "published" /\ AllHavePull(pullRequests))
  OBVIOUS
<1>5. recovered = {} /\ completing' # completing => Whole
  <2>1. CASE phase = "closing"
    BY <2>1 DEF Concluding
  <2>2. CASE AllHavePull(pullRequests) /\ phase = "published"
    BY <2>2 DEF AllHavePull, HasPull, PublicationTypes, Carried, Whole
  <2> QED
    BY <1>4, <2>1, <2>2
<1> QED
  BY <1>1, <1>2, <1>3, <1>5, Concludes DEF Concluding, Whole

LEMMA PeriodicSweepInv ==
    ASSUME PublicationInv, PeriodicSweep
    PROVE  PublicationInv'
<1> USE DEF PublicationInv, PeriodicSweep, rowVars, worldVars
<1>1. PublicationTypes'
  BY DEF PublicationTypes, WantsCompletion
<1>2. Carried'
  BY DEF Carried, Whole, Team
<1>3. Whole
  <2> PICK i \in Impl : mounted[i]
    OBVIOUS
  <2> QED
    BY ProbesAreRight DEF PublicationTypes
<1> QED
  BY <1>1, <1>2, <1>3, Concludes DEF Concluding, Whole

(* A failure that is charged ends the drive.                               *)
LEMMA ChargesTypes ==
    ASSUME PublicationTypes, NEW s \in Impl \cup {SaveStep}, Charges(s)
    PROVE  /\ drive' = NoDrive /\ retryTimer' \in BOOLEAN
           /\ attempts' \in [Impl \cup {SaveStep} -> 0 .. MaxPublishAttempts + 1]
           /\ abandon' \in {"no", "wanted", "marked"}
<1>1. attempts \in [Impl \cup {SaveStep} -> 0 .. MaxPublishAttempts + 1]
  BY DEF PublicationTypes
<1>2. attempts' \in [Impl \cup {SaveStep} -> 0 .. MaxPublishAttempts + 1]
  <2>1. CASE attempts[s] < MaxPublishAttempts
    <3>1. attempts' = [attempts EXCEPT ![s] = attempts[s] + 1]
      BY <2>1 DEF Charges
    <3>2. attempts[s] + 1 \in 0 .. MaxPublishAttempts + 1
      BY <1>1, <2>1, PublicationAssumption
    <3> QED
      BY <1>1, <3>1, <3>2
  <2>2. CASE ~(attempts[s] < MaxPublishAttempts)
    <3>1. attempts' = [t \in Impl \cup {SaveStep} |-> 0]
      BY <1>1, <2>2 DEF Charges
    <3> QED
      BY <3>1, PublicationAssumption
  <2> QED
    BY <2>1, <2>2
<1> QED
  BY <1>2 DEF PublicationTypes, Charges, Abandons

LEMMA NoDriveTyped ==
    /\ NoDrive \in [pc : {"no", "next", "lands", "saves"}, left : SUBSET Impl, impl : SUBSET Impl]
    /\ NoDrive.pc = "no"
BY DEF NoDrive

LEMMA DriveLooksInv ==
    ASSUME PublicationInv, NEW i \in Impl, DriveLooks(i)
    PROVE  PublicationInv'
<1> USE DEF PublicationInv, DriveLooks, rowVars, worldVars
<1>1. KnownPull(i, TRUE) => pulls[i]
  BY KnownIsPublished
<1>2. /\ drive' \in [pc : {"no", "next", "lands", "saves"}, left : SUBSET Impl, impl : SUBSET Impl]
      /\ drive'.left = drive.left /\ drive'.impl = {i}
      /\ drive'.pc = "saves" => pulls[i]
  BY <1>1 DEF PublicationTypes
<1>3. PublicationTypes'
  BY <1>1, <1>2 DEF PublicationTypes
<1>4. Carried'
  BY <1>2 DEF Carried, Whole, Team
<1> QED
  BY <1>3, <1>4, Concludes DEF Concluding, Whole

LEMMA DriveLandsInv ==
    ASSUME PublicationInv, NEW i \in Impl, DriveLands(i)
    PROVE  PublicationInv'
<1> USE DEF PublicationInv
<1>1. PICK outcome \in {"created", "refused", "failed"} :
        /\ Created(i, outcome) \/ Confirmed(i)
        /\ \/ /\ Confirmed(i) \/ outcome = "created"
              /\ drive' = [drive EXCEPT !.pc = "saves"]
              /\ UNCHANGED <<retryTimer, attempts, abandon>>
           \/ /\ drive' = NoDrive /\ attempts' = [s \in DOMAIN attempts |-> 0] /\ Abandons
              /\ UNCHANGED retryTimer
           \/ Charges(i)
  BY DEF DriveLands
<1>2. /\ UNCHANGED <<rowVars, workers, committed, mounted, handlers, noticed, completing,
                     saveFaults, crashes>>
      /\ drive.pc = "lands" /\ drive.impl = {i}
  BY DEF DriveLands
<1>3. UNCHANGED <<phase, pullRequests, recovered, closed>>
  BY <1>2 DEF rowVars
<1>4. /\ pulls' \in [Impl -> BOOLEAN] /\ \A j \in Impl : pulls[j] => pulls'[j]
      /\ \A j \in Impl : mounted'[j] => pulls'[j]
      /\ cache' \subseteq {j \in Impl : pulls'[j]}
      /\ Confirmed(i) \/ outcome = "created" => pulls'[i]
  BY <1>1, <1>2, GithubGrows
<1>5. /\ drive' \in [pc : {"no", "next", "lands", "saves"}, left : SUBSET Impl, impl : SUBSET Impl]
      /\ \/ drive'.pc = "no"
         \/ drive'.left = drive.left /\ drive'.impl = {i} /\ pulls'[i]
  <2>1. CASE drive' = [drive EXCEPT !.pc = "saves"] /\ (Confirmed(i) \/ outcome = "created")
    BY <1>2, <1>4, <2>1 DEF PublicationTypes
  <2>2. CASE drive' = NoDrive
    BY <2>2, NoDriveTyped
  <2> QED
    BY <1>1, <2>1, <2>2, ChargesTypes
<1>6. PublicationTypes'
  <2>1. /\ attempts' \in [Impl \cup {SaveStep} -> 0 .. MaxPublishAttempts + 1]
        /\ retryTimer' \in BOOLEAN /\ abandon' \in {"no", "wanted", "marked"}
    <3>1. CASE attempts' = [s \in DOMAIN attempts |-> 0] /\ Abandons /\ UNCHANGED retryTimer
      BY <3>1, PublicationAssumption DEF PublicationTypes, Abandons
    <3>2. CASE UNCHANGED <<retryTimer, attempts, abandon>>
      BY <3>2 DEF PublicationTypes
    <3> QED
      BY <1>1, <3>1, <3>2, ChargesTypes
  <2>2. pullRequests' \subseteq {j \in Impl : pulls'[j]}
    BY <1>3, <1>4 DEF PublicationTypes
  <2> QED
    BY <1>2, <1>3, <1>4, <1>5, <2>1, <2>2 DEF PublicationTypes
<1>7. Carried'
  BY <1>2, <1>3, <1>4, <1>5 DEF Carried, Whole, Team, PublicationTypes
<1> QED
  BY <1>2, <1>3, <1>4, <1>6, <1>7, Concludes DEF Concluding, Whole

LEMMA DriveSavesInv ==
    ASSUME PublicationInv, NEW i \in Impl, DriveSaves(i)
    PROVE  PublicationInv'
<1> USE DEF PublicationInv, DriveSaves, worldVars
<1>1. /\ UNCHANGED <<pulls, recovered, closed, completing, handlers>>
      /\ phase' \in {phase, "publishing"}
      /\ pullRequests' \in {pullRequests, pullRequests \cup {i}}
  BY DEF SavesPhase, SavesReceipt
<1>2. pulls[i]
  BY DEF Carried
<1>3. /\ drive' \in [pc : {"no", "next", "lands", "saves"}, left : SUBSET Impl, impl : SUBSET Impl]
      /\ \/ drive'.pc = "no"
         \/ drive'.pc = "next" /\ drive'.left = drive.left \ {i}
  <2>1. CASE drive' = NoDrive
    BY <2>1, NoDriveTyped
  <2>2. CASE drive' = [pc |-> "next", left |-> drive.left \ {i}, impl |-> {}]
    BY <2>2 DEF PublicationTypes
  <2> QED
    BY <2>1, <2>2, ChargesTypes
<1>4. PublicationTypes'
  <2>1. /\ attempts' \in [Impl \cup {SaveStep} -> 0 .. MaxPublishAttempts + 1]
        /\ retryTimer' \in BOOLEAN /\ abandon' \in {"no", "wanted", "marked"}
    <3>1. CASE attempts' = [attempts EXCEPT ![i] = IF Owned THEN 0 ELSE @]
               /\ UNCHANGED <<retryTimer, abandon>>
      BY <3>1, PublicationAssumption DEF PublicationTypes
    <3> QED
      BY <3>1, ChargesTypes
  <2>2. pullRequests' \subseteq {j \in Impl : pulls'[j]}
    BY <1>1, <1>2 DEF PublicationTypes
  <2>3. saveFaults' \in 0 .. MaxSaveFaults
    BY PublicationAssumption DEF PublicationTypes
  <2> QED
    BY <1>1, <1>3, <2>1, <2>2, <2>3 DEF PublicationTypes
<1>5. Carried'
  BY <1>1, <1>2, <1>3 DEF Carried, Whole, Team
<1> QED
  BY <1>1, <1>4, <1>5, Concludes DEF Concluding, Whole

LEMMA DriveEndsInv ==
    ASSUME PublicationInv, DriveEnds
    PROVE  PublicationInv'
<1> USE DEF PublicationInv, DriveEnds, worldVars
<1>1. Whole
  BY DEF Carried, Whole
<1>2. /\ UNCHANGED <<pulls, recovered, closed, handlers, pullRequests>>
      /\ phase' \in {phase, "published"} /\ completing' \in {completing, "writes"}
      /\ drive' = NoDrive
  BY ChargesTypes DEF SavesPhase, WantsCompletion
<1>3. PublicationTypes'
  <2>1. /\ attempts' \in [Impl \cup {SaveStep} -> 0 .. MaxPublishAttempts + 1]
        /\ retryTimer' \in BOOLEAN /\ abandon' \in {"no", "wanted", "marked"}
    <3>1. CASE attempts' = [attempts EXCEPT ![SaveStep] = 0] /\ UNCHANGED <<retryTimer, abandon>>
      BY <3>1, PublicationAssumption DEF PublicationTypes
    <3> QED
      BY <3>1, ChargesTypes
  <2>2. saveFaults' \in 0 .. MaxSaveFaults
    BY PublicationAssumption DEF PublicationTypes
  <2> QED
    BY <1>2, <2>1, <2>2, NoDriveTyped DEF PublicationTypes
<1>4. Carried'
  BY <1>1, <1>2, NoDriveTyped DEF Carried, Whole, Team
<1> QED
  BY <1>1, <1>2, <1>3, <1>4, Concludes DEF Whole

-----------------------------------------------------------------------------
(* Completion, abandonment and crashes *)

LEMMA CompletionWritesInv ==
    ASSUME PublicationInv, CompletionWrites
    PROVE  PublicationInv'
<1> USE DEF PublicationInv, CompletionWrites, worldVars
<1>1. PublicationTypes'
  <2>1. \/ saveFaults' = saveFaults
        \/ saveFaults < MaxSaveFaults /\ saveFaults' = saveFaults + 1
    OBVIOUS
  <2>2. saveFaults' \in 0 .. MaxSaveFaults
    BY <2>1, PublicationAssumption DEF PublicationTypes
  <2> QED
    BY <2>2 DEF PublicationTypes
<1>2. Carried'
  BY DEF Carried, Whole, Team
<1> QED
  BY <1>1, <1>2, Concludes DEF Concluding, Whole

LEMMA ReleasedTyped ==
    ASSUME PublicationTypes
    PROVE  Released \in [Impl -> {"works", "reports", "gone", "released"}]
BY DEF PublicationTypes, Released

LEMMA CompletionEndsInv ==
    ASSUME PublicationInv, CompletionEnds
    PROVE  PublicationInv'
<1> USE DEF PublicationInv, CompletionEnds
<1>1. PublicationTypes'
  BY ReleasedTyped DEF PublicationTypes, Terminal
<1>2. Carried'
  BY DEF Carried, Whole, Team
<1> QED
  BY <1>1, <1>2, Concludes DEF Concluding, Whole

LEMMA AbandonMarksInv ==
    ASSUME PublicationInv, AbandonMarks
    PROVE  PublicationInv'
<1> USE DEF PublicationInv, AbandonMarks, worldVars
<1>1. PublicationTypes'
  <2>1. saveFaults' \in 0 .. MaxSaveFaults
    BY PublicationAssumption DEF PublicationTypes
  <2> QED
    BY <2>1 DEF PublicationTypes
<1>2. Carried'
  BY DEF Carried, Whole, Team
<1> QED
  BY <1>1, <1>2, Concludes DEF Concluding, Whole

LEMMA AbandonEndsInv ==
    ASSUME PublicationInv, AbandonEnds
    PROVE  PublicationInv'
<1> USE DEF PublicationInv, AbandonEnds
<1>1. PublicationTypes'
  BY ReleasedTyped DEF PublicationTypes, Terminal
<1>2. Carried'
  BY DEF Carried, Whole, Team
<1> QED
  BY <1>1, <1>2, Concludes DEF Concluding, Whole

LEMMA CrashesInv ==
    ASSUME PublicationInv, Crashes
    PROVE  PublicationInv'
<1> USE DEF PublicationInv, Crashes, rowVars, worldVars
<1>1. handlers' \in [Impl -> [Kind -> {"no", "looks", "lands", "saves"}]]
  OBVIOUS
<1>2. attempts' \in [Impl \cup {SaveStep} -> 0 .. MaxPublishAttempts + 1]
  BY PublicationAssumption DEF PublicationTypes
<1>3. crashes' \in 0 .. MaxCrashes
  BY PublicationAssumption DEF PublicationTypes
<1>4. PublicationTypes'
  BY <1>1, <1>2, <1>3, NoDriveTyped DEF PublicationTypes
<1>5. Carried'
  BY NoDriveTyped DEF Carried, Whole, Team
<1> QED
  BY <1>4, <1>5, Concludes DEF Concluding, Whole

-----------------------------------------------------------------------------
(* The theorems *)

LEMMA StepInv == PublicationInv /\ [PublicationNext]_publicationVars => PublicationInv'
<1> SUFFICES ASSUME PublicationInv, [PublicationNext]_publicationVars PROVE PublicationInv'
  OBVIOUS
<1>1. ASSUME NEW i \in Impl, Commits(i) \/ OpensPull(i) \/ Reports(i) \/ Exits(i) \/ MountShows(i)
      PROVE  PublicationInv'
  BY <1>1, WorldInv
<1>2. ASSUME NEW i \in Impl, NEW k \in Kind, Handles(i, k)
      PROVE  PublicationInv'
  BY <1>2, ExitSeenInv, HandlerLooksInv, HandlerLandsInv, HandlerSavesInv DEF Handles
<1>3. CASE DriveStep
  BY <1>3, DrivesInv, DriveEndsInv, DriveLooksInv, DriveLandsInv, DriveSavesInv DEF DriveStep
<1>4. CASE UNCHANGED publicationVars
  BY <1>4 DEF publicationVars, rowVars, worldVars, procVars, PublicationInv, PublicationTypes,
              Carried, Concluding, Whole, Team
<1> QED
  BY <1>1, <1>2, <1>3, <1>4, PeriodicSweepInv, CompletionWritesInv, CompletionEndsInv,
     AbandonMarksInv, AbandonEndsInv, CrashesInv DEF PublicationNext

(* The types, and that receipts, the mount and the cache name only pull    *)
(* requests that GitHub has.                                               *)
THEOREM PublicationTyped == PublicationSpec => []PublicationTypes
<1>1. PublicationInv => PublicationTypes
  BY DEF PublicationInv
<1> QED
  BY <1>1, InitInv, StepInv, PTL DEF PublicationSpec

(* Unless the second exit of a recovered implementer concluded, an issue   *)
(* that was closed is one whose implementers all have a pull request       *)
(* (#allImplementersHaveCompletionPr).                                     *)
THEOREM ClosedWhole == PublicationSpec => []TeamClosesWhole
<1>1. PublicationInv => TeamClosesWhole
  BY DEF PublicationInv, TeamClosesWhole, ClosedIsPublished, Concluding, Whole
<1> QED
  BY <1>1, InitInv, StepInv, PTL DEF PublicationSpec

-----------------------------------------------------------------------------
(* Hosted dispatch: the inductive invariant *)

(* What was announced is the verdict on what the record says, and from     *)
(* then on the record does not say anything else.                          *)
Told(r, said) ==
    /\ said # {} => AllDone(r) /\ r.phase \in {"merge-gate", "complete", "blocked"}
                      /\ said = {Verdict(r)}
    /\ r.writeback["completion"] = "posted" => said # {}
    /\ r.phase = "complete" => said = {"ready"}
    /\ r.phase = "blocked" => said = {"blocked"}

Noting == {"note", "post", "noted"}

(* The operation that holds the lease has the record, but for what it is   *)
(* about to write; s is the record, and said what was announced.           *)
Copies(x, s) ==
    IF x.pc = "report"
    THEN /\ x.rec.phase = s.phase /\ x.rec.writeback = s.writeback /\ x.rec.gate = s.gate
         /\ AllDone(s) => x.rec.invocations = s.invocations
    ELSE IF x.pc = "spawned"
    THEN x.rec.phase = "dispatching" /\ x.rec.writeback = s.writeback
    ELSE x.rec = s

Concluded(x) == x.pc = "final" \/ (x.pc \in Noting /\ x.kind = "completion")

Holds(x, s, said) ==
    /\ x.pc # "idle" /\ Copies(x, s)
    /\ x.pc \in {"spawn", "spawned"} => s.phase = "dispatching"
    /\ x.pc = "triage" => s.phase = "triaging"
    /\ x.pc \in {"gate", "decide"} => AllDone(s)
    /\ x.pc = "decide" => s.phase = "merge-gate"
    /\ Concluded(x) => AllDone(s) /\ s.phase = "merge-gate" /\ s.gate = Verdict(s)
    /\ x.pc \in Noting => (x.next = "final" => x.kind = "completion")
    /\ x.pc \in Noting => (x.kind = "completion" => x.next = "final")
    /\ x.pc \in {"note", "post"} => ~x.posted
    /\ x.pc = "noted" /\ x.posted /\ x.kind = "completion" => said # {}

HostedInv ==
    /\ HostedTypes
    /\ Told(record, announced)
    /\ \A o \in Slot : lease = o => Holds(op[o], record, announced)

-----------------------------------------------------------------------------
(* Records and operations *)

Stages == {"idle", "reconcile", "report", "note", "post", "noted", "spawn", "spawned", "poll",
        "gate", "decide", "final", "discover", "triage", "release"}
Phases == {"none", "triaging", "awaiting-clarification", "dispatching", "running",
           "merge-gate", "complete", "blocked"}
Statuses == {"absent", "pending", "dispatched"} \union Finished

LEMMA RecordFields ==
    ASSUME NEW r \in Record
    PROVE  /\ r.phase \in Phases /\ r.gate \in {"none", "ready", "blocked"}
           /\ r.invocations \in [Inv -> Statuses]
           /\ r.writeback \in [Writeback -> {"none", "pending", "failed", "posted"}]
BY DEF Record, Phases, Statuses

LEMMA NewRecordTyped == NewRecord \in Record
BY DEF NewRecord, Record, Writeback, Finished

LEMMA WithPhase ==
    ASSUME NEW r \in Record, NEW stage \in Phases
    PROVE  LET s == [r EXCEPT !.phase = stage] IN
           /\ s \in Record /\ s.phase = stage /\ s.gate = r.gate
           /\ s.invocations = r.invocations /\ s.writeback = r.writeback
BY DEF Record, Phases

LEMMA WithGate ==
    ASSUME NEW r \in Record, NEW gate \in {"none", "ready", "blocked"}
    PROVE  LET s == [r EXCEPT !.gate = gate] IN
           /\ s \in Record /\ s.phase = r.phase /\ s.gate = gate
           /\ s.invocations = r.invocations /\ s.writeback = r.writeback
BY DEF Record

Written(r, k, w) == [r EXCEPT !.writeback[k] = w]

LEMMA WithStatus ==
    ASSUME NEW r \in Record, NEW i \in Inv, NEW status \in Statuses
    PROVE  LET s == [r EXCEPT !.invocations[i] = status] IN
           /\ s \in Record /\ s.phase = r.phase /\ s.gate = r.gate /\ s.writeback = r.writeback
           /\ \A j \in Inv : j # i => s.invocations[j] = r.invocations[j]
BY DEF Record, Statuses

LEMMA WithStatuses ==
    ASSUME NEW r \in Record, NEW all \in [Inv -> Statuses]
    PROVE  LET s == [r EXCEPT !.invocations = all] IN
           /\ s \in Record /\ s.phase = r.phase /\ s.gate = r.gate /\ s.writeback = r.writeback
           /\ s.invocations = all
BY DEF Record, Statuses

LEMMA OperationFields ==
    ASSUME NEW x \in Operation
    PROVE  /\ x.pc \in Stages /\ x.stage \in {"reconcile", "discover", "completion"}
           /\ x.rec \in Record /\ x.kind \in Writeback /\ x.posted \in BOOLEAN
           /\ x.next \in {"discover", "poll", "final", "release"}
BY DEF Operation, Stages

Ends(x) == [x EXCEPT !.pc = "release"]
Turns(x, r, pc) == [x EXCEPT !.rec = r, !.pc = pc]
Wants(x, r, k, next) ==
    [x EXCEPT !.rec = r, !.pc = "note", !.kind = k, !.next = next, !.posted = FALSE]

LEMMA EndsFields ==
    ASSUME NEW x \in Operation
    PROVE  Ends(x) \in Operation /\ Ends(x).pc = "release" /\ Ends(x).rec = x.rec
BY DEF Operation, Ends

LEMMA TurnsFields ==
    ASSUME NEW x \in Operation, NEW r \in Record, NEW pc \in Stages
    PROVE  /\ Turns(x, r, pc) \in Operation /\ Turns(x, r, pc).pc = pc
           /\ Turns(x, r, pc).rec = r /\ Turns(x, r, pc).kind = x.kind
           /\ Turns(x, r, pc).posted = x.posted /\ Turns(x, r, pc).next = x.next
BY DEF Operation, Stages, Turns

Discovers(x, r, pc) == [x EXCEPT !.rec = r, !.pc = pc, !.stage = "discover"]

LEMMA DiscoversFields ==
    ASSUME NEW x \in Operation, NEW r \in Record, NEW pc \in Stages
    PROVE  /\ Discovers(x, r, pc) \in Operation /\ Discovers(x, r, pc).pc = pc
           /\ Discovers(x, r, pc).rec = r
BY DEF Operation, Stages, Discovers

Has(x, posted) == [x EXCEPT !.pc = "noted", !.posted = posted]

LEMMA HasFields ==
    ASSUME NEW x \in Operation, NEW posted \in BOOLEAN
    PROVE  /\ Has(x, posted) \in Operation /\ Has(x, posted).pc = "noted"
           /\ Has(x, posted).rec = x.rec /\ Has(x, posted).kind = x.kind
           /\ Has(x, posted).next = x.next /\ Has(x, posted).posted = posted
BY DEF Operation, Has

LEMMA VerdictTyped ==
    ASSUME NEW r
    PROVE  Verdict(r) \in {"ready", "blocked"}
BY DEF Verdict

LEMMA SameVerdict ==
    ASSUME NEW r, NEW s, r.invocations = s.invocations
    PROVE  (AllDone(r) <=> AllDone(s)) /\ Verdict(r) = Verdict(s)
BY DEF AllDone, Verdict

LEMMA OnwardTyped ==
    ASSUME NEW o
    PROVE  Onward(o) \in {"discover", "release"}
BY DEF Onward

(* An operation moves; what it does beside is right if it holds the lease. *)
LEMMA OperationMoves ==
    ASSUME HostedInv, NEW o \in Slot, NEW x \in Operation, op' = [op EXCEPT ![o] = x],
           UNCHANGED <<lease, clear>>, record' \in Record,
           agent' \in [Inv -> {"none", "works"} \union Finished],
           announced' \subseteq {"ready", "blocked"}, hostedTroubles' \in 0 .. MaxHostedTroubles,
           lease # o => UNCHANGED <<record, announced>>,
           lease = o => Told(record', announced') /\ Holds(x, record', announced')
    PROVE  HostedInv'
<1>1. HostedTypes'
  BY DEF HostedInv, HostedTypes
<1>2. Told(record', announced')
  BY DEF HostedInv
<1>3. ASSUME NEW h \in Slot, lease' = h
      PROVE  Holds(op'[h], record', announced')
  <2>1. CASE h = o
    <3>1. op'[h] = x
      BY <2>1 DEF HostedInv, HostedTypes
    <3> QED
      BY <1>3, <2>1, <3>1
  <2>2. CASE h # o
    <3>1. op'[h] = op[h]
      BY <2>2 DEF HostedInv, HostedTypes
    <3>2. record' = record /\ announced' = announced
      BY <1>3, <2>2
    <3> QED
      BY <1>3, <3>1, <3>2 DEF HostedInv
  <2> QED
    BY <2>1, <2>2
<1> QED
  BY <1>1, <1>2, <1>3 DEF HostedInv, Told, Holds, Copies, Concluded, AllDone, Verdict

-----------------------------------------------------------------------------
(* The steps of an operation *)

LEMMA PcTurns ==
    ASSUME NEW o \in Slot, op \in [Slot -> Operation], NEW pc, op' = [op EXCEPT ![o].pc = pc]
    PROVE  Goes(o, op[o].rec, pc)
BY DEF Goes, Operation

LEMMA EndsTurn ==
    ASSUME NEW o \in Slot, op \in [Slot -> Operation], OpEnds(o)
    PROVE  Goes(o, op[o].rec, "release")
BY DEF Goes, OpEnds, Operation

(* An operation that ends, or goes on with the record as it is.            *)
LEMMA OperationEnds ==
    ASSUME HostedInv, NEW o \in Slot, OpEnds(o), UNCHANGED <<lease, clear, agent, announced>>,
           hostedTroubles' \in 0 .. MaxHostedTroubles,
           UNCHANGED record, lease = o => op[o].rec = record
    PROVE  HostedInv'
<1>1. op \in [Slot -> Operation] /\ op[o] \in Operation /\ Told(record, announced)
      /\ record \in Record /\ announced \subseteq {"ready", "blocked"}
      /\ agent \in [Inv -> {"none", "works"} \union Finished]
  BY DEF HostedInv, HostedTypes
<1>2. op' = [op EXCEPT ![o] = Ends(op[o])]
  BY <1>1 DEF OpEnds, Ends
<1>3. /\ Ends(op[o]) \in Operation /\ Ends(op[o]).pc = "release"
      /\ Ends(op[o]).rec = op[o].rec
  BY <1>1, EndsFields
<1>4. lease = o => Holds(Ends(op[o]), record, announced)
  BY <1>3 DEF Holds, Copies, Concluded, Noting
<1> QED
  BY <1>1, <1>2, <1>3, <1>4, OperationMoves

(* The holder of the lease writes the record and goes on.                  *)
LEMMA HolderMoves ==
    ASSUME HostedInv, NEW o \in Slot, lease = o, NEW x \in Operation,
           op' = [op EXCEPT ![o] = x], UNCHANGED <<lease, clear, agent>>,
           record' \in Record, announced' \subseteq {"ready", "blocked"},
           hostedTroubles' \in 0 .. MaxHostedTroubles,
           Told(record', announced'), Holds(x, record', announced')
    PROVE  HostedInv'
BY OperationMoves DEF HostedInv, HostedTypes

LEMMA Known ==
    ASSUME HostedInv
    PROVE  /\ op \in [Slot -> Operation] /\ Told(record, announced) /\ record \in Record
           /\ announced \subseteq {"ready", "blocked"}
           /\ agent \in [Inv -> {"none", "works"} \union Finished]
           /\ hostedTroubles \in 0 .. MaxHostedTroubles
           /\ \A o \in Slot : op[o] \in Operation /\ (lease = o => Holds(op[o], record, announced))
BY DEF HostedInv, HostedTypes

LEMMA Labels ==
    /\ "release" \in Stages /\ "note" \in Stages /\ "post" \in Stages /\ "noted" \in Stages
    /\ "spawn" \in Stages /\ "spawned" \in Stages /\ "poll" \in Stages /\ "gate" \in Stages
    /\ "decide" \in Stages /\ "final" \in Stages /\ "discover" \in Stages /\ "triage" \in Stages
    /\ "idle" \in Stages /\ "report" \in Stages /\ "reconcile" \in Stages
    /\ "clarification" \in Writeback /\ "dispatch" \in Writeback /\ "completion" \in Writeback
BY DEF Stages, Writeback

(* An operation goes on with r; what it wrote is right if it holds the     *)
(* lease, and it wrote nothing otherwise.                                  *)
LEMMA GoesOn ==
    ASSUME HostedInv, NEW o \in Slot, NEW r \in Record, NEW pc \in Stages, Goes(o, r, pc),
           UNCHANGED <<lease, clear, announced>>,
           agent' \in [Inv -> {"none", "works"} \union Finished],
           hostedTroubles' \in 0 .. MaxHostedTroubles,
           record' \in Record, lease # o => UNCHANGED record,
           lease = o => Told(record', announced) /\ Holds(Turns(op[o], r, pc), record', announced)
    PROVE  HostedInv'
<1>1. op[o] \in Operation /\ op \in [Slot -> Operation]
  BY Known
<1>2. op' = [op EXCEPT ![o] = Turns(op[o], r, pc)]
  BY <1>1 DEF Goes, Turns
<1>3. Turns(op[o], r, pc) \in Operation
  BY <1>1, TurnsFields
<1> QED
  BY <1>2, <1>3, Known, OperationMoves

LEMMA Wanted ==
    ASSUME NEW o \in Slot, op[o] \in Operation, NEW r \in Record, NEW k \in Writeback,
           NEW next \in {"discover", "poll", "final", "release"}
    PROVE  LET x == Wants(op[o], r, k, next) IN
           /\ x \in Operation /\ x.pc = "note" /\ x.rec = r /\ x.kind = k /\ x.next = next
           /\ ~x.posted
<1> DEFINE y == op[o]
<1>1. y \in Operation
  OBVIOUS
<1> HIDE DEF y
<1>2. ASSUME NEW z \in Operation
      PROVE  LET x == Wants(z, r, k, next) IN
             /\ x \in Operation /\ x.pc = "note" /\ x.rec = r /\ x.kind = k /\ x.next = next
             /\ ~x.posted
  BY DEF Wants, Operation
<1> QED
  BY <1>1, <1>2 DEF y

(* The same of one that turns to a writeback.                              *)
LEMMA NotesDown ==
    ASSUME HostedInv, NEW o \in Slot, NEW r \in Record, NEW k \in Writeback,
           NEW next \in {"discover", "poll", "final", "release"}, Notes(o, r, k, next),
           UNCHANGED <<lease, clear, announced, agent, hostedTroubles>>,
           record' \in Record, lease # o => UNCHANGED record,
           lease = o => Told(record', announced) /\ record' = r,
           lease = o /\ k = "completion" =>
               AllDone(r) /\ r.phase = "merge-gate" /\ r.gate = Verdict(r),
           k = "completion" <=> next = "final"
    PROVE  HostedInv'
<1>1. op[o] \in Operation /\ op \in [Slot -> Operation]
  BY Known
<1> DEFINE x == Wants(op[o], r, k, next)
<1>2. op' = [op EXCEPT ![o] = x]
  BY <1>1 DEF Notes, Wants
<1>3. /\ x \in Operation /\ x.pc = "note" /\ x.rec = r /\ x.kind = k /\ x.next = next
      /\ ~x.posted
  BY <1>1, Wanted
<1> HIDE DEF x
<1>4. lease = o => Holds(x, record', announced)
  BY <1>3 DEF Holds, Copies, Concluded, Noting
<1> QED
  BY <1>2, <1>3, <1>4, Known, OperationMoves

(* An operation whose lease ran out has its write refused, and ends.       *)
LEMMA RefusedEnds ==
    ASSUME HostedInv, NEW o \in Slot, OpEnds(o), lease # o, UNCHANGED record,
           UNCHANGED <<lease, clear, agent, announced>>, hostedTroubles' \in 0 .. MaxHostedTroubles
    PROVE  HostedInv'
BY OperationEnds

LEMMA ReportKeeps ==
    ASSUME HostedInv, NEW o \in Slot, ReportSaved(o)
    PROVE  HostedInv'
<1>1. /\ op[o].pc = "report" /\ SaveRecord(o, op[o].rec) /\ op[o].rec \in Record
      /\ UNCHANGED <<lease, agent, clear, announced, hostedTroubles>> /\ op[o] \in Operation
      /\ hostedTroubles' \in 0 .. MaxHostedTroubles
      /\ agent' \in [Inv -> {"none", "works"} \union Finished]
  BY Known, OperationFields DEF ReportSaved, OpAt, Rec
<1>2. CASE lease # o
  BY <1>1, <1>2, RefusedEnds DEF ReportSaved, SaveRecord
<1>3. CASE lease = o
  <2> DEFINE r == op[o].rec
  <2>1. Holds(op[o], record, announced) /\ record' = r
    BY <1>1, <1>3, Known DEF SaveRecord
  <2>2. Told(r, announced)
    <3>1. /\ r.phase = record.phase /\ r.writeback = record.writeback
          /\ AllDone(record) => r.invocations = record.invocations
      BY <1>1, <2>1 DEF Holds, Copies
    <3> QED
      BY <3>1, Known, SameVerdict DEF Told
  <2>3. CASE AllDone(r)
    <3>1. Goes(o, r, "gate")
      BY <1>3, <2>3 DEF ReportSaved, Rec
    <3>2. Turns(op[o], r, "gate").pc = "gate" /\ Turns(op[o], r, "gate").rec = r
      <4>1. op[o] \in Operation /\ r \in Record /\ "gate" \in Stages
        BY <1>1, Labels
      <4> HIDE DEF r
      <4> QED
        BY <4>1, TurnsFields
    <3>3. Holds(Turns(op[o], r, "gate"), r, announced)
      BY <2>3, <3>2 DEF Holds, Copies, Concluded, Noting
    <3> QED
      BY <1>1, <1>3, <2>1, <2>2, <3>1, <3>3, Labels, GoesOn
  <2>4. CASE ~AllDone(r)
    <3>1. Goes(o, r, "release")
      BY <1>1, <1>3, <2>4, Known, EndsTurn DEF ReportSaved, Rec
    <3>2. Turns(op[o], r, "release").pc = "release" /\ Turns(op[o], r, "release").rec = r
      <4>1. op[o] \in Operation /\ r \in Record /\ "release" \in Stages
        BY <1>1, Labels
      <4> HIDE DEF r
      <4> QED
        BY <4>1, TurnsFields
    <3>3. Holds(Turns(op[o], r, "release"), r, announced)
      BY <3>2 DEF Holds, Copies, Concluded, Noting
    <3> QED
      BY <1>1, <1>3, <2>1, <2>2, <3>1, <3>3, Labels, GoesOn
  <2> QED
    BY <2>3, <2>4
<1> QED
  BY <1>2, <1>3

LEMMA ReconcileKeeps ==
    ASSUME HostedInv, NEW o \in Slot, Reconcile(o)
    PROVE  HostedInv'
<1> DEFINE r == op[o].rec
<1>1. /\ op[o] \in Operation /\ r \in Record /\ op[o].pc = "reconcile" /\ r.phase \in Phases
      /\ UNCHANGED <<lease, record, agent, clear, announced, hostedTroubles>>
      /\ record' \in Record /\ hostedTroubles' \in 0 .. MaxHostedTroubles
      /\ agent' \in [Inv -> {"none", "works"} \union Finished] /\ Told(record', announced)
  BY Known, OperationFields, RecordFields DEF Reconcile, OpAt
<1>2. lease = o => r = record
  BY <1>1, Known DEF Holds, Copies
<1>3. CASE OpEnds(o)
  BY <1>1, <1>2, <1>3, OperationEnds
<1>4. ASSUME NEW pc \in {"discover", "spawn", "poll"}, Goes(o, r, pc),
             pc = "spawn" => r.phase = "dispatching"
      PROVE  HostedInv'
  <2>1. pc \in Stages
    BY DEF Stages
  <2>2. Turns(op[o], r, pc).pc = pc /\ Turns(op[o], r, pc).rec = r
    BY <1>1, <2>1, TurnsFields
  <2>3. lease = o => Holds(Turns(op[o], r, pc), record', announced)
    BY <1>1, <1>2, <1>4, <2>2 DEF Holds, Copies, Concluded, Noting
  <2> HIDE DEF r
  <2> QED
    BY <1>1, <1>4, <2>1, <2>3, GoesOn
<1>5. ASSUME NEW k \in {"clarification", "dispatch"}, NEW next \in {"discover", "poll"},
             Notes(o, r, k, next)
      PROVE  HostedInv'
  <2>1. /\ k \in Writeback /\ next \in {"discover", "poll", "final", "release"}
        /\ k # "completion" /\ next # "final"
    BY DEF Writeback
  <2> HIDE DEF r
  <2> QED
    BY <1>1, <1>2, <1>5, <2>1, NotesDown
<1>6. \/ OpEnds(o)
      \/ Notes(o, r, "clarification", "discover")
      \/ r.phase = "dispatching" /\ Goes(o, r, "spawn")
      \/ Notes(o, r, "dispatch", "poll")
      \/ Goes(o, r, "poll")
      \/ Goes(o, r, "discover")
  BY DEF Reconcile, Rec
<1> HIDE DEF r
<1> QED
  BY <1>3, <1>4, <1>5, <1>6

LEMMA PollKeeps ==
    ASSUME HostedInv, NEW o \in Slot, Poll(o)
    PROVE  HostedInv'
<1> DEFINE x == op[o]
           all == [i \in Inv |-> Polled(x.rec, i)]
           r == [x.rec EXCEPT !.invocations = all]
           onward == IF AllDone(r) THEN "gate" ELSE "discover"
<1>1. /\ x \in Operation /\ x.rec \in Record /\ x.pc = "poll"
      /\ UNCHANGED <<lease, agent, clear, announced, hostedTroubles>>
  BY Known, OperationFields DEF Poll, OpAt
<1>2. lease = o => x.rec = record
  BY <1>1, Known DEF Holds, Copies
<1>3. all \in [Inv -> Statuses]
  <2>1. x.rec.invocations \in [Inv -> Statuses]
    BY <1>1, RecordFields
  <2>2. ASSUME NEW i \in Inv
        PROVE  Polled(x.rec, i) \in Statuses
    BY <2>1, Known DEF Polled, Statuses, Finished
  <2> QED
    BY <2>2
<1>4. /\ r \in Record /\ r.phase = x.rec.phase /\ r.gate = x.rec.gate
      /\ r.writeback = x.rec.writeback /\ r.invocations = all
  BY <1>1, <1>3, WithStatuses
<1>5. AllDone(x.rec) => r.invocations = x.rec.invocations
  <2>1. x.rec.invocations \in [Inv -> Statuses]
    BY <1>1, RecordFields
  <2>2. ASSUME AllDone(x.rec), NEW i \in Inv
        PROVE  all[i] = x.rec.invocations[i]
    BY <2>2 DEF AllDone, Polled
  <2> QED
    BY <1>3, <1>4, <2>1, <2>2
<1>6. Poll(o) => IF r = x.rec THEN Goes(o, r, onward) /\ UNCHANGED record
                 ELSE /\ SaveRecord(o, r)
                      /\ IF lease = o THEN Goes(o, r, onward) ELSE OpEnds(o)
  BY DEF Poll, Rec
<1> HIDE DEF all, r
<1>7. CASE OpEnds(o) /\ lease # o
  <2>1. UNCHANGED record /\ hostedTroubles' \in 0 .. MaxHostedTroubles
    BY <1>1, <1>6, <1>7, Known DEF SaveRecord
  <2> QED
    BY <1>1, <1>7, <2>1, RefusedEnds
<1>8. CASE Goes(o, r, onward)
  <2>1. onward \in Stages
    BY Labels
  <2>2. Turns(x, r, onward).pc = onward /\ Turns(x, r, onward).rec = r
    BY <1>1, <1>4, <2>1, TurnsFields
  <2>3. (lease = o => record' = r) /\ (lease # o => record' = record)
    BY <1>2, <1>6 DEF SaveRecord
  <2>4. lease = o => Told(r, announced)
    BY <1>2, <1>4, <1>5, Known, SameVerdict DEF Told
  <2>5. lease = o => Holds(Turns(x, r, onward), r, announced)
    BY <2>2 DEF Holds, Copies, Concluded, Noting
  <2>6. record' \in Record
    BY <1>4, <2>3, Known
  <2>7. /\ agent' \in [Inv -> {"none", "works"} \union Finished]
        /\ hostedTroubles' \in 0 .. MaxHostedTroubles
    BY <1>1, Known
  <2> HIDE DEF onward
  <2> QED
    BY <1>1, <1>4, <1>8, <2>1, <2>3, <2>4, <2>5, <2>6, <2>7, GoesOn
<1> QED
  BY <1>6, <1>7, <1>8

(* A write, and what follows it.                                           *)
LEMMA SavedGoesOn ==
    ASSUME HostedInv, NEW o \in Slot, NEW r \in Record, NEW pc \in Stages, SaveRecord(o, r),
           IF lease = o THEN Goes(o, r, pc) ELSE OpEnds(o),
           UNCHANGED <<lease, agent, clear, announced, hostedTroubles>>,
           lease = o => Told(r, announced) /\ Holds(Turns(op[o], r, pc), r, announced)
    PROVE  HostedInv'
<1>1. /\ hostedTroubles' \in 0 .. MaxHostedTroubles
      /\ agent' \in [Inv -> {"none", "works"} \union Finished]
  BY Known
<1>2. CASE lease # o
  BY <1>1, <1>2, RefusedEnds DEF SaveRecord
<1>3. CASE lease = o
  <2>1. record' = r
    BY <1>3 DEF SaveRecord
  <2> QED
    BY <1>1, <1>3, <2>1, GoesOn
<1> QED
  BY <1>2, <1>3

LEMMA SavedNotesDown ==
    ASSUME HostedInv, NEW o \in Slot, NEW r \in Record, NEW k \in Writeback,
           NEW next \in {"discover", "poll", "final", "release"}, SaveRecord(o, r),
           lease = o => Notes(o, r, k, next), lease # o => OpEnds(o),
           UNCHANGED <<lease, agent, clear, announced, hostedTroubles>>,
           lease = o => Told(r, announced),
           lease = o /\ k = "completion" =>
               AllDone(r) /\ r.phase = "merge-gate" /\ r.gate = Verdict(r),
           k = "completion" <=> next = "final"
    PROVE  HostedInv'
<1>1. hostedTroubles' \in 0 .. MaxHostedTroubles
  BY Known
<1>2. CASE lease # o
  BY <1>1, <1>2, RefusedEnds DEF SaveRecord
<1>3. CASE lease = o
  <2>1. record' = r
    BY <1>3 DEF SaveRecord
  <2> QED
    BY <1>3, <2>1, NotesDown
<1> QED
  BY <1>2, <1>3

LEMMA SpawnKeeps ==
    ASSUME HostedInv, NEW o \in Slot, NEW i \in Inv, Spawn(o, i)
    PROVE  HostedInv'
<1>1. /\ op[o] \in Operation /\ op[o].rec \in Record /\ op[o].pc = "spawn"
      /\ UNCHANGED <<lease, record, clear, announced, hostedTroubles>>
      /\ record' \in Record /\ hostedTroubles' \in 0 .. MaxHostedTroubles
      /\ Told(record', announced)
  BY Known, OperationFields DEF Spawn, OpAt
<1>2. CASE lease # o
  <2>1. OpEnds(o) /\ UNCHANGED <<lease, clear, agent, announced>> /\ UNCHANGED record
    BY <1>2 DEF Spawn
  <2> QED
    BY <1>1, <1>2, <2>1, RefusedEnds
<1>3. CASE lease = o
  <2> DEFINE r == [op[o].rec EXCEPT !.invocations[i] = "dispatched"]
  <2>1. Goes(o, r, "spawned")
    BY <1>3 DEF Spawn, Rec
  <2>2. agent' \in [Inv -> {"none", "works"} \union Finished]
    BY <1>3, Known DEF Spawn
  <2>3. r \in Record /\ r.phase = op[o].rec.phase /\ r.writeback = op[o].rec.writeback
    <3>1. "dispatched" \in Statuses
      BY DEF Statuses
    <3> QED
      BY <1>1, <3>1, WithStatus
  <2>4. r.phase = "dispatching" /\ record.phase = "dispatching" /\ r.writeback = record.writeback
    BY <1>1, <1>3, <2>3, Known DEF Holds, Copies
  <2> HIDE DEF r
  <2>5. Turns(op[o], r, "spawned").pc = "spawned" /\ Turns(op[o], r, "spawned").rec = r
    <3>1. op[o] \in Operation /\ r \in Record /\ "spawned" \in Stages
      BY <1>1, <2>3, Labels
    <3> QED
      BY <3>1, TurnsFields
  <2>6. Holds(Turns(op[o], r, "spawned"), record', announced)
    BY <1>1, <2>4, <2>5 DEF Holds, Copies, Concluded, Noting
  <2> QED
    BY <1>1, <1>3, <2>1, <2>2, <2>3, <2>6, Labels, GoesOn
<1> QED
  BY <1>2, <1>3

LEMMA SpawnFailsKeeps ==
    ASSUME HostedInv, NEW o \in Slot, NEW i \in Inv, SpawnFails(o, i)
    PROVE  HostedInv'
<1>1. /\ op[o] \in Operation /\ op[o].rec \in Record /\ op[o].pc = "spawn" /\ lease = o
      /\ UNCHANGED <<lease, record, clear, announced>>
      /\ record' \in Record /\ Told(record', announced) /\ Onward(o) \in Stages
      /\ Onward(o) \in {"discover", "release"}
  BY Known, OperationFields, OnwardTyped, Labels DEF SpawnFails, OpAt
<1>2. hostedTroubles' \in 0 .. MaxHostedTroubles
  BY Known, HostedAssumption DEF SpawnFails, HostedTrouble
<1>3. agent' \in [Inv -> {"none", "works"} \union Finished]
  BY Known DEF SpawnFails
<1> DEFINE r == op[o].rec
<1>4. Goes(o, r, Onward(o))
  BY <1>1, Known, PcTurns DEF SpawnFails
<1>5. r = record
  BY <1>1, Known DEF Holds, Copies
<1>6. op[o] \in Operation /\ r \in Record
  BY <1>1
<1> HIDE DEF r
<1>7. Turns(op[o], r, Onward(o)).pc = Onward(o) /\ Turns(op[o], r, Onward(o)).rec = r
  BY <1>1, <1>6, TurnsFields
<1>8. Holds(Turns(op[o], r, Onward(o)), record', announced)
  BY <1>1, <1>5, <1>7 DEF Holds, Copies, Concluded, Noting
<1> QED
  BY <1>1, <1>2, <1>3, <1>4, <1>6, <1>8, GoesOn

LEMMA SpawnSavedKeeps ==
    ASSUME HostedInv, NEW o \in Slot, SpawnSaved(o)
    PROVE  HostedInv'
<1> DEFINE r == op[o].rec
<1>1. /\ op[o] \in Operation /\ r \in Record /\ op[o].pc = "spawned" /\ SaveRecord(o, r)
      /\ IF lease = o THEN Goes(o, r, "spawn") ELSE OpEnds(o)
      /\ UNCHANGED <<lease, agent, clear, announced, hostedTroubles>>
  BY Known, OperationFields DEF SpawnSaved, OpAt, Rec
<1>2. lease = o => /\ r.phase = "dispatching" /\ r.writeback = record.writeback
                   /\ record.phase = "dispatching"
  BY <1>1, Known DEF Holds, Copies
<1> HIDE DEF r
<1>3. Turns(op[o], r, "spawn").pc = "spawn" /\ Turns(op[o], r, "spawn").rec = r
  <2>1. op[o] \in Operation /\ r \in Record /\ "spawn" \in Stages
    BY <1>1, Labels
  <2> QED
    BY <2>1, TurnsFields
<1>4. lease = o => Holds(Turns(op[o], r, "spawn"), r, announced)
  BY <1>2, <1>3 DEF Holds, Copies, Concluded, Noting
<1>5. lease = o => Told(r, announced)
  BY <1>2, Known DEF Told
<1> QED
  BY <1>1, <1>4, <1>5, Labels, SavedGoesOn

LEMMA StartedKeeps ==
    ASSUME HostedInv, NEW o \in Slot, Started(o)
    PROVE  HostedInv'
<1> DEFINE r == [op[o].rec EXCEPT !.phase = "running"]
<1>1. /\ op[o] \in Operation /\ op[o].rec \in Record /\ op[o].pc = "spawn" /\ SaveRecord(o, r)
      /\ lease = o => Notes(o, r, "dispatch", Onward(o))
      /\ lease # o => OpEnds(o)
      /\ UNCHANGED <<lease, agent, clear, announced, hostedTroubles>>
  BY Known, OperationFields DEF Started, OpAt, Rec
<1>2. /\ r \in Record /\ r.phase = "running" /\ r.writeback = op[o].rec.writeback
  <2>1. "running" \in Phases
    BY DEF Phases
  <2> QED
    BY <1>1, <2>1, WithPhase
<1> HIDE DEF r
<1>3. lease = o => Told(r, announced)
  BY <1>1, <1>2, Known DEF Told, Holds, Copies
<1>4. Onward(o) \in {"discover", "poll", "final", "release"} /\ Onward(o) # "final"
  BY OnwardTyped
<1> QED
  BY <1>1, <1>2, <1>3, <1>4, Labels, SavedNotesDown

LEMMA WroteDown ==
    ASSUME NEW o \in Slot, op[o].rec \in Record, op[o].kind \in Writeback,
           NEW w \in {"none", "pending", "failed", "posted"}
    PROVE  LET x == op[o]
               u == Written(x.rec, x.kind, w) IN
           /\ u \in Record /\ u.phase = x.rec.phase /\ u.gate = x.rec.gate
           /\ u.invocations = x.rec.invocations /\ u.writeback[x.kind] = w
           /\ \A j \in Writeback : j # x.kind => u.writeback[j] = x.rec.writeback[j]
<1> DEFINE s == op[o].rec
           k == op[o].kind
           u == Written(s, k, w)
<1>1. s \in Record /\ k \in Writeback
  OBVIOUS
<1>2. ASSUME NEW q \in Record, NEW j \in Writeback
      PROVE  LET v == Written(q, j, w) IN
             /\ v \in Record /\ v.phase = q.phase /\ v.gate = q.gate
             /\ v.invocations = q.invocations /\ v.writeback[j] = w
             /\ \A l \in Writeback : l # j => v.writeback[l] = q.writeback[l]
  BY DEF Record, Written
<1> HIDE DEF s, k
<1>3. /\ u \in Record /\ u.phase = s.phase /\ u.gate = s.gate
      /\ u.invocations = s.invocations /\ u.writeback[k] = w
      /\ \A l \in Writeback : l # k => u.writeback[l] = s.writeback[l]
  BY <1>1, <1>2
<1> QED
  BY <1>3 DEF s, k

LEMMA NoteKeeps ==
    ASSUME HostedInv, NEW o \in Slot, Note(o)
    PROVE  HostedInv'
<1> DEFINE x == op[o]
           r == Written(x.rec, x.kind, "pending")
<1>1. /\ x \in Operation /\ x.rec \in Record /\ x.pc = "note" /\ x.kind \in Writeback
      /\ x.next \in {"discover", "poll", "final", "release"}
      /\ UNCHANGED <<lease, agent, clear, announced, hostedTroubles>>
      /\ hostedTroubles' \in 0 .. MaxHostedTroubles
      /\ agent' \in [Inv -> {"none", "works"} \union Finished]
  BY Known, OperationFields DEF Note, OpAt
<1>2. lease = o => Holds(x, record, announced) /\ x.rec = record
  BY <1>1, Known DEF Holds, Copies
<1>3. CASE x.rec.writeback[x.kind] = "posted"
  <2> DEFINE s == x.rec
             y == Turns(x, s, x.next)
  <2>1. Goes(o, s, x.next) /\ UNCHANGED record
    BY <1>3 DEF Note, Rec
  <2>2. x.next \in Stages /\ s \in Record /\ record' \in Record /\ Told(record', announced)
    BY <1>1, <2>1, Known, Labels
  <2>3. y.pc = x.next /\ y.rec = s
    <3> HIDE DEF s, x
    <3> QED
      BY <1>1, <2>2, TurnsFields
  <2>4. lease = o => Holds(y, record', announced)
    <3> HIDE DEF y
    <3> QED
      BY <1>1, <1>2, <2>1, <2>3 DEF Holds, Copies, Concluded, Noting
  <2> HIDE DEF s
  <2> QED
    BY <1>1, <2>1, <2>2, <2>4, GoesOn
<1>4. CASE x.rec.writeback[x.kind] # "posted"
  <2>1. SaveRecord(o, r) /\ IF lease = o THEN Goes(o, r, "post") ELSE OpEnds(o)
    BY <1>4 DEF Note, Rec, Written
  <2>2. /\ r \in Record /\ r.phase = x.rec.phase /\ r.gate = x.rec.gate
        /\ r.invocations = x.rec.invocations /\ r.writeback[x.kind] = "pending"
        /\ \A j \in Writeback : j # x.kind => r.writeback[j] = x.rec.writeback[j]
    BY <1>1, WroteDown
  <2> HIDE DEF r
  <2> DEFINE y == Turns(x, r, "post")
  <2>3. y.pc = "post" /\ y.rec = r /\ y.kind = x.kind /\ y.next = x.next /\ y.posted = x.posted
    <3>1. "post" \in Stages
      BY Labels
    <3> HIDE DEF x
    <3> QED
      BY <1>1, <2>2, <3>1, TurnsFields
  <2>4. (AllDone(r) <=> AllDone(x.rec)) /\ Verdict(r) = Verdict(x.rec)
    BY <2>2, SameVerdict
  <2>5. lease = o => Holds(y, r, announced)
    <3> HIDE DEF y, x
    <3> QED
      BY <1>1, <1>2, <2>2, <2>3, <2>4 DEF Holds, Copies, Concluded, Noting
  <2>6. lease = o => Told(r, announced)
    <3>1. r.writeback["completion"] = "posted" => x.rec.writeback["completion"] = "posted"
      BY <1>1, <2>2, Labels
    <3> QED
      BY <1>2, <2>2, <2>4, <3>1, Known DEF Told
  <2> QED
    BY <1>1, <2>1, <2>2, <2>5, <2>6, Labels, SavedGoesOn
<1> QED
  BY <1>3, <1>4

(* The verdict is told: nothing else was said before.                      *)
LEMMA Announced ==
    ASSUME HostedInv, NEW o \in Slot, lease = o, op[o].pc = "post", NEW posted \in BOOLEAN,
           op' = [op EXCEPT ![o] = Has(op[o], posted)], UNCHANGED <<lease, record, agent, clear>>,
           hostedTroubles' \in 0 .. MaxHostedTroubles,
           announced' = announced \union Says(o) \/ (announced' = announced /\ ~posted)
    PROVE  HostedInv'
<1> DEFINE x == op[o]
           y == Has(x, posted)
<1>1. /\ x \in Operation /\ Holds(x, record, announced) /\ x.rec = record /\ Told(record, announced)
      /\ announced \subseteq {"ready", "blocked"} /\ x.pc = "post" /\ record' = record
  BY Known DEF Holds, Copies
<1>2. /\ y \in Operation /\ y.pc = "noted" /\ y.rec = x.rec /\ y.kind = x.kind
      /\ y.next = x.next /\ y.posted = posted
  BY <1>1, HasFields
<1>3. CASE x.kind = "completion" /\ announced' = announced \union Says(o)
  <2>1. Says(o) = {Verdict(record)} /\ AllDone(record) /\ record.phase = "merge-gate"
        /\ record.gate = Verdict(record)
    BY <1>1, <1>3 DEF Says, Rec, Holds, Concluded, Noting
  <2>2. announced' = {Verdict(record)} /\ announced' \subseteq {"ready", "blocked"}
    BY <1>1, <1>3, <2>1, VerdictTyped DEF Told
  <2>3. Told(record', announced')
    BY <2>1, <2>2 DEF Told
  <2>4. Holds(y, record', announced')
    <3> HIDE DEF y, x
    <3> QED
      BY <1>1, <1>2, <2>1, <2>2 DEF Holds, Copies, Concluded, Noting
  <2> QED
    BY <1>1, <1>2, <2>2, <2>3, <2>4, Known, HolderMoves
<1>4. CASE x.kind # "completion" \/ (announced' = announced /\ ~posted)
  <2>1. announced' = announced
    BY <1>4 DEF Says
  <2>2. Told(record', announced') /\ announced' \subseteq {"ready", "blocked"}
    BY <1>1, <2>1
  <2>3. Holds(y, record', announced')
    <3> HIDE DEF y, x
    <3> QED
      BY <1>1, <1>2, <1>4, <2>1 DEF Holds, Copies, Concluded, Noting
  <2> QED
    BY <1>1, <1>2, <2>2, <2>3, Known, HolderMoves
<1> QED
  BY <1>3, <1>4

LEMMA PostKeeps ==
    ASSUME HostedInv, NEW o \in Slot, Post(o)
    PROVE  HostedInv'
<1>1. /\ op[o].pc = "post" /\ UNCHANGED <<lease, record, agent, clear, hostedTroubles>>
      /\ hostedTroubles' \in 0 .. MaxHostedTroubles
  BY Known DEF Post, OpAt
<1>2. CASE lease # o
  <2>1. OpEnds(o) /\ UNCHANGED announced
    BY <1>2 DEF Post
  <2> QED
    BY <1>1, <1>2, <2>1, RefusedEnds
<1>3. CASE lease = o
  <2>1. op' = [op EXCEPT ![o] = Has(op[o], TRUE)] /\ announced' = announced \union Says(o)
    BY <1>3, Known DEF Post, Has
  <2> QED
    BY <1>1, <1>3, <2>1, Announced
<1> QED
  BY <1>2, <1>3

LEMMA PostFailsKeeps ==
    ASSUME HostedInv, NEW o \in Slot, PostFails(o)
    PROVE  HostedInv'
<1>1. /\ op[o].pc = "post" /\ lease = o /\ UNCHANGED <<lease, record, agent, clear>>
      /\ op[o] \in Operation /\ Holds(op[o], record, announced)
  BY Known DEF PostFails, OpAt
<1>2. hostedTroubles' \in 0 .. MaxHostedTroubles
  BY Known, HostedAssumption DEF PostFails, HostedTrouble
<1>3. op[o].posted = FALSE
  BY <1>1, OperationFields DEF Holds
<1>4. op' = [op EXCEPT ![o] = Has(op[o], FALSE)]
  BY <1>1, <1>3, Known DEF PostFails, Has, Operation
<1>5. announced' = announced \union Says(o) \/ announced' = announced
  BY DEF PostFails
<1> QED
  BY <1>1, <1>2, <1>4, <1>5, Announced

LEMMA NotedKeeps ==
    ASSUME HostedInv, NEW o \in Slot, Noted(o)
    PROVE  HostedInv'
<1> DEFINE x == op[o]
           w == IF x.posted THEN "posted" ELSE "failed"
           r == Written(x.rec, x.kind, w)
<1>1. /\ x \in Operation /\ x.rec \in Record /\ x.pc = "noted" /\ x.kind \in Writeback
      /\ x.next \in {"discover", "poll", "final", "release"} /\ x.next \in Stages
      /\ UNCHANGED <<lease, agent, clear, announced, hostedTroubles>>
  BY Known, OperationFields, Labels DEF Noted, OpAt
<1>2. lease = o => Holds(x, record, announced) /\ x.rec = record
  BY <1>1, Known DEF Holds, Copies
<1>3. SaveRecord(o, r) /\ IF lease = o THEN Goes(o, r, x.next) ELSE OpEnds(o)
  BY DEF Noted, Rec, Written
<1>4. w \in {"none", "pending", "failed", "posted"} /\ (w = "posted" <=> x.posted)
  BY <1>1, OperationFields
<1> HIDE DEF w
<1>5. /\ r \in Record /\ r.phase = x.rec.phase /\ r.gate = x.rec.gate
      /\ r.invocations = x.rec.invocations /\ r.writeback[x.kind] = w
      /\ \A j \in Writeback : j # x.kind => r.writeback[j] = x.rec.writeback[j]
  BY <1>1, <1>4, WroteDown
<1> HIDE DEF r
<1> DEFINE y == Turns(x, r, x.next)
<1>6. y.pc = x.next /\ y.rec = r
  <2> HIDE DEF x
  <2> QED
    BY <1>1, <1>5, TurnsFields
<1>7. (AllDone(r) <=> AllDone(x.rec)) /\ Verdict(r) = Verdict(x.rec)
  BY <1>5, SameVerdict
<1>8. lease = o => Holds(y, r, announced)
  <2> HIDE DEF y, x
  <2> QED
    BY <1>1, <1>2, <1>5, <1>6, <1>7 DEF Holds, Copies, Concluded, Noting
<1>9. lease = o => Told(r, announced)
  <2>1. CASE x.kind = "completion"
    <3>1. lease = o => (r.writeback["completion"] = "posted" => announced # {})
      BY <1>1, <1>2, <1>4, <1>5, <2>1 DEF Holds
    <3> QED
      BY <1>2, <1>5, <1>7, <3>1, Known DEF Told
  <2>2. CASE x.kind # "completion"
    <3>1. r.writeback["completion"] = x.rec.writeback["completion"]
      BY <1>5, <2>2, Labels
    <3> QED
      BY <1>2, <1>5, <1>7, <3>1, Known DEF Told
  <2> QED
    BY <2>1, <2>2
<1> QED
  BY <1>1, <1>3, <1>5, <1>8, <1>9, SavedGoesOn

LEMMA GateKeeps ==
    ASSUME HostedInv, NEW o \in Slot, Gate(o)
    PROVE  HostedInv'
<1> DEFINE x == op[o]
           r == [x.rec EXCEPT !.phase = "merge-gate"]
           y == Turns(x, r, "decide")
<1>1. /\ x \in Operation /\ x.rec \in Record /\ x.pc = "gate" /\ SaveRecord(o, r)
      /\ IF lease = o THEN Goes(o, r, "decide") ELSE OpEnds(o)
      /\ UNCHANGED <<lease, agent, clear, announced, hostedTroubles>>
  BY Known, OperationFields DEF Gate, OpAt, Rec
<1>2. /\ r \in Record /\ r.phase = "merge-gate" /\ r.invocations = x.rec.invocations
      /\ r.writeback = x.rec.writeback
  <2>1. "merge-gate" \in Phases
    BY DEF Phases
  <2> QED
    BY <1>1, <2>1, WithPhase
<1>3. lease = o => x.rec = record /\ AllDone(record)
  BY <1>1, Known DEF Holds, Copies
<1> HIDE DEF r
<1>4. y.pc = "decide" /\ y.rec = r
  <2>1. x \in Operation /\ "decide" \in Stages
    BY <1>1, Labels
  <2> HIDE DEF x
  <2> QED
    BY <1>2, <2>1, TurnsFields
<1>5. (AllDone(r) <=> AllDone(x.rec)) /\ Verdict(r) = Verdict(x.rec)
  BY <1>2, SameVerdict
<1>6. lease = o => Holds(y, r, announced)
  <2> HIDE DEF y, x
  <2> QED
    BY <1>2, <1>3, <1>4, <1>5 DEF Holds, Copies, Concluded, Noting
<1>7. lease = o => Told(r, announced)
  BY <1>2, <1>3, <1>5, Known DEF Told
<1> QED
  BY <1>1, <1>2, <1>6, <1>7, Labels, SavedGoesOn

LEMMA DecideKeeps ==
    ASSUME HostedInv, NEW o \in Slot, DecideVerdict(o)
    PROVE  HostedInv'
<1> DEFINE x == op[o]
           r == [x.rec EXCEPT !.gate = Verdict(x.rec)]
<1>1. /\ x \in Operation /\ x.rec \in Record /\ x.pc = "decide" /\ SaveRecord(o, r)
      /\ lease = o => Notes(o, r, "completion", "final")
      /\ lease # o => OpEnds(o)
      /\ UNCHANGED <<lease, agent, clear, announced, hostedTroubles>>
  BY Known, OperationFields DEF DecideVerdict, OpAt, Rec
<1>2. Verdict(x.rec) \in {"none", "ready", "blocked"}
  BY VerdictTyped
<1>3. /\ r \in Record /\ r.phase = x.rec.phase /\ r.gate = Verdict(x.rec)
      /\ r.invocations = x.rec.invocations /\ r.writeback = x.rec.writeback
  BY <1>1, <1>2, WithGate
<1>4. lease = o => x.rec = record /\ AllDone(record) /\ record.phase = "merge-gate"
  BY <1>1, Known DEF Holds, Copies
<1> HIDE DEF r
<1>5. (AllDone(r) <=> AllDone(x.rec)) /\ Verdict(r) = Verdict(x.rec)
  BY <1>3, SameVerdict
<1>6. lease = o => Told(r, announced) /\ AllDone(r) /\ r.phase = "merge-gate" /\ r.gate = Verdict(r)
  BY <1>3, <1>4, <1>5, Known DEF Told
<1> HIDE DEF x
<1> QED
  BY <1>1, <1>3, <1>6, Labels, SavedNotesDown

LEMMA FinalKeeps ==
    ASSUME HostedInv, NEW o \in Slot, Final(o)
    PROVE  HostedInv'
<1> DEFINE x == op[o]
           verdict == IF x.rec.gate = "ready" THEN "complete" ELSE "blocked"
           r == [x.rec EXCEPT !.phase = verdict]
           told == x.rec.writeback["completion"] = "posted"
           pc == Onward(o)
<1>1. /\ x \in Operation /\ x.rec \in Record /\ x.pc = "final"
      /\ UNCHANGED <<lease, agent, clear, announced, hostedTroubles>>
      /\ hostedTroubles' \in 0 .. MaxHostedTroubles /\ pc \in {"discover", "release"} /\ pc \in Stages
      /\ agent' \in [Inv -> {"none", "works"} \union Finished] /\ op \in [Slot -> Operation]
  BY Known, OperationFields, OnwardTyped, Labels DEF Final, OpAt
<1>2. lease = o => /\ x.rec = record /\ AllDone(record) /\ record.phase = "merge-gate"
                   /\ record.gate = Verdict(record)
  BY <1>1, Known DEF Holds, Copies, Concluded
<1>3. /\ r \in Record /\ r.phase = verdict /\ r.invocations = x.rec.invocations
      /\ r.writeback = x.rec.writeback
  <2>1. verdict \in Phases
    BY DEF Phases
  <2> HIDE DEF verdict
  <2> QED
    BY <1>1, <2>1, WithPhase
<1>4. /\ IF told THEN SaveRecord(o, r) ELSE UNCHANGED record
      /\ IF told /\ lease = o THEN Goes(o, r, pc) ELSE op' = [op EXCEPT ![o].pc = pc]
  BY DEF Final, Rec
<1> HIDE DEF r, pc
<1>5. CASE told /\ lease = o
  <2> DEFINE y == Turns(x, r, pc)
  <2>1. record' = r /\ Goes(o, r, pc) /\ record' \in Record
    BY <1>3, <1>4, <1>5 DEF SaveRecord
  <2>2. y.pc = pc /\ y.rec = r
    <3> HIDE DEF x
    <3> QED
      BY <1>1, <1>3, TurnsFields
  <2>3. (AllDone(r) <=> AllDone(record)) /\ Verdict(r) = Verdict(record)
    BY <1>2, <1>3, <1>5, SameVerdict
  <2>4. announced = {Verdict(record)} /\ Verdict(record) \in {"ready", "blocked"}
    BY <1>2, <1>5, Known, VerdictTyped DEF Told
  <2>5. Told(r, announced)
    BY <1>2, <1>3, <1>5, <2>3, <2>4 DEF Told
  <2>6. Holds(y, r, announced)
    <3> HIDE DEF y
    <3> QED
      BY <1>1, <2>2 DEF Holds, Copies, Concluded, Noting
  <2>7. /\ UNCHANGED <<lease, clear, announced>> /\ Told(record', announced)
        /\ Holds(Turns(op[o], r, pc), record', announced) /\ lease = o
    BY <1>1, <1>5, <2>1, <2>5, <2>6
  <2> HIDE DEF x
  <2> QED
    BY <1>1, <1>3, <2>1, <2>7, GoesOn
<1>6. CASE ~(told /\ lease = o)
  <2> DEFINE s == x.rec
             y == Turns(x, s, pc)
  <2>1. UNCHANGED record /\ Goes(o, s, pc)
    BY <1>1, <1>4, <1>6, PcTurns DEF SaveRecord
  <2>2. record' \in Record /\ Told(record', announced) /\ s \in Record
    BY <1>1, <2>1, Known
  <2>3. y.pc = pc /\ y.rec = s
    <3> HIDE DEF x, s
    <3> QED
      BY <1>1, <2>2, TurnsFields
  <2>4. lease = o => Holds(y, record', announced)
    <3> HIDE DEF y
    <3> QED
      BY <1>1, <1>2, <2>1, <2>3 DEF Holds, Copies, Concluded, Noting
  <2> HIDE DEF s
  <2> QED
    BY <1>1, <2>1, <2>2, <2>4, GoesOn
<1> QED
  BY <1>5, <1>6

LEMMA DiscoverKeeps ==
    ASSUME HostedInv, NEW o \in Slot, Discover(o)
    PROVE  HostedInv'
<1> DEFINE x == op[o]
           r == [record EXCEPT !.phase = "triaging"]
<1>1. /\ x \in Operation /\ x.pc = "discover" /\ record \in Record
      /\ UNCHANGED <<lease, agent, clear, announced, hostedTroubles>>
      /\ hostedTroubles' \in 0 .. MaxHostedTroubles /\ Told(record, announced)
      /\ announced' \subseteq {"ready", "blocked"}
  BY Known DEF Discover, OpAt
<1>2. /\ r \in Record /\ r.phase = "triaging" /\ r.invocations = record.invocations
      /\ r.writeback = record.writeback
  <2>1. "triaging" \in Phases
    BY DEF Phases
  <2> QED
    BY <1>1, <2>1, WithPhase
<1>3. ASSUME lease = o, record.phase = "dispatching", UNCHANGED record,
             op' = [op EXCEPT ![o].rec = record, ![o].pc = "spawn", ![o].stage = "discover"]
      PROVE  HostedInv'
  <2>1. op' = [op EXCEPT ![o] = Discovers(x, record, "spawn")]
    BY <1>3, Known DEF Discovers
  <2>2. /\ Discovers(x, record, "spawn") \in Operation
        /\ Discovers(x, record, "spawn").pc = "spawn" /\ Discovers(x, record, "spawn").rec = record
    <3>1. x \in Operation /\ "spawn" \in Stages
      BY <1>1, Labels
    <3> HIDE DEF x
    <3> QED
      BY <1>1, <3>1, DiscoversFields
  <2>3. Holds(Discovers(x, record, "spawn"), record', announced') /\ Told(record', announced')
    BY <1>1, <1>3, <2>2 DEF Holds, Copies, Concluded, Noting
  <2>4. record' \in Record
    BY <1>1, <1>3
  <2> HIDE DEF x
  <2> QED
    BY <1>1, <1>3, <2>1, <2>2, <2>3, <2>4, HolderMoves
<1> HIDE DEF r
<1>4. ASSUME lease = o, record.phase \in {"none", "triaging", "awaiting-clarification"},
             record' = r,
             op' = [op EXCEPT ![o].rec = r, ![o].pc = "triage", ![o].stage = "discover"]
      PROVE  HostedInv'
  <2>1. op' = [op EXCEPT ![o] = Discovers(x, r, "triage")]
    BY <1>4, Known DEF Discovers
  <2>2. /\ Discovers(x, r, "triage") \in Operation
        /\ Discovers(x, r, "triage").pc = "triage" /\ Discovers(x, r, "triage").rec = r
    <3>1. x \in Operation /\ "triage" \in Stages
      BY <1>1, Labels
    <3> HIDE DEF x
    <3> QED
      BY <1>2, <3>1, DiscoversFields
  <2>3. Holds(Discovers(x, r, "triage"), record', announced')
    BY <1>2, <1>4, <2>2 DEF Holds, Copies, Concluded, Noting
  <2>4. record' \in Record /\ Told(record', announced')
    BY <1>1, <1>2, <1>4 DEF Told
  <2> HIDE DEF x
  <2> QED
    BY <1>1, <1>4, <2>1, <2>2, <2>3, <2>4, HolderMoves
<1>5. ASSUME OpEnds(o), UNCHANGED record
      PROVE  HostedInv'
  <2>1. lease = o => op[o].rec = record
    BY <1>1, Known DEF Holds, Copies
  <2> QED
    BY <1>1, <1>5, <2>1, OperationEnds
<1> QED
  BY <1>3, <1>4, <1>5 DEF Discover, r

LEMMA TriageKeeps ==
    ASSUME HostedInv, NEW o \in Slot, Triage(o)
    PROVE  HostedInv'
<1> DEFINE x == op[o]
           all == [i \in Inv |-> "pending"]
           asks == [x.rec EXCEPT !.phase = "awaiting-clarification"]
           plans == [x.rec EXCEPT !.phase = "dispatching", !.invocations = all]
           r == IF clear THEN plans ELSE asks
<1>1. /\ x \in Operation /\ x.rec \in Record /\ x.pc = "triage" /\ SaveRecord(o, r)
      /\ UNCHANGED <<lease, agent, clear, announced, hostedTroubles>>
      /\ hostedTroubles' \in 0 .. MaxHostedTroubles
  BY Known, OperationFields DEF Triage, OpAt, Rec
<1>2. \/ lease = o /\ clear /\ Goes(o, plans, "spawn")
      \/ lease = o /\ ~clear /\ Notes(o, asks, "clarification", "release")
      \/ lease # o /\ OpEnds(o)
  BY DEF Triage, Rec
<1>3. lease = o => x.rec = record /\ announced = {} /\ Told(record, announced)
  BY <1>1, Known DEF Holds, Copies, Told
<1>4. CASE lease # o /\ OpEnds(o)
  BY <1>1, <1>4, RefusedEnds DEF SaveRecord
<1>5. CASE lease = o /\ clear /\ Goes(o, plans, "spawn")
  <2>1. plans \in Record /\ plans.phase = "dispatching" /\ plans.writeback = x.rec.writeback
    <3>1. all \in [Inv -> Statuses]
      BY DEF Statuses
    <3> HIDE DEF all
    <3> QED
      BY <1>1, <3>1 DEF Record, Statuses
  <2>2. SaveRecord(o, plans)
    BY <1>1, <1>5
  <2> HIDE DEF plans, r
  <2>3. Turns(x, plans, "spawn").pc = "spawn" /\ Turns(x, plans, "spawn").rec = plans
    <3>1. x \in Operation /\ "spawn" \in Stages
      BY <1>1, Labels
    <3> HIDE DEF x
    <3> QED
      BY <2>1, <3>1, TurnsFields
  <2>4. Holds(Turns(x, plans, "spawn"), plans, announced)
    BY <2>1, <2>3 DEF Holds, Copies, Concluded, Noting
  <2>5. Told(plans, announced)
    BY <1>3, <1>5, <2>1 DEF Told
  <2> QED
    BY <1>1, <1>5, <2>1, <2>2, <2>4, <2>5, Labels, SavedGoesOn
<1>6. CASE lease = o /\ ~clear /\ Notes(o, asks, "clarification", "release")
  <2>1. asks \in Record /\ asks.phase = "awaiting-clarification" /\ asks.writeback = x.rec.writeback
    <3>1. "awaiting-clarification" \in Phases
      BY DEF Phases
    <3> QED
      BY <1>1, <3>1, WithPhase
  <2>2. SaveRecord(o, asks)
    BY <1>1, <1>6
  <2> HIDE DEF asks, plans, r
  <2>3. Told(asks, announced)
    BY <1>3, <1>6, <2>1 DEF Told
  <2> QED
    BY <1>1, <1>6, <2>1, <2>2, <2>3, Labels, SavedNotesDown
<1> QED
  BY <1>2, <1>4, <1>5, <1>6

LEMMA TriageFailsKeeps ==
    ASSUME HostedInv, NEW o \in Slot, TriageFails(o)
    PROVE  HostedInv'
<1>1. op[o].pc = "triage" /\ OpEnds(o) /\ UNCHANGED <<lease, record, agent, clear, announced>>
  BY DEF TriageFails, OpAt
<1>2. hostedTroubles' \in 0 .. MaxHostedTroubles
  BY Known, HostedAssumption DEF TriageFails, HostedTrouble
<1>3. lease = o => op[o].rec = record
  BY <1>1, Known DEF Holds, Copies
<1> QED
  BY <1>1, <1>2, <1>3, OperationEnds

-----------------------------------------------------------------------------
(* Operations begin, end, and stall *)

LEMMA Idle == NoOperation \in Operation /\ NoOperation.pc = "idle"
<1>1. NewRecord \in Record
  BY NewRecordTyped
<1> HIDE DEF NewRecord
<1> QED
  BY <1>1 DEF NoOperation, Operation, Writeback

(* An operation takes the lease, which nobody holds.                       *)
LEMMA OperationBegins ==
    ASSUME HostedInv, NEW o \in Slot, NEW x \in Operation, lease' = o,
           op' = [op EXCEPT ![o] = x],
           UNCHANGED <<record, agent, clear, announced, hostedTroubles>>,
           Holds(x, record, announced)
    PROVE  HostedInv'
<1>1. HostedTypes'
  BY DEF HostedInv, HostedTypes
<1>2. op'[o] = x
  BY Known
<1>3. Told(record', announced')
  BY Known
<1>4. ASSUME NEW h \in Slot, lease' = h
      PROVE  Holds(op'[h], record', announced')
  BY <1>2, <1>4
<1> QED
  BY <1>1, <1>3, <1>4 DEF HostedInv, Told, Holds, Copies, Concluded, AllDone, Verdict

LEMMA BeginSweepKeeps ==
    ASSUME HostedInv, NEW o \in Slot, BeginSweep(o)
    PROVE  HostedInv'
<1> DEFINE x == [NoOperation EXCEPT !.pc = "reconcile", !.stage = "reconcile", !.rec = record]
<1>1. x \in Operation /\ x.pc = "reconcile" /\ x.rec = record
  BY Known, Idle DEF Operation
<1>2. /\ lease' = o /\ op' = [op EXCEPT ![o] = x]
      /\ UNCHANGED <<record, agent, clear, announced, hostedTroubles>>
  BY DEF BeginSweep
<1> HIDE DEF x
<1>3. Holds(x, record, announced)
  BY <1>1 DEF Holds, Copies, Concluded, Noting
<1> QED
  BY <1>1, <1>2, <1>3, OperationBegins

LEMMA BeginCompletionKeeps ==
    ASSUME HostedInv, NEW o \in Slot, NEW i \in Inv, NEW status \in Finished \union {"dispatched"},
           BeginCompletion(o, i, status)
    PROVE  HostedInv'
<1> DEFINE r == Applied(record, i, status)
           x == [NoOperation EXCEPT !.pc = "report", !.rec = r]
<1>1. /\ r \in Record /\ r.phase = record.phase /\ r.gate = record.gate
      /\ r.writeback = record.writeback
      /\ AllDone(record) => r.invocations = record.invocations
  <2>1. status \in Statuses /\ record \in Record
    BY Known DEF Statuses, Finished
  <2>2. CASE record.invocations[i] \in Finished
    BY <2>1, <2>2 DEF Applied
  <2>3. CASE record.invocations[i] \notin Finished
    <3>1. ~AllDone(record)
      BY <2>3 DEF AllDone
    <3> QED
      BY <2>1, <2>3, <3>1, WithStatus DEF Applied
  <2> QED
    BY <2>2, <2>3
<1> HIDE DEF r
<1>2. x \in Operation /\ x.pc = "report" /\ x.rec = r
  BY <1>1, Idle DEF Operation
<1>3. /\ lease' = o /\ op' = [op EXCEPT ![o] = x]
      /\ UNCHANGED <<record, agent, clear, announced, hostedTroubles>>
  BY DEF BeginCompletion, r
<1> HIDE DEF x
<1>4. Holds(x, record, announced)
  BY <1>1, <1>2 DEF Holds, Copies, Concluded, Noting
<1> QED
  BY <1>2, <1>3, <1>4, OperationBegins

(* The lease goes to nobody, or stays with another.                        *)
LEMMA LeaseLeft ==
    ASSUME HostedInv, NEW o \in Slot, lease' \in {lease, "none", "gone"}, lease' # o,
           op' = [op EXCEPT ![o] = NoOperation], UNCHANGED <<record, agent, clear, announced>>,
           hostedTroubles' \in 0 .. MaxHostedTroubles
    PROVE  HostedInv'
<1>1. HostedTypes'
  BY Idle DEF HostedInv, HostedTypes
<1>2. Told(record', announced')
  BY Known
<1>3. ASSUME NEW h \in Slot, lease' = h
      PROVE  Holds(op'[h], record', announced')
  <2>1. h # o /\ lease = h
    BY <1>3, HostedAssumption
  <2>2. op'[h] = op[h]
    BY <2>1, Known
  <2> QED
    BY <2>1, <2>2, Known
<1> QED
  BY <1>1, <1>2, <1>3 DEF HostedInv, Told, Holds, Copies, Concluded, AllDone, Verdict

LEMMA Loses ==
    ASSUME HostedInv, lease' = "none", UNCHANGED <<record, op, agent, clear, announced>>,
           hostedTroubles' \in 0 .. MaxHostedTroubles
    PROVE  HostedInv'
<1>1. HostedTypes'
  BY DEF HostedInv, HostedTypes
<1>2. Told(record', announced')
  BY Known
<1>3. \A h \in Slot : lease' # h
  BY HostedAssumption
<1> QED
  BY <1>1, <1>2, <1>3 DEF HostedInv, Told, AllDone, Verdict

LEMMA OthersKeep ==
    ASSUME HostedInv, UNCHANGED <<lease, record, op, announced, hostedTroubles>>,
           clear' \in BOOLEAN, agent' \in [Inv -> {"none", "works"} \union Finished]
    PROVE  HostedInv'
BY DEF HostedInv, HostedTypes, Told, Holds, Copies, Concluded, AllDone, Verdict

LEMMA HostedInvInductive == HostedInv /\ [HostedNext]_hostedVars => HostedInv'
<1> SUFFICES ASSUME HostedInv, [HostedNext]_hostedVars
             PROVE  HostedInv'
  OBVIOUS
<1>1. ASSUME NEW o \in Slot, Step(o)
      PROVE  HostedInv'
  <2>1. ASSUME NEW i \in Inv, Spawn(o, i)
        PROVE  HostedInv'
    BY <2>1, SpawnKeeps
  <2>2. CASE ReleaseLease(o)
    <3>1. lease' \in {lease, "none", "gone"} /\ lease' # o
      BY <2>2, HostedAssumption DEF ReleaseLease
    <3> QED
      BY <2>2, <3>1, Known, LeaseLeft DEF ReleaseLease
  <2> QED
    BY <1>1, <2>1, <2>2, ReportKeeps, ReconcileKeeps, PollKeeps, SpawnSavedKeeps, StartedKeeps,
       NoteKeeps, PostKeeps, NotedKeeps, GateKeeps, DecideKeeps, FinalKeeps, DiscoverKeeps,
       TriageKeeps DEF Step
<1>2. ASSUME NEW o \in Slot, Dies(o)
      PROVE  HostedInv'
  <2>1. lease' \in {lease, "none", "gone"} /\ lease' # o
    BY <1>2, HostedAssumption DEF Dies
  <2>2. hostedTroubles' \in 0 .. MaxHostedTroubles
    BY <1>2, Known, HostedAssumption DEF Dies, HostedTrouble
  <2> QED
    BY <1>2, <2>1, <2>2, LeaseLeft DEF Dies
<1>3. ASSUME NEW o \in Slot, Stalls(o)
      PROVE  HostedInv'
  <2>1. hostedTroubles' \in 0 .. MaxHostedTroubles
    BY <1>3, Known, HostedAssumption DEF Stalls, HostedTrouble
  <2> QED
    BY <1>3, <2>1, Loses DEF Stalls
<1>4. CASE Expires
  BY <1>4, Known, Loses DEF Expires
<1>5. CASE Clarifies
  BY <1>5, Known, OthersKeep DEF Clarifies
<1>6. ASSUME NEW i \in Inv, AgentEnds(i)
      PROVE  HostedInv'
  <2>1. /\ agent' \in [Inv -> {"none", "works"} \union Finished]
        /\ UNCHANGED <<lease, record, op, clear, announced, hostedTroubles>>
    BY <1>6, Known DEF AgentEnds
  <2>2. clear' \in BOOLEAN
    BY <2>1 DEF HostedInv, HostedTypes
  <2> QED
    BY <2>1, <2>2, OthersKeep
<1>7. ASSUME NEW o \in Slot, NEW i \in Inv, SpawnFails(o, i)
      PROVE  HostedInv'
  BY <1>7, SpawnFailsKeeps
<1>8. ASSUME NEW o \in Slot, NEW i \in Inv, NEW status \in Finished \union {"dispatched"},
             BeginCompletion(o, i, status)
      PROVE  HostedInv'
  BY <1>8, BeginCompletionKeeps
<1>9. CASE UNCHANGED hostedVars
  <2>1. UNCHANGED <<lease, record, op, announced, hostedTroubles>> /\ UNCHANGED <<agent, clear>>
    BY <1>9 DEF hostedVars
  <2> QED
    BY <2>1, OthersKeep DEF HostedInv, HostedTypes
<1> QED
  BY <1>1, <1>2, <1>3, <1>4, <1>5, <1>6, <1>7, <1>8, <1>9, BeginSweepKeeps, PostFailsKeeps,
     TriageFailsKeeps DEF HostedNext

LEMMA HostedInvInit == HostedInit => HostedInv
<1> SUFFICES ASSUME HostedInit
             PROVE  HostedInv
  OBVIOUS
<1>1. /\ lease = "none" /\ record = NewRecord /\ op = [o \in Slot |-> NoOperation]
      /\ agent = [i \in Inv |-> "none"] /\ clear = FALSE /\ announced = {}
      /\ hostedTroubles = 0
  BY DEF HostedInit
<1>2. HostedTypes
  <2>1. record \in Record /\ op \in [Slot -> Operation]
    BY <1>1, Idle, NewRecordTyped
  <2>2. agent \in [Inv -> {"none", "works"} \union Finished]
    BY <1>1
  <2>3. hostedTroubles \in 0 .. MaxHostedTroubles
    BY <1>1, HostedAssumption
  <2> QED
    BY <1>1, <2>1, <2>2, <2>3 DEF HostedTypes
<1>3. Told(record, announced)
  BY <1>1, Labels DEF Told, NewRecord
<1>4. \A o \in Slot : lease # o
  BY <1>1, HostedAssumption
<1> QED
  BY <1>2, <1>3, <1>4 DEF HostedInv

(* Type correctness of the hosted orchestrator.                            *)
THEOREM HostedTyped == HostedSpec => []HostedTypes
<1>1. HostedInv => HostedTypes
  BY DEF HostedInv
<1> QED
  BY <1>1, HostedInvInit, HostedInvInductive, PTL DEF HostedSpec

(* A verdict is stored as the end of an issue only after that very verdict *)
(* was announced (orchestrator.ts, the completion writeback): through any  *)
(* number of stalls, deaths, lost leases and failed calls, for any number  *)
(* of operations and invocations.                                          *)
THEOREM VerdictsTold == HostedSpec => []VerdictAnnounced
<1>1. HostedInv => VerdictAnnounced
  BY DEF HostedInv, Told, VerdictAnnounced
<1> QED
  BY <1>1, HostedInvInit, HostedInvInductive, PTL DEF HostedSpec

=============================================================================
