--------------------------- MODULE ProviderProofs ---------------------------
(***************************************************************************)
(* Proofs about the factory's dealings with the services around it: the    *)
(* pages that it takes in from Notion, the issues that it closes for what  *)
(* GitHub merged, and the events that it sends to the Cloud.               *)
(***************************************************************************)
EXTENDS NotionIntake, MergeClosure, CloudEvents, FiniteSetTheorems, TLAPS

-----------------------------------------------------------------------------
(***************************************************************************)
(* Proofs about NotionIntake.  A claim is a token: the host that created   *)
(* its channel bears it until it has used it or given up, and nobody ever  *)
(* bears it again.  What the page's own claim says, once it is sent, is    *)
(* the digest of every host that got past it.                              *)
(***************************************************************************)

(* The claims that a run of intake bears. *)
Role(x) ==
    IF x.at = "unitSend" THEN {"unit"}
    ELSE IF x.at \in {"claimSend", "effect"} /\ x.how # "found" THEN {x.dest}
    ELSE IF x.at \in {"migrateSend", "refresh"} THEN {"migration"} ELSE {}
Bearers(r, k) == {h \in Host : k \in Role(r[h])}

(* What a claim has been used for. *)
Uses(k, ch, f, w) ==
    IF k = "unit" THEN (IF ch["unit"].digest = 0 THEN 0 ELSE 1)
    ELSE IF k = "repo" THEN f.count ELSE IF k = "workspace" THEN w.spawns ELSE w.refreshes

(* A token: nobody bears it before it is made, one at most after that, none *)
(* once it is used.                                                         *)
Token(bearers, made, uses) ==
    /\ ~made => bearers = {} /\ uses = 0
    /\ \A g, h \in bearers : g = h
    /\ bearers # {} => uses = 0
    /\ uses \in {0, 1}
Tokens(r, ch, f, w) ==
    \A k \in Key : Token(Bearers(r, k), ch[k].made, Uses(k, ch, f, w))

(* Past the page's own claim a run has the digest of that claim. *)
Past == {"claim", "claimSend", "claimed", "adopt", "migrate", "migrateSend", "effect",
         "refresh", "save"}
Fits(x, ch) ==
    /\ x.at # "idle" => x.digest # 0
    /\ x.at \in Past => x.digest = ch["unit"].digest
    /\ x.how = "found" \/ x.at = "find" => x.dest = "repo"
    /\ x.at = "unitSend" => x.writes # 0 /\ (ch["repo"].digest # 0 => x.writes = ch["repo"].digest)
Agree(r, ch) == \A h \in Host : Fits(r[h], ch)

(* What was delivered has the digest of the page's claim, or of the legacy *)
(* claim that the page's claim will take over.                             *)
Authority(ch, f, w) ==
    /\ f.digest # 0 =>
         f.digest = IF ch["unit"].digest # 0 THEN ch["unit"].digest ELSE ch["repo"].digest
    /\ w.digest # 0 => w.digest = ch["unit"].digest
    /\ ch["unit"].digest = 0 => ch["workspace"].digest = 0

IntakeInv ==
    /\ IntakeTypes
    /\ Tokens(run, channel, filed, worker)
    /\ Agree(run, channel)
    /\ Authority(channel, filed, worker)

(* What every step leaves well typed but for the claims, the deliveries and *)
(* the runs.                                                                *)
Surroundings ==
    /\ page \in Digest /\ portable \subseteq Host /\ mount \in [Host -> Digest]
    /\ receipts \in [Host -> [Dest -> Receipt]] /\ troubles \in 0..MaxTroubles
Channels == [Key -> [made : BOOLEAN, digest : 0..MaxDigest]]
Issues == [count : Nat, digest : 0..MaxDigest, portable : BOOLEAN, found : BOOLEAN]
Workers == [spawns : Nat, refreshes : Nat, digest : 0..MaxDigest, up : BOOLEAN]
LEMMA TypesParts ==
    IntakeTypes <=> /\ Surroundings /\ channel \in Channels /\ filed \in Issues
                    /\ worker \in Workers /\ run \in [Host -> Runs]
BY DEF IntakeTypes, Surroundings, Channels, Issues, Workers

-----------------------------------------------------------------------------
(* Tokens *)

LEMMA ClaimKept ==
    ASSUME run \in [Host -> Runs], NEW h \in Host, NEW x \in Runs,
           run' = [run EXCEPT ![h] = x], NEW k, k \in Role(x) => k \in Role(run[h]),
           NEW made, NEW uses, Token(Bearers(run, k), made, uses)
    PROVE  Token(Bearers(run', k), made, uses)
<1>1. ASSUME NEW g \in Host, k \in Role(run'[g])
      PROVE  k \in Role(run[g])
  BY <1>1
<1>2. Bearers(run', k) \subseteq Bearers(run, k)
  BY <1>1 DEF Bearers
<1> QED BY <1>2 DEF Token

LEMMA ClaimMade ==
    ASSUME run \in [Host -> Runs], NEW h \in Host, NEW x \in Runs,
           run' = [run EXCEPT ![h] = x], NEW k,
           NEW uses, Token(Bearers(run, k), FALSE, uses)
    PROVE  Token(Bearers(run', k), TRUE, uses)
<1>1. ASSUME NEW g \in Host, k \in Role(run'[g])
      PROVE  g = h
  <2>1. k \notin Role(run[g])
    BY DEF Token, Bearers
  <2> QED BY <1>1, <2>1
<1>2. Bearers(run', k) \subseteq {h}
  BY <1>1 DEF Bearers
<1> QED BY <1>2 DEF Token

LEMMA ClaimUsed ==
    ASSUME run \in [Host -> Runs], NEW h \in Host, NEW x \in Runs,
           run' = [run EXCEPT ![h] = x], NEW k, k \in Role(run[h]), k \notin Role(x),
           NEW made \in BOOLEAN, NEW uses, Token(Bearers(run, k), made, uses)
    PROVE  uses = 0 /\ Token(Bearers(run', k), made, 1)
<1>1. h \in Bearers(run, k)
  BY DEF Bearers
<1>2. uses = 0 /\ made
  BY <1>1 DEF Token
<1>3. ASSUME NEW g \in Host
      PROVE  k \notin Role(run'[g])
  <2>1. CASE g = h
    BY <2>1
  <2>2. CASE g # h
    <3>1. g \notin Bearers(run, k)
      BY <1>1, <2>2 DEF Token
    <3> QED BY <2>2, <3>1 DEF Bearers
  <2> QED BY <2>1, <2>2
<1>4. Bearers(run', k) = {}
  BY <1>3 DEF Bearers
<1> QED BY <1>2, <1>4 DEF Token

LEMMA AgreeMove ==
    ASSUME NEW h \in Host, NEW x \in Runs, run \in [Host -> Runs],
           run' = [run EXCEPT ![h] = x], NEW ch,
           \A g \in Host : g # h => Fits(run[g], ch), Fits(x, ch)
    PROVE  Agree(run', ch)
BY DEF Agree

-----------------------------------------------------------------------------
(* The moves of a run *)

LEMMA RunFields ==
    ASSUME NEW x \in Runs
    PROVE  /\ x.at \in {"idle", "check", "find", "unit", "unitSend", "claim", "claimSend",
                        "claimed", "adopt", "migrate", "migrateSend", "effect", "refresh", "save"}
           /\ x.dest \in Dest /\ x.digest \in 0..MaxDigest
           /\ x.how \in {"fresh", "found", "receipt"} /\ x.writes \in 0..MaxDigest
           /\ x.receipt \in Receipt
BY DEF Runs

LEMMA RestingIsRun == Resting \in Runs
BY IntakeAssumption DEF Resting, Runs, Dest, Receipt, NoReceipt

LEMMA SkipMoves ==
    ASSUME NEW h \in Host, run \in [Host -> Runs], Skip(h)
    PROVE  \E x \in Runs : /\ run' = [run EXCEPT ![h] = x]
                           /\ x.at \in {"idle", "check"} /\ x.how = "fresh"
                           /\ x.at # "idle" => x.digest = run[h].digest
<1>1. run[h] \in Runs
  OBVIOUS
<1> DEFINE next == [Resting EXCEPT !.at = "check", !.dest = "workspace", !.digest = run[h].digest]
<1>2. next \in Runs /\ next.at = "check" /\ next.how = "fresh" /\ next.digest = run[h].digest
  BY <1>1, RestingIsRun, RunFields DEF Runs, Dest, Resting
<1>3. Resting.at = "idle" /\ Resting.how = "fresh"
  BY DEF Resting
<1>4. run' = [run EXCEPT ![h] = next] \/ run' = [run EXCEPT ![h] = Resting]
  BY DEF Skip
<1> QED BY <1>2, <1>3, <1>4, RestingIsRun

LEMMA MovesTo ==
    ASSUME NEW h \in Host, run \in [Host -> Runs], NEW s, Advances(h, s),
           s \in {"find", "unit", "claim", "claimSend", "claimed", "adopt", "migrate",
                  "migrateSend", "effect", "refresh"}
    PROVE  \E x \in Runs : /\ run' = [run EXCEPT ![h] = x]
                           /\ x.at = s /\ x.how = run[h].how /\ x.dest = run[h].dest
                           /\ x.digest = run[h].digest /\ x.writes = run[h].writes
<1> DEFINE x == [run[h] EXCEPT !.at = s]
<1>1. run[h] \in Runs
  OBVIOUS
<1>2. x \in Runs /\ x.at = s /\ x.how = run[h].how /\ x.dest = run[h].dest
      /\ x.digest = run[h].digest /\ x.writes = run[h].writes
  BY <1>1 DEF Runs
<1>3. run' = [run EXCEPT ![h] = x]
  BY DEF Advances
<1> QED BY <1>2, <1>3

LEMMA ReceivesMoves ==
    ASSUME NEW h \in Host, run \in [Host -> Runs], NEW relayed \in BOOLEAN, Receives(h, relayed)
    PROVE  \E x \in Runs : /\ run' = [run EXCEPT ![h] = x]
                           /\ x.at = "save" /\ x.how = run[h].how /\ x.dest = run[h].dest
                           /\ x.digest = run[h].digest
<1> DEFINE x == [run[h] EXCEPT !.at = "save",
                               !.receipt = [digest |-> run[h].digest, portable |-> relayed]]
<1>1. run[h] \in Runs
  OBVIOUS
<1>2. x \in Runs /\ x.at = "save" /\ x.how = run[h].how /\ x.dest = run[h].dest
      /\ x.digest = run[h].digest
  BY <1>1 DEF Runs, Receipt
<1>3. run' = [run EXCEPT ![h] = x]
  BY DEF Receives
<1> QED BY <1>2, <1>3

(* A move of one run that takes no claim up. *)
LEMMA RunSteps ==
    ASSUME IntakeInv, Surroundings', NEW h \in Host, NEW x \in Runs,
           run' = [run EXCEPT ![h] = x], Role(x) \subseteq Role(run[h]), Fits(x, channel),
           channel' = channel, worker' \in Workers, filed' \in Issues,
           filed'.count = filed.count, filed'.digest = filed.digest,
           worker'.spawns = worker.spawns, worker'.refreshes = worker.refreshes,
           worker'.digest = worker.digest
    PROVE  IntakeInv'
<1>1. IntakeTypes /\ run \in [Host -> Runs] /\ channel \in Channels
  BY TypesParts DEF IntakeInv
<1>2. Tokens(run', channel', filed', worker')
  <2> SUFFICES ASSUME NEW k \in Key
               PROVE  Token(Bearers(run', k), channel'[k].made, Uses(k, channel', filed', worker'))
    BY DEF Tokens
  <2>1. Token(Bearers(run, k), channel[k].made, Uses(k, channel, filed, worker))
    BY DEF IntakeInv, Tokens
  <2>2. Uses(k, channel', filed', worker') = Uses(k, channel, filed, worker)
    BY DEF Uses
  <2>3. Token(Bearers(run', k), channel[k].made, Uses(k, channel, filed, worker))
    BY <1>1, <2>1, ClaimKept
  <2> QED BY <2>2, <2>3
<1>3. Agree(run', channel')
  BY <1>1, AgreeMove DEF IntakeInv, Agree
<1>4. Authority(channel', filed', worker')
  BY DEF IntakeInv, Authority
<1>5. IntakeTypes'
  <2>1. run' \in [Host -> Runs]
    BY <1>1
  <2> QED BY <1>1, <2>1, TypesParts DEF IntakeTypes, Surroundings, Channels, Issues, Workers
<1> QED BY <1>2, <1>3, <1>4, <1>5 DEF IntakeInv

(* A step that moves no run. *)
LEMMA RunsStay ==
    ASSUME IntakeInv, Surroundings', run' = run, channel' = channel,
           worker' \in Workers, filed' \in Issues,
           filed'.count = filed.count, filed'.digest = filed.digest,
           worker'.spawns = worker.spawns, worker'.refreshes = worker.refreshes,
           worker'.digest = worker.digest
    PROVE  IntakeInv'
<1>1. IntakeTypes /\ run \in [Host -> Runs] /\ channel \in Channels
  BY TypesParts DEF IntakeInv
<1>2. Tokens(run', channel', filed', worker')
  <2> SUFFICES ASSUME NEW k \in Key
               PROVE  Token(Bearers(run', k), channel'[k].made, Uses(k, channel', filed', worker'))
    BY DEF Tokens
  <2>1. Token(Bearers(run, k), channel[k].made, Uses(k, channel, filed, worker))
    BY DEF IntakeInv, Tokens
  <2>2. Uses(k, channel', filed', worker') = Uses(k, channel, filed, worker)
    BY DEF Uses
  <2> QED BY <2>1, <2>2
<1>3. Agree(run', channel') /\ Authority(channel', filed', worker')
  BY DEF IntakeInv, Authority
<1>4. IntakeTypes'
  BY <1>1 DEF IntakeTypes, Surroundings, Channels, Issues, Workers
<1> QED BY <1>2, <1>3, <1>4 DEF IntakeInv

(* A task that ends without having touched anything else. *)
LEMMA SkipSteps ==
    ASSUME IntakeInv, Surroundings', NEW h \in Host, ~At(h, "idle"), Skip(h),
           channel' = channel, filed' = filed, worker' = worker
    PROVE  IntakeInv'
<1>1. run \in [Host -> Runs] /\ filed \in Issues /\ worker \in Workers /\ Fits(run[h], channel)
  BY TypesParts DEF IntakeInv, Agree
<1>2. PICK x \in Runs : /\ run' = [run EXCEPT ![h] = x]
                        /\ x.at \in {"idle", "check"} /\ x.how = "fresh"
                        /\ x.at # "idle" => x.digest = run[h].digest
  BY <1>1, SkipMoves
<1>3. Role(x) = {}
  BY <1>2 DEF Role
<1>4. Fits(x, channel)
  BY <1>1, <1>2 DEF Fits, Past, At
<1> QED BY <1>1, <1>2, <1>3, <1>4, RunSteps

(* A move to where no claim is borne. *)
LEMMA MovesSteps ==
    ASSUME IntakeInv, Surroundings', NEW h \in Host, ~At(h, "idle"), NEW s, Advances(h, s),
           \/ s = "unit"
           \/ s = "find" /\ run[h].dest = "repo"
           \/ run[h].digest = channel["unit"].digest
                /\ \/ s \in {"claim", "claimed", "adopt", "migrate"}
                   \/ s = "effect" /\ run[h].how = "found",
           channel' = channel, filed' = filed, worker' = worker
    PROVE  IntakeInv'
<1>1. run \in [Host -> Runs] /\ filed \in Issues /\ worker \in Workers /\ Fits(run[h], channel)
  BY TypesParts DEF IntakeInv, Agree
<1>2. PICK x \in Runs : /\ run' = [run EXCEPT ![h] = x]
                        /\ x.at = s /\ x.how = run[h].how /\ x.dest = run[h].dest
                        /\ x.digest = run[h].digest /\ x.writes = run[h].writes
  BY <1>1, MovesTo
<1>3. Role(x) = {}
  BY <1>2 DEF Role
<1>4. Fits(x, channel)
  BY <1>1, <1>2 DEF Fits, Past, At
<1> QED BY <1>1, <1>2, <1>3, <1>4, RunSteps

(* A delivery is recorded by the run alone. *)
LEMMA ReceivesSteps ==
    ASSUME IntakeInv, Surroundings', NEW h \in Host, run[h].at \in Past,
           NEW relayed \in BOOLEAN, Receives(h, relayed),
           channel' = channel, worker' = worker, filed' \in Issues,
           filed'.count = filed.count, filed'.digest = filed.digest
    PROVE  IntakeInv'
<1>1. run \in [Host -> Runs] /\ worker \in Workers /\ Fits(run[h], channel)
  BY TypesParts DEF IntakeInv, Agree
<1>2. PICK x \in Runs : /\ run' = [run EXCEPT ![h] = x]
                        /\ x.at = "save" /\ x.how = run[h].how /\ x.dest = run[h].dest
                        /\ x.digest = run[h].digest
  BY <1>1, ReceivesMoves
<1>3. Role(x) = {}
  BY <1>2 DEF Role
<1>4. Fits(x, channel)
  BY <1>1, <1>2 DEF Fits, Past
<1> QED BY <1>1, <1>2, <1>3, <1>4, RunSteps

-----------------------------------------------------------------------------
(* Claims *)

(* The creation of a channel gives its claim to the run that made it. *)
LEMMA CreatesSteps ==
    ASSUME IntakeInv, Surroundings', NEW h \in Host, NEW k \in Key, ~channel[k].made,
           channel' = [channel EXCEPT ![k].made = TRUE], NEW x \in Runs,
           run' = [run EXCEPT ![h] = x], Role(x) \subseteq {k}, Fits(x, channel),
           filed' = filed, worker' = worker
    PROVE  IntakeInv'
<1>1. /\ IntakeTypes /\ run \in [Host -> Runs] /\ channel \in Channels
      /\ filed \in Issues /\ worker \in Workers
  BY TypesParts DEF IntakeInv
<1>2. /\ channel' \in Channels /\ channel'[k].made = TRUE
      /\ \A j \in Key : channel'[j].digest = channel[j].digest
      /\ \A j \in Key : j # k => channel'[j].made = channel[j].made
      /\ channel[k].made = FALSE
  BY <1>1 DEF Channels
<1>3. {"unit", "repo", "workspace"} \subseteq Key
  BY DEF Key
<1>4. Tokens(run', channel', filed', worker')
  <2> SUFFICES ASSUME NEW j \in Key
               PROVE  Token(Bearers(run', j), channel'[j].made, Uses(j, channel', filed', worker'))
    BY DEF Tokens
  <2>1. Token(Bearers(run, j), channel[j].made, Uses(j, channel, filed, worker))
    BY DEF IntakeInv, Tokens
  <2>2. Uses(j, channel', filed', worker') = Uses(j, channel, filed, worker)
    BY <1>2, <1>3 DEF Uses
  <2>3. CASE j = k
    <3>1. Token(Bearers(run', j), TRUE, Uses(j, channel, filed, worker))
      BY <1>1, <1>2, <2>1, <2>3, ClaimMade
    <3> QED BY <1>2, <2>2, <2>3, <3>1
  <2>4. CASE j # k
    <3>1. Token(Bearers(run', j), channel[j].made, Uses(j, channel, filed, worker))
      BY <1>1, <2>1, <2>4, ClaimKept
    <3> QED BY <1>2, <2>2, <2>4, <3>1
  <2> QED BY <2>3, <2>4
<1>5. Agree(run', channel')
  <2>1. \A y : Fits(y, channel) => Fits(y, channel')
    BY <1>2, <1>3 DEF Fits
  <2>2. \A g \in Host : Fits(run[g], channel')
    BY <2>1 DEF IntakeInv, Agree
  <2>3. Fits(x, channel')
    BY <2>1
  <2> QED BY <1>1, <2>2, <2>3, AgreeMove
<1>6. Authority(channel', filed', worker')
  BY <1>2, <1>3 DEF IntakeInv, Authority
<1>7. IntakeTypes'
  BY <1>1, <1>2 DEF IntakeTypes, Surroundings, Channels, Issues, Workers
<1> QED BY <1>4, <1>5, <1>6, <1>7 DEF IntakeInv

(* Past the page's claim, a record that is sent changes no authority. *)
LEMMA SendsSteps ==
    ASSUME IntakeInv, Surroundings', NEW h \in Host, NEW k \in Key, k # "unit",
           run[h].at \in Past, NEW s \in {"claimed", "effect", "refresh"},
           s = "effect" => run[h].at = "claimSend",
           s = "refresh" => run[h].at = "migrateSend",
           Sends(h, k, run[h].digest, s), filed' = filed, worker' = worker
    PROVE  IntakeInv'
<1>1. /\ IntakeTypes /\ run \in [Host -> Runs] /\ channel \in Channels
      /\ filed \in Issues /\ worker \in Workers /\ Fits(run[h], channel)
  BY TypesParts DEF IntakeInv, Agree
<1>2. run[h].digest \in 0..MaxDigest
  BY <1>1, RunFields
<1>3. channel' = [channel EXCEPT ![k].digest = run[h].digest]
  BY DEF Sends
<1>4. /\ channel' \in Channels
      /\ \A j \in Key : channel'[j].made = channel[j].made
      /\ \A j \in Key : j # k => channel'[j].digest = channel[j].digest
  BY <1>1, <1>2, <1>3 DEF Channels
<1>5. channel'["unit"].digest = channel["unit"].digest /\ channel["unit"].digest # 0
      /\ "unit" \in Key
  <2>1. "unit" \in Key
    BY DEF Key
  <2>2. run[h].digest # 0 /\ run[h].digest = channel["unit"].digest
    BY <1>1 DEF Fits, Past
  <2> QED BY <1>4, <2>1, <2>2
<1>6. \E x \in Runs : /\ run' = [run EXCEPT ![h] = x] /\ Role(x) \subseteq Role(run[h])
                      /\ Fits(x, channel) /\ x.at # "unitSend"
  <2>1. CASE Skip(h)
    <3>1. PICK x \in Runs : /\ run' = [run EXCEPT ![h] = x]
                            /\ x.at \in {"idle", "check"} /\ x.how = "fresh"
                            /\ x.at # "idle" => x.digest = run[h].digest
      BY <1>1, <2>1, SkipMoves
    <3>2. Role(x) = {} /\ Fits(x, channel)
      BY <1>1, <3>1 DEF Role, Fits, Past
    <3> QED BY <3>1, <3>2
  <2>2. CASE Advances(h, s)
    <3>1. PICK x \in Runs : /\ run' = [run EXCEPT ![h] = x]
                            /\ x.at = s /\ x.how = run[h].how /\ x.dest = run[h].dest
                            /\ x.digest = run[h].digest /\ x.writes = run[h].writes
      BY <1>1, <2>2, MovesTo
    <3>2. Role(x) \subseteq Role(run[h])
      BY <3>1 DEF Role
    <3>3. Fits(x, channel)
      BY <1>1, <3>1 DEF Fits, Past
    <3> QED BY <3>1, <3>2, <3>3
  <2> QED BY <2>1, <2>2 DEF Sends
<1>7. PICK x \in Runs : /\ run' = [run EXCEPT ![h] = x] /\ Role(x) \subseteq Role(run[h])
                        /\ Fits(x, channel) /\ x.at # "unitSend"
  BY <1>6
<1>8. Tokens(run', channel', filed', worker')
  <2> SUFFICES ASSUME NEW j \in Key
               PROVE  Token(Bearers(run', j), channel'[j].made, Uses(j, channel', filed', worker'))
    BY DEF Tokens
  <2>1. Token(Bearers(run, j), channel[j].made, Uses(j, channel, filed, worker))
    BY DEF IntakeInv, Tokens
  <2>2. Uses(j, channel', filed', worker') = Uses(j, channel, filed, worker)
    BY <1>5 DEF Uses
  <2>3. Token(Bearers(run', j), channel[j].made, Uses(j, channel, filed, worker))
    BY <1>1, <1>7, <2>1, ClaimKept
  <2> QED BY <1>4, <2>2, <2>3
<1>9. Agree(run', channel')
  <2>1. \A y : Fits(y, channel) /\ y.at # "unitSend" => Fits(y, channel')
    BY <1>5 DEF Fits
  <2>2. ASSUME NEW g \in Host
        PROVE  run[g].at # "unitSend"
    <3>1. Token(Bearers(run, "unit"), channel["unit"].made, 1)
      BY <1>5 DEF IntakeInv, Tokens, Uses
    <3>2. Bearers(run, "unit") = {}
      BY <3>1 DEF Token
    <3> QED BY <3>2 DEF Bearers, Role
  <2>3. \A g \in Host : Fits(run[g], channel')
    BY <2>1, <2>2 DEF IntakeInv, Agree
  <2>4. Fits(x, channel')
    BY <1>7, <2>1
  <2> QED BY <1>1, <1>7, <2>3, <2>4, AgreeMove
<1>10. Authority(channel', filed', worker')
  BY <1>5 DEF IntakeInv, Authority
<1>11. IntakeTypes'
  BY <1>1, <1>4, <1>7 DEF IntakeTypes, Surroundings, Channels, Issues, Workers
<1> QED BY <1>8, <1>9, <1>10, <1>11 DEF IntakeInv

LEMMA UnitClaimKeeps ==
    ASSUME IntakeInv, Surroundings', NEW h \in Host, UnitClaim(h)
    PROVE  IntakeInv'
<1> DEFINE legacy == {k \in Dest : channel[k].digest # 0}
           digests == {channel[k].digest : k \in legacy}
<1>1. /\ IntakeTypes /\ run \in [Host -> Runs] /\ channel \in Channels
      /\ Fits(run[h], channel) /\ run[h] \in Runs
  BY TypesParts DEF IntakeInv, Agree
<1>2. At(h, "unit") /\ ~At(h, "idle") /\ run[h].at = "unit" /\ filed' = filed /\ worker' = worker
  BY DEF UnitClaim, At
<1>3. CASE ReadsOwn(h, "unit") /\ Advances(h, "claim") /\ UNCHANGED channel
  BY <1>2, <1>3, MovesSteps DEF ReadsOwn
<1>4. CASE Skip(h) /\ UNCHANGED channel
  BY <1>2, <1>4, SkipSteps
<1>5. ASSUME ~channel["unit"].made, channel' = [channel EXCEPT !["unit"].made = TRUE],
             NEW d \in IF digests = {} THEN {run[h].digest} ELSE digests,
             run' = [run EXCEPT ![h].at = "unitSend", ![h].writes = d]
      PROVE  IntakeInv'
  <2> DEFINE x == [[run[h] EXCEPT !.at = "unitSend"] EXCEPT !.writes = d]
  <2>1. "unit" \in Key /\ Dest = {"repo", "workspace"} /\ Dest \subseteq Key
    BY DEF Key, Dest
  <2>2. Token(Bearers(run, "unit"), channel["unit"].made, Uses("unit", channel, filed, worker))
    BY <2>1 DEF IntakeInv, Tokens
  <2>3. channel["unit"].digest = 0
    BY <1>5, <2>2 DEF Token, Uses
  <2>4. channel["workspace"].digest = 0
    BY <2>3 DEF IntakeInv, Authority
  <2>5. run[h].digest \in 0..MaxDigest /\ run[h].digest # 0
    BY <1>1, <1>2, RunFields DEF Fits
  <2>6. d \in 0..MaxDigest /\ d # 0 /\ (channel["repo"].digest # 0 => d = channel["repo"].digest)
    <3>1. CASE channel["repo"].digest = 0
      <4>1. legacy = {}
        BY <2>1, <2>4, <3>1
      <4>2. d = run[h].digest
        BY <1>5, <4>1
      <4> QED BY <2>5, <3>1, <4>2
    <3>2. CASE channel["repo"].digest # 0
      <4>1. legacy = {"repo"}
        BY <2>1, <2>4, <3>2
      <4>2. digests = {channel["repo"].digest}
        BY <4>1
      <4>3. d = channel["repo"].digest
        BY <1>5, <4>2
      <4>4. channel["repo"].digest \in 0..MaxDigest
        BY <1>1, <2>1 DEF Channels
      <4> QED BY <3>2, <4>3, <4>4
    <3> QED BY <3>1, <3>2
  <2>7. /\ x \in Runs /\ x.at = "unitSend" /\ x.writes = d /\ x.how = run[h].how
        /\ x.dest = run[h].dest /\ x.digest = run[h].digest
    BY <1>1, <2>6 DEF Runs
  <2>8. run' = [run EXCEPT ![h] = x]
    BY <1>1, <1>5
  <2>9. Role(x) \subseteq {"unit"}
    BY <2>7 DEF Role
  <2>10. Fits(x, channel)
    BY <1>1, <1>2, <2>5, <2>6, <2>7 DEF Fits, Past
  <2> HIDE DEF x
  <2> QED BY <1>2, <1>5, <2>1, <2>7, <2>8, <2>9, <2>10, CreatesSteps
<1> QED BY <1>3, <1>4, <1>5 DEF UnitClaim

(* The page's claim is sent: nobody was past it, and it says what the      *)
(* legacy claim said, if there was one.                                    *)
LEMMA UnitSendKeeps ==
    ASSUME IntakeInv, Surroundings', NEW h \in Host, UnitSend(h)
    PROVE  IntakeInv'
<1>1. /\ IntakeTypes /\ run \in [Host -> Runs] /\ channel \in Channels
      /\ filed \in Issues /\ worker \in Workers /\ Fits(run[h], channel) /\ run[h] \in Runs
  BY TypesParts DEF IntakeInv, Agree
<1>2. /\ run[h].at = "unitSend" /\ filed' = filed /\ worker' = worker
      /\ channel' = [channel EXCEPT !["unit"].digest = run[h].writes]
  BY DEF UnitSend, At, Sends
<1>3. "unit" \in Key /\ "repo" \in Key /\ "workspace" \in Key
  BY DEF Key
<1>4. run[h].writes \in 0..MaxDigest /\ run[h].writes # 0
      /\ (channel["repo"].digest # 0 => run[h].writes = channel["repo"].digest)
  BY <1>1, <1>2, RunFields DEF Fits
<1>5. /\ channel' \in Channels /\ channel'["unit"].digest = run[h].writes
      /\ \A j \in Key : channel'[j].made = channel[j].made
      /\ \A j \in Key : j # "unit" => channel'[j].digest = channel[j].digest
  BY <1>1, <1>2, <1>3, <1>4 DEF Channels
<1>6. "unit" \in Role(run[h])
  BY <1>2 DEF Role
<1>7. Token(Bearers(run, "unit"), channel["unit"].made, Uses("unit", channel, filed, worker))
  BY <1>3 DEF IntakeInv, Tokens
<1>8. h \in Bearers(run, "unit") /\ channel["unit"].digest = 0
  <2>1. h \in Bearers(run, "unit")
    BY <1>6 DEF Bearers
  <2> QED BY <1>7, <2>1 DEF Token, Uses
<1>9. \E x \in Runs : /\ run' = [run EXCEPT ![h] = x] /\ Role(x) = {} /\ Fits(x, channel')
  <2>1. CASE Skip(h)
    <3>1. PICK x \in Runs : /\ run' = [run EXCEPT ![h] = x]
                            /\ x.at \in {"idle", "check"} /\ x.how = "fresh"
                            /\ x.at # "idle" => x.digest = run[h].digest
      BY <1>1, <2>1, SkipMoves
    <3>2. Role(x) = {} /\ Fits(x, channel')
      BY <1>1, <1>2, <3>1 DEF Role, Fits, Past
    <3> QED BY <3>1, <3>2
  <2>2. CASE Advances(h, "claim") /\ run[h].writes = run[h].digest
    <3>1. PICK x \in Runs : /\ run' = [run EXCEPT ![h] = x]
                            /\ x.at = "claim" /\ x.how = run[h].how /\ x.dest = run[h].dest
                            /\ x.digest = run[h].digest /\ x.writes = run[h].writes
      BY <1>1, <2>2, MovesTo
    <3>2. Role(x) = {}
      BY <3>1 DEF Role
    <3>3. Fits(x, channel')
      BY <1>1, <1>2, <1>4, <1>5, <2>2, <3>1 DEF Fits, Past
    <3> QED BY <3>1, <3>2, <3>3
  <2> QED BY <2>1, <2>2 DEF UnitSend, Sends
<1>10. PICK x \in Runs : run' = [run EXCEPT ![h] = x] /\ Role(x) = {} /\ Fits(x, channel')
  BY <1>9
<1>11. Tokens(run', channel', filed', worker')
  <2> SUFFICES ASSUME NEW j \in Key
               PROVE  Token(Bearers(run', j), channel'[j].made, Uses(j, channel', filed', worker'))
    BY DEF Tokens
  <2>1. Token(Bearers(run, j), channel[j].made, Uses(j, channel, filed, worker))
    BY DEF IntakeInv, Tokens
  <2>2. CASE j = "unit"
    <3>1. channel[j].made \in BOOLEAN
      BY <1>1 DEF Channels
    <3>2. Token(Bearers(run', j), channel[j].made, 1)
      BY <1>1, <1>6, <1>10, <2>1, <2>2, <3>1, ClaimUsed
    <3>3. Uses(j, channel', filed', worker') = 1
      BY <1>4, <1>5, <2>2 DEF Uses
    <3> QED BY <1>5, <3>2, <3>3
  <2>3. CASE j # "unit"
    <3>1. Uses(j, channel', filed', worker') = Uses(j, channel, filed, worker)
      BY <1>2, <2>3 DEF Uses
    <3>2. Token(Bearers(run', j), channel[j].made, Uses(j, channel, filed, worker))
      BY <1>1, <1>10, <2>1, ClaimKept
    <3> QED BY <1>5, <3>1, <3>2
  <2> QED BY <2>2, <2>3
<1>12. Agree(run', channel')
  <2>1. ASSUME NEW g \in Host, g # h
        PROVE  Fits(run[g], channel')
    <3>1. Fits(run[g], channel)
      BY DEF IntakeInv, Agree
    <3>2. run[g].at \notin Past
      BY <1>8, <3>1 DEF Fits, Past
    <3>3. run[g].at # "unitSend"
      <4>1. g \notin Bearers(run, "unit")
        BY <1>7, <1>8, <2>1 DEF Token
      <4> QED BY <4>1 DEF Bearers, Role
    <3> QED BY <3>1, <3>2, <3>3 DEF Fits
  <2> QED BY <1>1, <1>10, <2>1, AgreeMove
<1>13. Authority(channel', filed', worker')
  BY <1>2, <1>3, <1>4, <1>5, <1>8 DEF IntakeInv, Authority
<1>14. IntakeTypes'
  BY <1>1, <1>2, <1>5, <1>10 DEF IntakeTypes, Surroundings, Channels, Issues, Workers
<1> QED BY <1>11, <1>12, <1>13, <1>14 DEF IntakeInv

LEMMA DeliveryClaimKeeps ==
    ASSUME IntakeInv, Surroundings', NEW h \in Host, DeliveryClaim(h)
    PROVE  IntakeInv'
<1> DEFINE k == run[h].dest
<1>1. /\ run \in [Host -> Runs] /\ Fits(run[h], channel) /\ run[h] \in Runs
  BY TypesParts DEF IntakeInv, Agree
<1>2. /\ At(h, "claim") /\ ~At(h, "idle") /\ run[h].at = "claim"
      /\ filed' = filed /\ worker' = worker /\ run[h].digest = channel["unit"].digest
  BY <1>1 DEF DeliveryClaim, At, Fits, Past
<1>3. k \in Key
  BY <1>1, RunFields DEF Dest, Key
<1>4. CASE Creates(h, k, "claimSend")
  <2>1. PICK x \in Runs : /\ run' = [run EXCEPT ![h] = x]
                          /\ x.at = "claimSend" /\ x.how = run[h].how /\ x.dest = run[h].dest
                          /\ x.digest = run[h].digest /\ x.writes = run[h].writes
    BY <1>1, <1>4, MovesTo DEF Creates
  <2>2. Role(x) \subseteq {k}
    BY <2>1 DEF Role
  <2>3. Fits(x, channel)
    BY <1>1, <1>2, <2>1 DEF Fits, Past
  <2>4. ~channel[k].made /\ channel' = [channel EXCEPT ![k].made = TRUE]
    BY <1>4 DEF Creates
  <2> QED BY <1>2, <1>3, <2>1, <2>2, <2>3, <2>4, CreatesSteps
<1>5. CASE ReadsOwn(h, k) /\ Proceeds(h) /\ UNCHANGED channel
  <2>1. CASE run[h].how = "found"
    BY <1>2, <1>5, <2>1, MovesSteps DEF Proceeds
  <2>2. CASE Advances(h, "claimed") \/ Advances(h, "adopt")
    BY <1>2, <1>5, <2>2, MovesSteps
  <2>3. CASE Skip(h)
    BY <1>2, <1>5, <2>3, SkipSteps
  <2> QED BY <1>5, <2>1, <2>2, <2>3 DEF Proceeds
<1>6. CASE Skip(h) /\ UNCHANGED channel
  BY <1>2, <1>6, SkipSteps
<1> QED BY <1>4, <1>5, <1>6 DEF DeliveryClaim

LEMMA DeliverySendKeeps ==
    ASSUME IntakeInv, Surroundings', NEW h \in Host, DeliverySend(h)
    PROVE  IntakeInv'
<1>1. run[h] \in Runs
  BY TypesParts DEF IntakeInv
<1>2. run[h].at = "claimSend" /\ run[h].at \in Past /\ filed' = filed /\ worker' = worker
  BY DEF DeliverySend, At, Past
<1>3. run[h].dest \in Key /\ run[h].dest # "unit"
  BY <1>1, RunFields DEF Dest, Key
<1>4. Sends(h, run[h].dest, run[h].digest, "claimed")
        \/ Sends(h, run[h].dest, run[h].digest, "effect")
  BY DEF DeliverySend
<1> QED BY <1>2, <1>3, <1>4, SendsSteps

LEMMA MigrationClaimKeeps ==
    ASSUME IntakeInv, Surroundings', NEW h \in Host, MigrationClaim(h)
    PROVE  IntakeInv'
<1>1. run \in [Host -> Runs] /\ Fits(run[h], channel)
  BY TypesParts DEF IntakeInv, Agree
<1>2. ~At(h, "idle") /\ run[h].at = "migrate" /\ filed' = filed /\ worker' = worker
      /\ "migration" \in Key
  BY DEF MigrationClaim, At, Key
<1>3. CASE Creates(h, "migration", "migrateSend")
  <2>1. PICK x \in Runs : /\ run' = [run EXCEPT ![h] = x]
                          /\ x.at = "migrateSend" /\ x.how = run[h].how /\ x.dest = run[h].dest
                          /\ x.digest = run[h].digest /\ x.writes = run[h].writes
    BY <1>1, <1>3, MovesTo DEF Creates
  <2>2. Role(x) \subseteq {"migration"}
    BY <2>1 DEF Role
  <2>3. Fits(x, channel)
    BY <1>1, <1>2, <2>1 DEF Fits, Past
  <2>4. ~channel["migration"].made /\ channel' = [channel EXCEPT !["migration"].made = TRUE]
    BY <1>3 DEF Creates
  <2> QED BY <1>2, <2>1, <2>2, <2>3, <2>4, CreatesSteps
<1>4. CASE Skip(h) /\ UNCHANGED channel
  BY <1>2, <1>4, SkipSteps
<1> QED BY <1>3, <1>4 DEF MigrationClaim

LEMMA MigrationSendKeeps ==
    ASSUME IntakeInv, Surroundings', NEW h \in Host, MigrationSend(h)
    PROVE  IntakeInv'
<1>1. run[h].at = "migrateSend" /\ run[h].at \in Past /\ filed' = filed /\ worker' = worker
      /\ "migration" \in Key /\ Sends(h, "migration", run[h].digest, "refresh")
  BY DEF MigrationSend, At, Past, Key
<1> QED BY <1>1, SendsSteps

-----------------------------------------------------------------------------
(* Effects *)

(* The bearer of a claim uses it, and bears it no longer. *)
LEMMA EffectSteps ==
    ASSUME IntakeInv, Surroundings', NEW h \in Host, NEW k \in Key, k # "unit",
           k \in Role(run[h]), run[h].at \in Past,
           NEW relayed \in BOOLEAN, Effect(h, relayed), channel' = channel,
           filed' \in Issues, worker' \in Workers,
           Uses(k, channel, filed', worker') = Uses(k, channel, filed, worker) + 1,
           \A j \in Key : j # k => Uses(j, channel, filed', worker') = Uses(j, channel, filed, worker),
           Authority(channel, filed', worker')
    PROVE  IntakeInv'
<1>1. /\ IntakeTypes /\ run \in [Host -> Runs] /\ channel \in Channels
      /\ Fits(run[h], channel) /\ run[h] \in Runs
  BY TypesParts DEF IntakeInv, Agree
<1>2. \E x \in Runs : /\ run' = [run EXCEPT ![h] = x] /\ Role(x) = {} /\ Fits(x, channel)
  <2>1. CASE Skip(h)
    <3>1. PICK x \in Runs : /\ run' = [run EXCEPT ![h] = x]
                            /\ x.at \in {"idle", "check"} /\ x.how = "fresh"
                            /\ x.at # "idle" => x.digest = run[h].digest
      BY <1>1, <2>1, SkipMoves
    <3>2. Role(x) = {} /\ Fits(x, channel)
      BY <1>1, <3>1 DEF Role, Fits, Past
    <3> QED BY <3>1, <3>2
  <2>2. CASE Receives(h, relayed)
    <3>1. PICK x \in Runs : /\ run' = [run EXCEPT ![h] = x]
                            /\ x.at = "save" /\ x.how = run[h].how /\ x.dest = run[h].dest
                            /\ x.digest = run[h].digest
      BY <1>1, <2>2, ReceivesMoves
    <3>2. Role(x) = {} /\ Fits(x, channel)
      BY <1>1, <3>1 DEF Role, Fits, Past
    <3> QED BY <3>1, <3>2
  <2> QED BY <2>1, <2>2 DEF Effect
<1>3. PICK x \in Runs : run' = [run EXCEPT ![h] = x] /\ Role(x) = {} /\ Fits(x, channel)
  BY <1>2
<1>4. Tokens(run', channel', filed', worker')
  <2> SUFFICES ASSUME NEW j \in Key
               PROVE  Token(Bearers(run', j), channel[j].made, Uses(j, channel, filed', worker'))
    BY DEF Tokens
  <2>1. Token(Bearers(run, j), channel[j].made, Uses(j, channel, filed, worker))
    BY DEF IntakeInv, Tokens
  <2>2. CASE j = k
    <3>1. channel[j].made \in BOOLEAN
      BY <1>1 DEF Channels
    <3>2. /\ Uses(j, channel, filed, worker) = 0
          /\ Token(Bearers(run', j), channel[j].made, 1)
      BY <1>1, <1>3, <2>1, <2>2, <3>1, ClaimUsed
    <3> QED BY <2>2, <3>2
  <2>3. CASE j # k
    <3>1. Token(Bearers(run', j), channel[j].made, Uses(j, channel, filed, worker))
      BY <1>1, <1>3, <2>1, ClaimKept
    <3> QED BY <2>3, <3>1
  <2> QED BY <2>2, <2>3
<1>5. Agree(run', channel')
  BY <1>1, <1>3, AgreeMove DEF IntakeInv, Agree
<1>6. IntakeTypes'
  BY <1>1, <1>3 DEF IntakeTypes, Surroundings, Channels, Issues, Workers
<1> QED BY <1>4, <1>5, <1>6 DEF IntakeInv

LEMMA CreateIssueKeeps ==
    ASSUME IntakeInv, Surroundings', NEW h \in Host, CreateIssue(h)
    PROVE  IntakeInv'
<1>1. /\ filed \in Issues /\ worker \in Workers /\ Fits(run[h], channel) /\ run[h] \in Runs
  BY TypesParts DEF IntakeInv, Agree
<1>2. /\ run[h].at = "effect" /\ run[h].at \in Past /\ run[h].dest = "repo"
      /\ run[h].how = "fresh" /\ channel' = channel /\ worker' = worker
      /\ Effect(h, h \in portable)
  BY DEF CreateIssue, At, Past
<1>3. /\ run[h].digest \in 0..MaxDigest /\ run[h].digest # 0
      /\ run[h].digest = channel["unit"].digest
  BY <1>1, <1>2, RunFields DEF Fits
<1>4. /\ filed' \in Issues /\ filed'.count = filed.count + 1 /\ filed'.digest = run[h].digest
  <2>1. filed' = [filed EXCEPT !.count = @ + 1, !.digest = run[h].digest,
                               !.portable = h \in portable]
    BY DEF CreateIssue
  <2>2. filed.count + 1 \in Nat /\ (h \in portable) \in BOOLEAN
    BY <1>1 DEF Issues
  <2>3. PICK c \in Nat, b \in BOOLEAN, d \in 0..MaxDigest :
          c = filed.count + 1 /\ b = (h \in portable) /\ d = run[h].digest
    BY <1>3, <2>2
  <2>4. filed' = [filed EXCEPT !.count = c, !.digest = d, !.portable = b]
    BY <2>1, <2>3
  <2>5. filed' \in Issues /\ filed'.count = c /\ filed'.digest = d
    BY <1>1, <2>4 DEF Issues
  <2> QED BY <2>3, <2>5
<1>5. "repo" \in Key /\ "repo" \in Role(run[h]) /\ (h \in portable) \in BOOLEAN
  BY <1>2 DEF Key, Role
<1>6. Uses("repo", channel, filed', worker') = Uses("repo", channel, filed, worker) + 1
  BY <1>4 DEF Uses
<1>7. \A j \in Key : j # "repo" =>
        Uses(j, channel, filed', worker') = Uses(j, channel, filed, worker)
  BY <1>2 DEF Uses
<1>8. Authority(channel, filed', worker')
  BY <1>2, <1>3, <1>4 DEF IntakeInv, Authority
<1> QED BY <1>1, <1>2, <1>4, <1>5, <1>6, <1>7, <1>8, EffectSteps

LEMMA DispatchWorkerKeeps ==
    ASSUME IntakeInv, Surroundings', NEW h \in Host, DispatchWorker(h)
    PROVE  IntakeInv'
<1>1. /\ filed \in Issues /\ worker \in Workers /\ Fits(run[h], channel) /\ run[h] \in Runs
  BY TypesParts DEF IntakeInv, Agree
<1>2. /\ run[h].at = "effect" /\ run[h].at \in Past /\ run[h].dest = "workspace"
      /\ channel' = channel /\ filed' = filed /\ Effect(h, h \in portable)
  BY DEF DispatchWorker, At, Past
<1>3. /\ run[h].digest \in 0..MaxDigest /\ run[h].digest = channel["unit"].digest
      /\ run[h].how # "found"
  BY <1>1, <1>2, RunFields DEF Fits
<1>4. /\ worker' \in Workers /\ worker'.spawns = worker.spawns + 1
      /\ worker'.refreshes = worker.refreshes /\ worker'.digest = run[h].digest
  <2>1. worker' = [worker EXCEPT !.spawns = @ + 1, !.digest = run[h].digest, !.up = TRUE]
    BY DEF DispatchWorker
  <2>2. PICK c \in Nat, d \in 0..MaxDigest : c = worker.spawns + 1 /\ d = run[h].digest
    BY <1>1, <1>3 DEF Workers
  <2>3. worker' = [worker EXCEPT !.spawns = c, !.digest = d, !.up = TRUE]
    BY <2>1, <2>2
  <2>4. /\ worker' \in Workers /\ worker'.spawns = c /\ worker'.refreshes = worker.refreshes
        /\ worker'.digest = d
    BY <1>1, <2>3 DEF Workers
  <2> QED BY <2>2, <2>4
<1>5. "workspace" \in Key /\ "workspace" \in Role(run[h]) /\ (h \in portable) \in BOOLEAN
  BY <1>2, <1>3 DEF Key, Role
<1>6. Uses("workspace", channel, filed', worker') = Uses("workspace", channel, filed, worker) + 1
  BY <1>4 DEF Uses
<1>7. \A j \in Key : j # "workspace" =>
        Uses(j, channel, filed', worker') = Uses(j, channel, filed, worker)
  BY <1>2, <1>4 DEF Uses
<1>8. Authority(channel, filed', worker')
  BY <1>2, <1>3, <1>4 DEF IntakeInv, Authority
<1> QED BY <1>1, <1>2, <1>4, <1>5, <1>6, <1>7, <1>8, EffectSteps

LEMMA RefreshKeeps ==
    ASSUME IntakeInv, Surroundings', NEW h \in Host, Refresh(h)
    PROVE  IntakeInv'
<1>1. filed \in Issues /\ worker \in Workers
  BY TypesParts DEF IntakeInv
<1>2. /\ run[h].at = "refresh" /\ run[h].at \in Past
      /\ channel' = channel /\ filed' = filed /\ Effect(h, TRUE)
  BY DEF Refresh, At, Past
<1>3. /\ worker' \in Workers /\ worker'.refreshes = worker.refreshes + 1
      /\ worker'.spawns = worker.spawns /\ worker'.digest = worker.digest
  <2>1. worker' = [worker EXCEPT !.refreshes = @ + 1]
    BY DEF Refresh
  <2> QED BY <1>1, <2>1 DEF Workers
<1>4. "migration" \in Key /\ "migration" \in Role(run[h]) /\ TRUE \in BOOLEAN
  BY <1>2 DEF Key, Role
<1>5. Uses("migration", channel, filed', worker') = Uses("migration", channel, filed, worker) + 1
  BY <1>3 DEF Uses
<1>6. \A j \in Key : j # "migration" =>
        Uses(j, channel, filed', worker') = Uses(j, channel, filed, worker)
  BY <1>2, <1>3 DEF Uses, Key
<1>7. Authority(channel, filed', worker')
  BY <1>2, <1>3 DEF IntakeInv, Authority
<1> QED BY <1>1, <1>2, <1>3, <1>4, <1>5, <1>6, <1>7, EffectSteps

(* An issue that exists is given what it lacks, and stays the one issue. *)
LEMMA UpdateIssueKeeps ==
    ASSUME IntakeInv, Surroundings', NEW h \in Host, UpdateIssue(h)
    PROVE  IntakeInv'
<1>1. filed \in Issues
  BY TypesParts DEF IntakeInv
<1>2. /\ run[h].at \in Past /\ ~At(h, "idle") /\ channel' = channel /\ worker' = worker
      /\ (h \in portable) \in BOOLEAN
  BY DEF UpdateIssue, At, Past
<1>3. filed' \in Issues /\ filed'.count = filed.count /\ filed'.digest = filed.digest
  <2>1. filed' = filed \/ filed' = [filed EXCEPT !.portable = TRUE]
    BY DEF UpdateIssue
  <2> QED BY <1>1, <2>1 DEF Issues
<1>4. CASE Receives(h, TRUE) \/ Receives(h, h \in portable)
  BY <1>2, <1>3, <1>4, ReceivesSteps
<1>5. CASE Skip(h)
  <2>1. run \in [Host -> Runs] /\ Fits(run[h], channel) /\ worker \in Workers
    BY TypesParts DEF IntakeInv, Agree
  <2>2. PICK x \in Runs : /\ run' = [run EXCEPT ![h] = x]
                          /\ x.at \in {"idle", "check"} /\ x.how = "fresh"
                          /\ x.at # "idle" => x.digest = run[h].digest
    BY <1>5, <2>1, SkipMoves
  <2>3. Role(x) = {} /\ Fits(x, channel)
    BY <1>2, <2>1, <2>2 DEF Role, Fits, Past, At
  <2> QED BY <1>2, <1>3, <2>1, <2>2, <2>3, RunSteps
<1> QED BY <1>4, <1>5 DEF UpdateIssue, Effect

-----------------------------------------------------------------------------
(* Steps that touch no claim and no delivery. *)
LEMMA OwnSteps ==
    ASSUME IntakeInv, Surroundings', NEW h \in Host,
           \/ Fails(h) \/ Check(h) \/ FindBySource(h) \/ NeedsMigration(h) \/ PageMoved(h)
           \/ Adopt(h) \/ Save(h)
    PROVE  IntakeInv'
<1>1. run \in [Host -> Runs] /\ Fits(run[h], channel) /\ run[h] \in Runs
  BY TypesParts DEF IntakeInv, Agree
<1>2. ~At(h, "idle") /\ channel' = channel /\ filed' = filed /\ worker' = worker
  BY DEF Fails, Check, FindBySource, NeedsMigration, PageMoved, Adopt, Save, At, Shared
<1>3. CASE Skip(h)
  BY <1>2, <1>3, SkipSteps
<1>4. CASE Check(h) /\ ~Skip(h)
  <2>1. run[h].at = "check"
    BY <1>4 DEF Check, At
  <2>2. CASE run[h].dest = "repo" /\ Advances(h, "find")
    BY <1>2, <2>2, MovesSteps
  <2>3. CASE run[h].dest # "repo"
    <3> DEFINE x == [[run[h] EXCEPT !.at = "unit"]
                        EXCEPT !.how = IF Has(h) THEN "receipt" ELSE "fresh"]
    <3>1. /\ x \in Runs /\ x.at = "unit" /\ x.digest = run[h].digest /\ x.how # "found"
          /\ run' = [run EXCEPT ![h] = x]
      BY <1>1, <1>4, <2>3 DEF Check, Runs
    <3>2. Role(x) = {} /\ Fits(x, channel)
      BY <1>1, <2>1, <3>1 DEF Role, Fits, Past
    <3>3. filed' \in Issues /\ worker' \in Workers
      BY <1>2, TypesParts DEF IntakeInv
    <3> HIDE DEF x
    <3> QED BY <1>2, <3>1, <3>2, <3>3, RunSteps
  <2> QED BY <1>4, <2>2, <2>3 DEF Check
<1>5. CASE FindBySource(h) /\ ~Skip(h)
  <2>1. run[h].at = "find"
    BY <1>5 DEF FindBySource, At
  <2>2. CASE Advances(h, "unit")
    BY <1>2, <2>2, MovesSteps
  <2>3. CASE ~Advances(h, "unit")
    <3> DEFINE x == [[run[h] EXCEPT !.at = "unit"] EXCEPT !.how = "found"]
    <3>1. /\ x \in Runs /\ x.at = "unit" /\ x.digest = run[h].digest /\ x.dest = run[h].dest
          /\ run' = [run EXCEPT ![h] = x]
      BY <1>1, <1>5, <2>3 DEF FindBySource, Runs
    <3>2. Role(x) = {} /\ Fits(x, channel)
      BY <1>1, <2>1, <3>1 DEF Role, Fits, Past
    <3>3. filed' \in Issues /\ worker' \in Workers
      BY <1>2, TypesParts DEF IntakeInv
    <3> HIDE DEF x
    <3> QED BY <1>2, <3>1, <3>2, <3>3, RunSteps
  <2> QED BY <2>2, <2>3
<1>6. CASE NeedsMigration(h) /\ ~Skip(h)
  <2>1. Advances(h, "migrate") /\ run[h].at = "claimed"
    BY <1>6 DEF NeedsMigration, At
  <2>2. run[h].digest = channel["unit"].digest
    BY <1>1, <2>1 DEF Fits, Past
  <2> QED BY <1>2, <2>1, <2>2, MovesSteps
<1>7. CASE Adopt(h) /\ ~Skip(h)
  <2>1. Receives(h, h \in portable) /\ run[h].at \in Past /\ (h \in portable) \in BOOLEAN
    BY <1>7 DEF Adopt, At, Past
  <2>2. filed' \in Issues
    BY <1>2, TypesParts DEF IntakeInv
  <2> QED BY <1>2, <2>1, <2>2, ReceivesSteps
<1> QED BY <1>3, <1>4, <1>5, <1>6, <1>7 DEF Fails, PageMoved, Save

LEMMA BeginsOrDies ==
    ASSUME IntakeInv, Surroundings', NEW h \in Host, Begin(h) \/ Killed(h)
    PROVE  IntakeInv'
<1>1. /\ run \in [Host -> Runs] /\ filed \in Issues /\ worker \in Workers
      /\ mount \in [Host -> Digest]
  BY TypesParts DEF IntakeInv, Surroundings
<1>2. channel' = channel /\ filed' = filed /\ worker' = worker
  BY DEF Begin, Killed, Shared
<1> DEFINE begun == [Resting EXCEPT !.at = "check", !.digest = mount[h]]
<1>3. run' = [run EXCEPT ![h] = begun] \/ run' = [run EXCEPT ![h] = Resting]
  BY DEF Begin, Killed
<1>4. Resting \in Runs /\ Role(Resting) = {} /\ Fits(Resting, channel)
  BY RestingIsRun DEF Role, Fits, Past, Resting
<1>5. mount[h] \in 0..MaxDigest /\ mount[h] # 0
  BY <1>1, IntakeAssumption DEF Digest
<1>6. begun \in Runs /\ begun.at = "check" /\ begun.digest = mount[h] /\ begun.how = "fresh"
  BY <1>5, RestingIsRun DEF Runs, Resting
<1>7. Role(begun) = {} /\ Fits(begun, channel)
  BY <1>5, <1>6 DEF Role, Fits, Past
<1> HIDE DEF begun
<1> QED BY <1>1, <1>2, <1>3, <1>4, <1>6, <1>7, RunSteps

LEMMA WorldMoves ==
    ASSUME IntakeInv, Surroundings',
           \/ PageEdited \/ IndexSyncs \/ WorkerEnds
           \/ \E h \in Host : MountSyncs(h) \/ ManifestMoves(h)
    PROVE  IntakeInv'
<1>1. filed \in Issues /\ worker \in Workers
  BY TypesParts DEF IntakeInv
<1>2. run' = run /\ channel' = channel
  BY DEF PageEdited, IndexSyncs, WorkerEnds, MountSyncs, ManifestMoves
<1>3. filed' = filed \/ filed' = [filed EXCEPT !.found = TRUE]
  BY DEF PageEdited, IndexSyncs, WorkerEnds, MountSyncs, ManifestMoves
<1>4. worker' = worker \/ worker' = [worker EXCEPT !.up = FALSE]
  BY DEF PageEdited, IndexSyncs, WorkerEnds, MountSyncs, ManifestMoves
<1>5. filed' \in Issues /\ filed'.count = filed.count /\ filed'.digest = filed.digest
  BY <1>1, <1>3 DEF Issues
<1>6. /\ worker' \in Workers /\ worker'.spawns = worker.spawns
      /\ worker'.refreshes = worker.refreshes /\ worker'.digest = worker.digest
  BY <1>1, <1>4 DEF Workers
<1> QED BY <1>2, <1>5, <1>6, RunsStay

(* Pages, mounts, manifests, receipts and the count of troubles keep their *)
(* types in every step.                                                    *)
LEMMA SurroundingsKept ==
    ASSUME IntakeTypes, IntakeNext
    PROVE  Surroundings'
<1>1. Surroundings /\ run \in [Host -> Runs]
  BY TypesParts
<1>2. page' \in Digest
  <2>1. CASE PageEdited
    BY <1>1, <2>1, IntakeAssumption DEF PageEdited, Surroundings, Digest
  <2>2. CASE page' = page
    BY <1>1, <2>2 DEF Surroundings
  <2> QED BY <2>1, <2>2
     DEF IntakeNext, IndexSyncs, WorkerEnds, Begin, Check,
         FindBySource, Claims, Effects, Fails, Killed, MountSyncs, ManifestMoves, Shared,
         UnitClaim, UnitSend, DeliveryClaim, DeliverySend, NeedsMigration, MigrationClaim,
         MigrationSend, CreateIssue, UpdateIssue, DispatchWorker, PageMoved, Adopt, Refresh, Save
<1>3. portable' \subseteq Host
  BY <1>1
     DEF IntakeNext, Surroundings, PageEdited, IndexSyncs, WorkerEnds, Begin, Check,
         FindBySource, Claims, Effects, Fails, Killed, MountSyncs, ManifestMoves, Shared,
         UnitClaim, UnitSend, DeliveryClaim, DeliverySend, NeedsMigration, MigrationClaim,
         MigrationSend, CreateIssue, UpdateIssue, DispatchWorker, PageMoved, Adopt, Refresh, Save
<1>4. mount' \in [Host -> Digest]
  BY <1>1
     DEF IntakeNext, Surroundings, PageEdited, IndexSyncs, WorkerEnds, Begin, Check,
         FindBySource, Claims, Effects, Fails, Killed, MountSyncs, ManifestMoves, Shared,
         UnitClaim, UnitSend, DeliveryClaim, DeliverySend, NeedsMigration, MigrationClaim,
         MigrationSend, CreateIssue, UpdateIssue, DispatchWorker, PageMoved, Adopt, Refresh, Save
<1>5. receipts' \in [Host -> [Dest -> Receipt]]
  <2>1. ASSUME NEW h \in Host, Save(h)
        PROVE  receipts' \in [Host -> [Dest -> Receipt]]
    <3>1. run[h].receipt \in Receipt
      BY <1>1, RunFields
    <3> QED BY <1>1, <2>1, <3>1 DEF Save, Surroundings
  <2>2. CASE receipts' = receipts
    BY <1>1, <2>2 DEF Surroundings
  <2> QED BY <2>1, <2>2
     DEF IntakeNext, PageEdited, IndexSyncs, WorkerEnds, Begin, Check,
         FindBySource, Claims, Effects, Fails, Killed, MountSyncs, ManifestMoves, Shared,
         UnitClaim, UnitSend, DeliveryClaim, DeliverySend, NeedsMigration, MigrationClaim,
         MigrationSend, CreateIssue, UpdateIssue, DispatchWorker, PageMoved, Adopt, Refresh
<1>6. troubles' \in 0..MaxTroubles
  <2>1. Trouble \/ troubles' = troubles
    BY DEF IntakeNext, PageEdited, IndexSyncs, WorkerEnds, Begin, Check,
         FindBySource, Claims, Effects, Fails, Killed, MountSyncs, ManifestMoves, NoTrouble,
         UnitClaim, UnitSend, DeliveryClaim, DeliverySend, NeedsMigration, MigrationClaim,
         MigrationSend, CreateIssue, UpdateIssue, DispatchWorker, PageMoved, Adopt, Refresh,
         Save, Sends, Effect
  <2> QED BY <1>1, <2>1, IntakeAssumption DEF Trouble, Surroundings
<1> QED BY <1>2, <1>3, <1>4, <1>5, <1>6 DEF Surroundings

-----------------------------------------------------------------------------
(* The invariant *)

LEMMA StartsWell == IntakeInit => IntakeInv
<1> SUFFICES ASSUME IntakeInit
             PROVE  IntakeInv
  OBVIOUS
<1>1. PICK legacy \in BOOLEAN :
        /\ channel = [k \in Key |-> IF legacy /\ k = "repo" THEN [made |-> TRUE, digest |-> 1]
                                    ELSE [made |-> FALSE, digest |-> 0]]
        /\ filed = [count |-> IF legacy THEN 1 ELSE 0, digest |-> IF legacy THEN 1 ELSE 0,
                    portable |-> FALSE, found |-> legacy]
  BY DEF IntakeInit
<1>2. /\ worker = [spawns |-> 0, refreshes |-> 0, digest |-> 0, up |-> FALSE]
      /\ run = [h \in Host |-> Resting]
  BY DEF IntakeInit
<1>3. 1 \in Digest /\ 1 \in 0..MaxDigest /\ 0 \in 0..MaxDigest /\ 0 \in 0..MaxTroubles
  BY IntakeAssumption DEF Digest
<1>4. {"unit", "repo", "workspace", "migration"} = Key
  BY DEF Key
<1>5. IntakeTypes
  <2>1. Surroundings
    BY <1>3 DEF IntakeInit, Surroundings, Receipt, NoReceipt
  <2>2. channel \in Channels /\ filed \in Issues /\ worker \in Workers
    BY <1>1, <1>2, <1>3 DEF Channels, Issues, Workers
  <2>3. run \in [Host -> Runs]
    BY <1>2, RestingIsRun
  <2> QED BY <2>1, <2>2, <2>3, TypesParts
<1>6. Tokens(run, channel, filed, worker)
  <2> SUFFICES ASSUME NEW k \in Key
               PROVE  Token(Bearers(run, k), channel[k].made, Uses(k, channel, filed, worker))
    BY DEF Tokens
  <2>1. Bearers(run, k) = {}
    BY <1>2 DEF Bearers, Role, Resting
  <2>2. Uses(k, channel, filed, worker) \in {0, 1}
        /\ (~channel[k].made => Uses(k, channel, filed, worker) = 0)
    BY <1>1, <1>2, <1>4 DEF Uses
  <2> QED BY <2>1, <2>2 DEF Token
<1>7. Agree(run, channel)
  BY <1>2 DEF Agree, Fits, Resting, Past
<1>8. Authority(channel, filed, worker)
  BY <1>1, <1>2, <1>4 DEF Authority
<1> QED BY <1>5, <1>6, <1>7, <1>8 DEF IntakeInv

LEMMA EveryStepKeeps ==
    ASSUME IntakeInv, [IntakeNext]_intakeVars
    PROVE  IntakeInv'
<1>1. CASE UNCHANGED intakeVars
  <2>1. Surroundings' /\ filed' \in Issues /\ worker' \in Workers
    BY <1>1, TypesParts DEF IntakeInv, intakeVars, Surroundings
  <2> QED BY <1>1, <2>1, RunsStay DEF intakeVars
<1>2. CASE IntakeNext
  <2>1. Surroundings'
    BY <1>2, SurroundingsKept DEF IntakeInv
  <2>2. CASE \/ PageEdited \/ IndexSyncs \/ WorkerEnds
             \/ \E h \in Host : MountSyncs(h) \/ ManifestMoves(h)
    BY <2>1, <2>2, WorldMoves
  <2>3. ASSUME NEW h \in Host, \/ Fails(h) \/ Check(h) \/ FindBySource(h) \/ NeedsMigration(h)
                               \/ PageMoved(h) \/ Adopt(h) \/ Save(h)
        PROVE  IntakeInv'
    BY <2>1, <2>3, OwnSteps
  <2>4. ASSUME NEW h \in Host, Begin(h) \/ Killed(h)
        PROVE  IntakeInv'
    BY <2>1, <2>4, BeginsOrDies
  <2>5. ASSUME NEW h \in Host, UnitClaim(h) \/ UnitSend(h)
        PROVE  IntakeInv'
    BY <2>1, <2>5, UnitClaimKeeps, UnitSendKeeps
  <2>6. ASSUME NEW h \in Host, DeliveryClaim(h) \/ DeliverySend(h)
        PROVE  IntakeInv'
    BY <2>1, <2>6, DeliveryClaimKeeps, DeliverySendKeeps
  <2>7. ASSUME NEW h \in Host, MigrationClaim(h) \/ MigrationSend(h)
        PROVE  IntakeInv'
    BY <2>1, <2>7, MigrationClaimKeeps, MigrationSendKeeps
  <2>8. ASSUME NEW h \in Host, CreateIssue(h) \/ UpdateIssue(h)
        PROVE  IntakeInv'
    BY <2>1, <2>8, CreateIssueKeeps, UpdateIssueKeeps
  <2>9. ASSUME NEW h \in Host, DispatchWorker(h) \/ Refresh(h)
        PROVE  IntakeInv'
    BY <2>1, <2>9, DispatchWorkerKeeps, RefreshKeeps
  <2> QED BY <1>2, <2>2, <2>3, <2>4, <2>5, <2>6, <2>7, <2>8, <2>9
          DEF IntakeNext, Claims, Effects
<1> QED BY <1>1, <1>2

LEMMA InvariantImplies == IntakeInv => PagesDeliveredOnce
<1> SUFFICES ASSUME IntakeInv
             PROVE  PagesDeliveredOnce
  OBVIOUS
<1>1. {"repo", "workspace", "migration"} \subseteq Key
  BY DEF Key
<1>2. filed.count \in {0, 1}
  BY <1>1 DEF IntakeInv, Tokens, Token, Uses
<1>3. worker.spawns \in {0, 1}
  BY <1>1 DEF IntakeInv, Tokens, Token, Uses
<1>4. worker.refreshes \in {0, 1}
  BY <1>1 DEF IntakeInv, Tokens, Token, Uses
<1>5. OneAuthority
  BY DEF IntakeInv, Authority, OneAuthority
<1> QED BY <1>2, <1>3, <1>4, <1>5 DEF PagesDeliveredOnce, DeliveredOnce

LEMMA Invariant == IntakeSpec => []IntakeInv
<1>1. IntakeInv /\ [IntakeNext]_intakeVars => IntakeInv'
  BY EveryStepKeeps
<1> QED BY <1>1, StartsWell, PTL DEF IntakeSpec

(* Claims, deliveries, receipts and runs keep their types. *)
THEOREM IntakeTyped == IntakeSpec => []IntakeTypes
<1>1. IntakeInv => IntakeTypes
  BY DEF IntakeInv
<1> QED BY <1>1, Invariant, PTL

(* However many hosts take a page in, whenever they are killed, whatever   *)
(* version of it they have mounted and whatever an older build had claimed *)
(* of it: one issue, one worker, one redispatch, and all of one version.   *)
THEOREM PagesOnce == IntakeSpec => []PagesDeliveredOnce
BY Invariant, InvariantImplies, PTL

-----------------------------------------------------------------------------
(***************************************************************************)
(* An issue is closed for a pull request that is merged, and the gate      *)
(* merges the head that was verified, for any number of pull requests,     *)
(* commits and faults and every configuration.                             *)
(*                                                                         *)
(* What GitHub has only grows in the respects that count: a merge is never *)
(* taken back, nor is the review of a commit or the success of its checks. *)
(* So whatever the mounted copy shows of them, however late it is, is true *)
(* still, and so is what was concluded from it.                            *)
(***************************************************************************)

-----------------------------------------------------------------------------
(* The inductive invariant *)

(* Pull request y has the reviews, the checks and the merge that x has.    *)
Wider(x, y) ==
    /\ x.approved \subseteq y.approved /\ x.green \subseteq y.green
    /\ x.state = "merged" => y.state = "merged"

SomeMerged == \E p \in Pull : pull[p].state = "merged"
Reviewed(p, h) == p \in Pull /\ h \in pull[p].approved /\ h \in pull[p].green
Passed(p, h) == Reviewed(p, h) /\ <<p, h>> \in verified

(* Whoever takes the issue for one whose pull request is merged is right.  *)
Evidence ==
    /\ job.why = "merged" => SomeMerged
    /\ setup.github /\ job.merged => SomeMerged
    /\ advanced # {} => SomeMerged
    /\ setup.github /\ issue = "closed" => SomeMerged

(* The gate holds the head that it found reviewed, and what it merges or   *)
(* queues is the one that was verified.                                    *)
Approval ==
    /\ job.at \in {"verify", "merge"} => Reviewed(job.pull, job.head)
    /\ job.at = "merge" => <<job.pull, job.head>> \in verified
    /\ \A p \in Pull : queued[p] # 0 => Passed(p, queued[p])
    /\ \A p \in Pull : landed[p] # 0 => Passed(p, landed[p])

ClosureInv ==
    /\ ClosureTypes
    /\ \A p \in Pull : Wider(mirror[p], pull[p])
    /\ Evidence /\ Approval

-----------------------------------------------------------------------------
(* Pull requests and the job *)

LEMMA PullFields ==
    ASSUME NEW x \in Pulls
    PROVE  /\ x.state \in {"open", "draft", "merged", "closed"} /\ x.head \in Heads
           /\ x.approved \subseteq Heads /\ x.green \subseteq Heads
           /\ x.says \in {"closes", "refers", "denies"}
BY DEF Pulls

LEMMA StateChanged ==
    ASSUME NEW x \in Pulls, NEW s \in {"open", "draft", "merged", "closed"}
    PROVE  [x EXCEPT !.state = s] \in Pulls
BY DEF Pulls

LEMMA HeadChanged ==
    ASSUME NEW x \in Pulls, NEW h \in Heads
    PROVE  [x EXCEPT !.head = h] \in Pulls
BY DEF Pulls

LEMMA ReviewsChanged ==
    ASSUME NEW x \in Pulls, NEW A \in SUBSET Heads
    PROVE  [x EXCEPT !.approved = A] \in Pulls /\ [x EXCEPT !.green = A] \in Pulls
BY DEF Pulls

LEMMA AtHead ==
    ASSUME NEW x \in Pulls
    PROVE  /\ x.approved \cup {x.head} \in SUBSET Heads
           /\ x.green \cup {x.head} \in SUBSET Heads
<1>1. x.head \in Heads /\ x.approved \subseteq Heads /\ x.green \subseteq Heads
  BY PullFields
<1> QED
  BY <1>1, Zenon

LEMMA JobFields ==
    ASSUME NEW x \in Jobs
    PROVE  /\ x.at \in {"idle", "start", "gate", "verify", "merge", "confirm", "write", "release"}
           /\ x.why \in {"none", "agents", "merged"} /\ x.pull \in Pull \cup {None}
           /\ x.head \in 0..MaxHead /\ x.merged \in BOOLEAN
BY DEF Jobs

LEMMA IdleJob ==
    /\ Idle \in Jobs /\ Idle.at = "idle" /\ Idle.why = "none" /\ Idle.merged = FALSE
    /\ Idle.pull = None /\ Idle.head = 0
BY ClosureAssumption DEF Idle, Jobs

(* A pull request changes to one that has what it had.                     *)
LEMMA Grows ==
    ASSUME ClosureInv, NEW p \in Pull, NEW y \in Pulls, Wider(pull[p], y),
           pull' = [pull EXCEPT ![p] = y]
    PROVE  /\ pull' \in [Pull -> Pulls]
           /\ \A q \in Pull : Wider(mirror[q], pull'[q])
           /\ SomeMerged => SomeMerged'
           /\ \A q, h : Reviewed(q, h) => Reviewed(q, h)'
<1>1. pull \in [Pull -> Pulls]
  BY DEF ClosureInv, ClosureTypes
<1>2. pull' \in [Pull -> Pulls] /\ pull'[p] = y /\ \A q \in Pull \ {p} : pull'[q] = pull[q]
  BY <1>1
<1>3. \A q \in Pull : Wider(pull[q], pull'[q])
  BY <1>2 DEF Wider
<1>4. \A q \in Pull : Wider(mirror[q], pull'[q])
  BY <1>3 DEF ClosureInv, Wider
<1>5. SomeMerged => SomeMerged'
  BY <1>3 DEF SomeMerged, Wider
<1>6. ASSUME NEW q, NEW h, Reviewed(q, h)
      PROVE  Reviewed(q, h)'
  BY <1>3, <1>6 DEF Reviewed, Wider
<1> QED
  BY <1>2, <1>4, <1>5, <1>6

(* GitHub moves on: what was concluded of it stays right.                  *)
LEMMA GithubStep ==
    ASSUME ClosureInv, Outside,
           pull' \in [Pull -> Pulls], \A q \in Pull : Wider(mirror[q], pull'[q]),
           SomeMerged => SomeMerged', \A q, h : Reviewed(q, h) => Reviewed(q, h)',
           UNCHANGED <<mirror, event, faults>>,
           queued' \in [Pull -> 0..MaxHead], \A q \in Pull : queued'[q] \in {0, queued[q]},
           landed' \in [Pull -> 0..MaxHead],
           \A q \in Pull : landed'[q] \in {landed[q], queued[q]}
    PROVE  ClosureInv'
<1>1. ClosureTypes'
  BY DEF ClosureInv, ClosureTypes, Outside, readinessVars
<1>2. (\A p \in Pull : Wider(mirror[p], pull[p]))'
  OBVIOUS
<1>3. Evidence'
  BY DEF ClosureInv, Evidence, Outside
<1>4. \A q, h : Passed(q, h) => Passed(q, h)'
  BY DEF Passed, Outside
<1>5. Approval'
  <2>1. (job.at \in {"verify", "merge"} => Reviewed(job.pull, job.head))'
    BY DEF ClosureInv, Approval, Outside
  <2>2. (job.at = "merge" => <<job.pull, job.head>> \in verified)'
    BY DEF ClosureInv, Approval, Outside
  <2>3. (\A p \in Pull : queued[p] # 0 => Passed(p, queued[p]))'
    BY <1>4 DEF ClosureInv, Approval
  <2>4. (\A p \in Pull : landed[p] # 0 => Passed(p, landed[p]))'
    BY <1>4 DEF ClosureInv, Approval
  <2> QED
    BY <2>1, <2>2, <2>3, <2>4 DEF Approval
<1> QED
  BY <1>1, <1>2, <1>3, <1>5 DEF ClosureInv

(* What the program does while GitHub stands still.                        *)
LEMMA ProgramStep ==
    ASSUME ClosureInv, ClosureTypes', Evidence', UNCHANGED providerVars,
           verified \subseteq verified',
           job'.at \in {"verify", "merge"} => Reviewed(job'.pull, job'.head),
           job'.at = "merge" => <<job'.pull, job'.head>> \in verified'
    PROVE  ClosureInv'
<1>1. \A p, h : Reviewed(p, h)' = Reviewed(p, h)
  BY DEF Reviewed, providerVars
<1>2. \A p, h : Passed(p, h) => Passed(p, h)'
  BY <1>1 DEF Passed
<1>3. (\A p \in Pull : Wider(mirror[p], pull[p]))'
  BY DEF ClosureInv, providerVars
<1>4. Approval'
  BY <1>1, <1>2 DEF ClosureInv, Approval, providerVars
<1> QED
  BY <1>3, <1>4 DEF ClosureInv

-----------------------------------------------------------------------------
(* GitHub and its mounted copy *)

LEMMA ReviewStep ==
    ASSUME ClosureInv, NEW p \in Pull, Review(p)
    PROVE  ClosureInv'
<1>1. pull[p] \in Pulls
  BY DEF ClosureInv, ClosureTypes
<1>2. PICK y \in Pulls : Wider(pull[p], y) /\ pull' = [pull EXCEPT ![p] = y]
  <2>1. CASE pull' = [pull EXCEPT ![p].approved = @ \cup {pull[p].head}]
    <3> DEFINE A == pull[p].approved \cup {pull[p].head}
               y == [pull[p] EXCEPT !.approved = A]
    <3>1. A \in SUBSET Heads /\ pull[p].approved \subseteq A
      BY <1>1, AtHead
    <3>2. pull' = [pull EXCEPT ![p] = y]
      BY <2>1
    <3> HIDE DEF A
    <3>3. y \in Pulls
      BY <1>1, <3>1, ReviewsChanged
    <3>4. Wider(pull[p], y)
      BY <1>1, <3>1 DEF Wider, Pulls
    <3> QED
      BY <3>2, <3>3, <3>4
  <2>2. CASE pull' = [pull EXCEPT ![p].green = @ \cup {pull[p].head}]
    <3> DEFINE A == pull[p].green \cup {pull[p].head}
               y == [pull[p] EXCEPT !.green = A]
    <3>1. A \in SUBSET Heads /\ pull[p].green \subseteq A
      BY <1>1, AtHead
    <3>2. pull' = [pull EXCEPT ![p] = y]
      BY <2>2
    <3> HIDE DEF A
    <3>3. y \in Pulls
      BY <1>1, <3>1, ReviewsChanged
    <3>4. Wider(pull[p], y)
      BY <1>1, <3>1 DEF Wider, Pulls
    <3> QED
      BY <3>2, <3>3, <3>4
  <2> QED
    BY <2>1, <2>2 DEF Review
<1>3. Outside /\ UNCHANGED <<mirror, queued, event, landed, faults>>
  BY DEF Review
<1>4. queued \in [Pull -> 0..MaxHead] /\ landed \in [Pull -> 0..MaxHead]
  BY DEF ClosureInv, ClosureTypes
<1> QED
  BY <1>2, <1>3, <1>4, Grows, GithubStep

(* A state that is not a merged one changes, and what was queued is not    *)
(* queued any more.                                                        *)
LEMMA StateStep ==
    ASSUME ClosureInv, Outside, NEW p \in Pull, NEW y \in Pulls, Wider(pull[p], y),
           pull' = [pull EXCEPT ![p] = y], queued' = [queued EXCEPT ![p] = 0],
           landed' = landed \/ landed' = [landed EXCEPT ![p] = queued[p]],
           UNCHANGED <<mirror, event, faults>>
    PROVE  ClosureInv'
<1>1. queued \in [Pull -> 0..MaxHead] /\ landed \in [Pull -> 0..MaxHead] /\ 0 \in 0..MaxHead
  BY ClosureAssumption DEF ClosureInv, ClosureTypes
<1>2. queued' \in [Pull -> 0..MaxHead] /\ \A q \in Pull : queued'[q] \in {0, queued[q]}
  BY <1>1
<1>3. landed' \in [Pull -> 0..MaxHead] /\ \A q \in Pull : landed'[q] \in {landed[q], queued[q]}
  BY <1>1
<1> QED
  BY <1>2, <1>3, Grows, GithubStep

LEMMA PushStep ==
    ASSUME ClosureInv, NEW p \in Pull, Push(p)
    PROVE  ClosureInv'
<1>1. pull[p] \in Pulls
  BY DEF ClosureInv, ClosureTypes
<1> DEFINE y == [pull[p] EXCEPT !.head = pull[p].head + 1]
<1>2. pull[p].head + 1 \in Heads
  BY <1>1, PullFields, ClosureAssumption DEF Push, Heads
<1>3. y \in Pulls
  BY <1>1, <1>2, HeadChanged
<1>4. Wider(pull[p], y)
  BY <1>1 DEF Wider, Pulls
<1>5. pull' = [pull EXCEPT ![p] = y]
  BY DEF Push
<1> QED
  BY <1>3, <1>4, <1>5, StateStep DEF Push

LEMMA DecideStep ==
    ASSUME ClosureInv, NEW p \in Pull, Decide(p)
    PROVE  ClosureInv'
<1>1. pull[p] \in Pulls
  BY DEF ClosureInv, ClosureTypes
<1>2. PICK s \in {"open", "draft", "merged", "closed"} : pull' = [pull EXCEPT ![p].state = s]
  BY DEF Decide
<1> DEFINE y == [pull[p] EXCEPT !.state = s]
<1>3. y \in Pulls
  BY <1>1, StateChanged
<1>4. Wider(pull[p], y)
  BY <1>1 DEF Wider, Pulls, Decide
<1>5. pull' = [pull EXCEPT ![p] = y]
  BY <1>2
<1> QED
  BY <1>3, <1>4, <1>5, StateStep DEF Decide

LEMMA QueueMergesStep ==
    ASSUME ClosureInv, NEW p \in Pull, QueueMerges(p)
    PROVE  ClosureInv'
<1>1. pull[p] \in Pulls
  BY DEF ClosureInv, ClosureTypes
<1> DEFINE y == [pull[p] EXCEPT !.state = "merged"]
<1>2. y \in Pulls
  BY <1>1, StateChanged
<1>3. Wider(pull[p], y)
  BY <1>1 DEF Wider, Pulls
<1>4. pull' = [pull EXCEPT ![p] = y]
  BY DEF QueueMerges
<1> QED
  BY <1>2, <1>3, <1>4, StateStep DEF QueueMerges

LEMMA SyncStep ==
    ASSUME ClosureInv, NEW p \in Pull, Sync(p)
    PROVE  ClosureInv'
<1>1. /\ pull \in [Pull -> Pulls] /\ mirror \in [Pull -> Pulls] /\ event \subseteq Pull
      /\ mirror' = [mirror EXCEPT ![p] = pull[p]] /\ event' = event \cup {p}
      /\ UNCHANGED <<pull, queued, landed, faults>> /\ Outside
  BY DEF ClosureInv, ClosureTypes, Sync
<1>2. mirror' \in [Pull -> Pulls]
  BY <1>1
<1>3. ClosureTypes'
  BY <1>1, <1>2 DEF ClosureInv, ClosureTypes, Outside, readinessVars
<1>4. (\A q \in Pull : Wider(mirror[q], pull[q]))'
  BY <1>1 DEF ClosureInv, Wider
<1>5. Evidence' /\ Approval'
  BY <1>1 DEF ClosureInv, Evidence, Approval, SomeMerged, Passed, Reviewed, Outside
<1> QED
  BY <1>3, <1>4, <1>5 DEF ClosureInv

LEMMA RedeliverStep ==
    ASSUME ClosureInv, NEW p \in Pull, Redeliver(p)
    PROVE  ClosureInv'
<1>1. /\ event' = event \cup {p} /\ faults' \in 0..MaxFaults
      /\ UNCHANGED <<pull, mirror, queued, landed>> /\ Outside
  BY ClosureAssumption DEF ClosureInv, ClosureTypes, Redeliver, Fault
<1>2. ClosureTypes'
  BY <1>1 DEF ClosureInv, ClosureTypes, Outside, readinessVars
<1>3. Evidence' /\ Approval'
  BY <1>1 DEF ClosureInv, Evidence, Approval, SomeMerged, Passed, Reviewed, Outside
<1> QED
  BY <1>1, <1>2, <1>3 DEF ClosureInv

-----------------------------------------------------------------------------
(* The completion of the issue *)

LEMMA FaultCounted ==
    ASSUME ClosureInv, Fault \/ NoFault
    PROVE  faults' \in 0..MaxFaults
BY ClosureAssumption DEF ClosureInv, ClosureTypes, Fault, NoFault

LEMMA ProgramTypes ==
    ASSUME ClosureInv, UNCHANGED <<setup, providerVars>>, job' \in Jobs, again' \in BOOLEAN,
           ready' \subseteq Pull, seen' \subseteq Pull, tracked' \in BOOLEAN,
           issue' \in {"open", "review", "closed"}, advanced' \subseteq Pull,
           verified' \subseteq Pull \X Heads, faults' \in 0..MaxFaults
    PROVE  ClosureTypes'
BY DEF ClosureInv, ClosureTypes, providerVars

LEMMA GotoJob ==
    ASSUME ClosureInv,
           NEW at \in {"idle", "start", "gate", "verify", "merge", "confirm", "write", "release"},
           Goto(at)
    PROVE  /\ job' \in Jobs /\ job'.at = at /\ job'.why = job.why /\ job'.merged = job.merged
           /\ job'.pull = job.pull /\ job'.head = job.head
           /\ again' \in BOOLEAN /\ ready' \subseteq Pull
BY DEF ClosureInv, ClosureTypes, Goto, Jobs

LEMMA LeaveJob ==
    ASSUME ClosureInv, NEW retry \in BOOLEAN, Leave(retry)
    PROVE  job' = Idle /\ again' \in BOOLEAN /\ ready' = {}
BY DEF ClosureInv, ClosureTypes, Leave

(* The job as it is after a refusal, an error or its end: it holds nothing *)
(* that it did not hold before.                                            *)
Less ==
    /\ job' \in Jobs /\ job'.at \notin {"verify", "merge"}
    /\ job'.why \in {job.why, "none"} /\ job'.merged \in {job.merged, FALSE}
    /\ again' \in BOOLEAN /\ ready' \subseteq Pull

LEMMA LeavesLess ==
    ASSUME ClosureInv, NEW retry \in BOOLEAN, Leave(retry)
    PROVE  Less
BY LeaveJob, IdleJob DEF Less

LEMMA GoesLess ==
    ASSUME ClosureInv, NEW at \in {"idle", "start", "gate", "confirm", "write", "release"}, Goto(at)
    PROVE  Less
BY GotoJob DEF Less

LEMMA RefusesLess ==
    ASSUME ClosureInv, Refuses
    PROVE  Less
<1>1. CASE setup.github
  BY <1>1, GoesLess DEF Refuses
<1>2. CASE ~setup.github
  BY <1>2, LeavesLess DEF Refuses
<1> QED
  BY <1>1, <1>2

(* A step that leaves the issue, and what is known of its pull requests,   *)
(* as they are.                                                            *)
LEMMA JobStep ==
    ASSUME ClosureInv, UNCHANGED <<setup, providerVars, issue, advanced>>,
           job' \in Jobs, again' \in BOOLEAN, ready' \subseteq Pull, seen' \subseteq Pull,
           tracked' \in BOOLEAN, faults' \in 0..MaxFaults,
           verified' \subseteq Pull \X Heads, verified \subseteq verified',
           job'.why = "merged" => SomeMerged,
           setup.github /\ job'.merged => SomeMerged,
           job'.at \in {"verify", "merge"} => Reviewed(job'.pull, job'.head),
           job'.at = "merge" => <<job'.pull, job'.head>> \in verified'
    PROVE  ClosureInv'
<1>1. ClosureTypes'
  BY ProgramTypes DEF ClosureInv, ClosureTypes
<1>2. Evidence'
  BY DEF ClosureInv, Evidence, SomeMerged, providerVars
<1>3. UNCHANGED providerVars
  OBVIOUS
<1> QED
  BY <1>1, <1>2, <1>3, ProgramStep

LEMMA LessStep ==
    ASSUME ClosureInv, Less, UNCHANGED <<setup, providerVars, issue, tracked, seen, advanced>>,
           faults' \in 0..MaxFaults, verified' = verified
    PROVE  ClosureInv'
<1>1. seen' \subseteq Pull /\ tracked' \in BOOLEAN /\ verified' \subseteq Pull \X Heads
  BY DEF ClosureInv, ClosureTypes
<1>2. job'.why = "merged" => SomeMerged
  BY DEF Less, ClosureInv, Evidence
<1>3. setup.github /\ job'.merged => SomeMerged
  BY DEF Less, ClosureInv, Evidence
<1>4. UNCHANGED <<setup, providerVars, issue, advanced>>
  OBVIOUS
<1> QED
  BY <1>1, <1>2, <1>3, <1>4, JobStep DEF Less

(* What the mounted copy shows merged is merged.                           *)
LEMMA ObservedIsMerged ==
    ASSUME ClosureInv, NEW p \in Pull, ObservedMerged(p)
    PROVE  SomeMerged
BY DEF ClosureInv, Wider, ObservedMerged, SomeMerged

LEMMA ReadyIsReviewed ==
    ASSUME ClosureInv, NEW p \in Pull, MergeReady(p)
    PROVE  Reviewed(p, mirror[p].head) /\ mirror[p].head \in Heads
<1>1. mirror[p].head \in Heads
  BY PullFields DEF ClosureInv, ClosureTypes
<1> QED
  BY <1>1 DEF ClosureInv, Wider, MergeReady, ReviewedAtHead, GreenAtHead, Reviewed

LEMMA Starts ==
    ASSUME ClosureInv, NEW why \in {"agents", "merged"}, Completes(why),
           why = "merged" => SomeMerged
    PROVE  /\ job' \in Jobs
           /\ job'.why = "merged" => SomeMerged
           /\ setup.github /\ job'.merged => SomeMerged
           /\ job'.at \in {"verify", "merge"} => Reviewed(job'.pull, job'.head)
           /\ job'.at = "merge" => <<job'.pull, job'.head>> \in verified
<1>1. CASE job.at = "idle"
  <2>1. job' = [at |-> "start", why |-> why, pull |-> None, head |-> 0, merged |-> FALSE]
    BY <1>1 DEF Completes, Idle
  <2> QED
    BY <2>1, ClosureAssumption DEF Jobs
<1>2. CASE job.at # "idle"
  BY <1>2 DEF Completes, ClosureInv, ClosureTypes, Evidence, Approval
<1> QED
  BY <1>1, <1>2

LEMMA AgentsCompleteStep ==
    ASSUME ClosureInv, AgentsComplete
    PROVE  ClosureInv'
<1>1. Completes("agents") /\ again' = FALSE
      /\ UNCHANGED <<setup, providerVars, issue, tracked, readinessVars, advanced, verified, faults>>
  BY DEF AgentsComplete
<1>2. /\ again' \in BOOLEAN /\ ready' \subseteq Pull /\ seen' \subseteq Pull
      /\ tracked' \in BOOLEAN /\ faults' \in 0..MaxFaults /\ verified' \subseteq Pull \X Heads
      /\ UNCHANGED <<setup, providerVars, issue, advanced>> /\ verified' = verified
  BY <1>1 DEF ClosureInv, ClosureTypes, readinessVars
<1>3. /\ job' \in Jobs
      /\ job'.why = "merged" => SomeMerged
      /\ setup.github /\ job'.merged => SomeMerged
      /\ job'.at \in {"verify", "merge"} => Reviewed(job'.pull, job'.head)
      /\ job'.at = "merge" => <<job'.pull, job'.head>> \in verified
  BY <1>1, Starts
<1> QED
  BY <1>2, <1>3, JobStep

LEMMA ObserveStep ==
    ASSUME ClosureInv, Observe
    PROVE  ClosureInv'
<1>1. UNCHANGED <<setup, providerVars, issue, tracked, seen, advanced, verified>>
  BY DEF Observe
<1>2. CASE Fault /\ Leave(TRUE)
  BY <1>1, <1>2, FaultCounted, LeavesLess, LessStep
<1>3. CASE NoFault /\ UNCHANGED <<again, ready>>
  <2>1. PICK at \in {"gate", "write"}, merged \in BOOLEAN :
            /\ job' = [[job EXCEPT !.at = at] EXCEPT !.merged = merged]
            /\ setup.github /\ merged => SomeMerged
    <3>1. job \in Jobs /\ job.merged \in BOOLEAN
      BY JobFields DEF ClosureInv, ClosureTypes
    <3>2. CASE job' = [job EXCEPT !.at = "write", !.merged = job.why = "merged"]
      <4> DEFINE m == job.why = "merged"
      <4>1. m \in BOOLEAN /\ (m => SomeMerged)
        BY DEF ClosureInv, Evidence
      <4> QED
        BY <3>2, <4>1
    <3>3. ASSUME NEW p \in Pull,
                 job' = [job EXCEPT !.merged = ObservedMerged(p),
                                    !.at = IF ~ObservedMerged(p) /\ setup.gated
                                             THEN "gate" ELSE "write"]
          PROVE  \E at \in {"gate", "write"}, merged \in BOOLEAN :
                     /\ job' = [[job EXCEPT !.at = at] EXCEPT !.merged = merged]
                     /\ setup.github /\ merged => SomeMerged
      <4> DEFINE m == ObservedMerged(p)
                 at == IF ~ObservedMerged(p) /\ setup.gated THEN "gate" ELSE "write"
      <4>1. m \in BOOLEAN /\ (m => SomeMerged)
        BY ObservedIsMerged DEF ObservedMerged
      <4>2. at \in {"gate", "write"}
        OBVIOUS
      <4>3. job' = [[job EXCEPT !.at = at] EXCEPT !.merged = m]
        BY <3>1, <3>3 DEF Jobs
      <4> QED
        BY <4>1, <4>2, <4>3
    <3>4. CASE job' = [job EXCEPT !.at = IF setup.gated THEN "gate" ELSE "write"]
      <4>1. job' = [[job EXCEPT !.at = IF setup.gated THEN "gate" ELSE "write"]
                        EXCEPT !.merged = job.merged]
        BY <3>1, <3>4 DEF Jobs
      <4>2. setup.github /\ job.merged => SomeMerged
        BY DEF ClosureInv, Evidence
      <4> QED
        BY <3>1, <4>1, <4>2
    <3>5. ~Fault
      BY <1>3, ClosureAssumption DEF Fault, NoFault, ClosureInv, ClosureTypes
    <3> QED
      BY <3>2, <3>3, <3>4, <3>5 DEF Observe
  <2>2. /\ job' \in Jobs /\ job'.at = at /\ job'.merged = merged /\ job'.why = job.why
    BY <2>1 DEF ClosureInv, ClosureTypes, Jobs
  <2>3. /\ again' \in BOOLEAN /\ ready' \subseteq Pull /\ seen' \subseteq Pull
        /\ tracked' \in BOOLEAN /\ verified' \subseteq Pull \X Heads /\ faults' \in 0..MaxFaults
    BY <1>1, <1>3, FaultCounted DEF ClosureInv, ClosureTypes
  <2>4. job'.why = "merged" => SomeMerged
    BY <2>2 DEF ClosureInv, Evidence
  <2> QED
    BY <1>1, <2>1, <2>2, <2>3, <2>4, JobStep
<1> QED
  BY <1>2, <1>3 DEF Observe

LEMMA GateStep ==
    ASSUME ClosureInv, WaitForMergeReady
    PROVE  ClosureInv'
<1>1. UNCHANGED <<setup, providerVars, issue, tracked, seen, advanced, verified>>
  BY DEF WaitForMergeReady
<1>2. CASE Fault /\ Leave(TRUE)
  BY <1>1, <1>2, FaultCounted, LeavesLess, LessStep
<1>3. CASE NoFault /\ Refuses
  BY <1>1, <1>3, FaultCounted, RefusesLess, LessStep
<1>4. ASSUME NoFault, NEW p \in Pull, MergeReady(p), UNCHANGED <<again, ready>>,
             job' = [job EXCEPT !.at = "verify", !.pull = p, !.head = mirror[p].head]
      PROVE  ClosureInv'
  <2>1. Reviewed(p, mirror[p].head) /\ mirror[p].head \in 0..MaxHead
    BY <1>4, ReadyIsReviewed, ClosureAssumption DEF Heads
  <2>2. /\ job' \in Jobs /\ job'.at = "verify" /\ job'.pull = p /\ job'.head = mirror[p].head
        /\ job'.why = job.why /\ job'.merged = job.merged
    BY <1>4, <2>1 DEF ClosureInv, ClosureTypes, Jobs
  <2>3. /\ again' \in BOOLEAN /\ ready' \subseteq Pull /\ seen' \subseteq Pull
        /\ tracked' \in BOOLEAN /\ verified' \subseteq Pull \X Heads /\ faults' \in 0..MaxFaults
    BY <1>1, <1>4, FaultCounted DEF ClosureInv, ClosureTypes
  <2>4. /\ job'.why = "merged" => SomeMerged
        /\ setup.github /\ job'.merged => SomeMerged
    BY <2>2 DEF ClosureInv, Evidence
  <2> QED
    BY <1>1, <2>1, <2>2, <2>3, <2>4, JobStep
<1> QED
  BY <1>2, <1>3, <1>4 DEF WaitForMergeReady

LEMMA VerifyStep ==
    ASSUME ClosureInv, Verify
    PROVE  ClosureInv'
<1>1. /\ UNCHANGED <<setup, providerVars, issue, tracked, seen, advanced, faults>>
      /\ job.at = "verify" /\ faults' \in 0..MaxFaults
  BY DEF Verify, ClosureInv, ClosureTypes
<1>2. CASE Refuses /\ UNCHANGED verified
  BY <1>1, <1>2, RefusesLess, LessStep
<1>3. CASE verified' = verified \cup {<<job.pull, job.head>>} /\ Goto("merge")
  <2>1. Reviewed(job.pull, job.head) /\ job.pull \in Pull /\ job.head \in Heads
    BY <1>1, PullFields DEF ClosureInv, ClosureTypes, Approval, Reviewed
  <2>2. /\ job' \in Jobs /\ job'.at = "merge" /\ job'.why = job.why /\ job'.merged = job.merged
        /\ job'.pull = job.pull /\ job'.head = job.head
        /\ again' \in BOOLEAN /\ ready' \subseteq Pull
    BY <1>3, GotoJob
  <2>3. /\ seen' \subseteq Pull /\ tracked' \in BOOLEAN /\ verified' \subseteq Pull \X Heads
    BY <1>1, <1>3, <2>1 DEF ClosureInv, ClosureTypes
  <2>4. /\ job'.why = "merged" => SomeMerged
        /\ setup.github /\ job'.merged => SomeMerged
    BY <2>2 DEF ClosureInv, Evidence
  <2> QED
    BY <1>1, <1>3, <2>1, <2>2, <2>3, <2>4, JobStep
<1> QED
  BY <1>2, <1>3 DEF Verify

LEMMA MergeStep ==
    ASSUME ClosureInv, Merge
    PROVE  ClosureInv'
<1> DEFINE p == job.pull
<1>1. /\ UNCHANGED <<setup, mirror, event, issue, tracked, seen, advanced, verified>>
      /\ job.at = "merge"
  BY DEF Merge
<1>2. /\ pull \in [Pull -> Pulls] /\ p \in Pull /\ pull[p] \in Pulls
      /\ Passed(p, job.head) /\ job.head \in 0..MaxHead
      /\ queued \in [Pull -> 0..MaxHead] /\ landed \in [Pull -> 0..MaxHead]
  BY <1>1, JobFields DEF ClosureInv, ClosureTypes, Approval, Passed, Reviewed
<1>3. CASE ~Matches(p) /\ NoFault /\ Refuses /\ UNCHANGED <<pull, queued, landed>>
  <2>1. UNCHANGED providerVars
    BY <1>1, <1>3 DEF providerVars
  <2> QED
    BY <1>1, <1>3, <2>1, FaultCounted, RefusesLess, LessStep
<1>4. CASE /\ Matches(p)
           /\ \/ /\ pull' = [pull EXCEPT ![p].state = "merged"]
                 /\ landed' = [landed EXCEPT ![p] = pull[p].head]
                 /\ UNCHANGED queued
              \/ /\ queued' = [queued EXCEPT ![p] = pull[p].head]
                 /\ UNCHANGED <<pull, landed>>
           /\ \/ NoFault /\ Goto("confirm")
              \/ Fault /\ Refuses
  <2>1. Less /\ faults' \in 0..MaxFaults
    BY <1>4, FaultCounted, GoesLess, RefusesLess
  <2>2. PICK y \in Pulls : Wider(pull[p], y) /\ pull' = [pull EXCEPT ![p] = y]
    <3>1. CASE pull' = [pull EXCEPT ![p].state = "merged"]
      <4> DEFINE z == [pull[p] EXCEPT !.state = "merged"]
      <4>1. z \in Pulls
        BY <1>2, StateChanged
      <4>2. Wider(pull[p], z)
        BY <1>2 DEF Wider, Pulls
      <4>3. pull' = [pull EXCEPT ![p] = z]
        BY <3>1
      <4> QED
        BY <4>1, <4>2, <4>3
    <3>2. CASE pull' = pull
      BY <1>2, <3>2 DEF Wider
    <3> QED
      BY <1>4, <3>1, <3>2
  <2>3. /\ pull' \in [Pull -> Pulls]
        /\ \A q \in Pull : Wider(mirror[q], pull'[q])
        /\ SomeMerged => SomeMerged'
        /\ \A q, h : Reviewed(q, h) => Reviewed(q, h)'
    BY <1>2, <2>2, Grows
  <2>4. \A q, h : Passed(q, h) => Passed(q, h)'
    BY <1>1, <2>3 DEF Passed
  <2>5. pull[p].head = job.head
    BY <1>4 DEF Matches
  <2>6. /\ queued' \in [Pull -> 0..MaxHead] /\ landed' \in [Pull -> 0..MaxHead]
        /\ \A q \in Pull : queued'[q] # queued[q] => q = p /\ queued'[q] = job.head
        /\ \A q \in Pull : landed'[q] # landed[q] => q = p /\ landed'[q] = job.head
    BY <1>2, <1>4, <2>5
  <2>7. ClosureTypes'
    BY <1>1, <2>1, <2>3, <2>6 DEF ClosureInv, ClosureTypes, Less
  <2>8. Evidence'
    BY <1>1, <2>1, <2>3 DEF ClosureInv, Evidence, Less
  <2>9. Approval'
    <3>1. (\A q \in Pull : queued[q] # 0 => Passed(q, queued[q]))'
      BY <1>2, <2>4, <2>6 DEF ClosureInv, Approval
    <3>2. (\A q \in Pull : landed[q] # 0 => Passed(q, landed[q]))'
      BY <1>2, <2>4, <2>6 DEF ClosureInv, Approval
    <3> QED
      BY <2>1, <3>1, <3>2 DEF Approval, Less
  <2>10. (\A q \in Pull : Wider(mirror[q], pull[q]))'
    BY <1>1, <2>3
  <2> QED
    BY <2>7, <2>8, <2>9, <2>10 DEF ClosureInv
<1> QED
  BY <1>3, <1>4 DEF Merge

LEMMA ConfirmStep ==
    ASSUME ClosureInv, Confirm
    PROVE  ClosureInv'
<1>1. UNCHANGED <<setup, providerVars, issue, tracked, again, readinessVars, advanced, verified,
                  faults>>
  BY DEF Confirm
<1>2. PICK p \in Pull :
          job' = [job EXCEPT !.at = "write",
                             !.merged = IF setup.github THEN ObservedMerged(p) ELSE TRUE]
  BY DEF Confirm
<1> DEFINE m == IF setup.github THEN ObservedMerged(p) ELSE TRUE
<1>3. m \in BOOLEAN /\ (setup.github /\ m => SomeMerged)
  BY ObservedIsMerged DEF ObservedMerged
<1>4. job' = [[job EXCEPT !.at = "write"] EXCEPT !.merged = m]
  BY <1>2 DEF ClosureInv, ClosureTypes, Jobs
<1> HIDE DEF m
<1>5. job' \in Jobs /\ job'.at = "write" /\ job'.merged = m /\ job'.why = job.why
  BY <1>3, <1>4 DEF ClosureInv, ClosureTypes, Jobs
<1>6. /\ again' \in BOOLEAN /\ ready' \subseteq Pull /\ seen' \subseteq Pull
      /\ tracked' \in BOOLEAN /\ verified' \subseteq Pull \X Heads /\ faults' \in 0..MaxFaults
      /\ UNCHANGED <<setup, providerVars, issue, advanced>> /\ verified' = verified
  BY <1>1 DEF ClosureInv, ClosureTypes, readinessVars
<1>7. job'.why = "merged" => SomeMerged
  BY <1>5 DEF ClosureInv, Evidence
<1> QED
  BY <1>3, <1>5, <1>6, <1>7, JobStep

LEMMA WriteStep ==
    ASSUME ClosureInv, Write
    PROVE  ClosureInv'
<1>1. UNCHANGED <<setup, providerVars, tracked, seen, advanced, verified>>
  BY DEF Write
<1>2. CASE Fault /\ Leave(TRUE) /\ UNCHANGED issue
  BY <1>1, <1>2, FaultCounted, LeavesLess, LessStep
<1>3. CASE /\ NoFault /\ Goto("release")
           /\ issue' = IF ParksForReview \/ (setup.github /\ ~job.merged)
                         THEN "review" ELSE "closed"
  <2>1. /\ job' \in Jobs /\ job'.at = "release" /\ job'.why = job.why
        /\ job'.merged = job.merged /\ again' \in BOOLEAN /\ ready' \subseteq Pull
    BY <1>3, GotoJob
  <2>2. ClosureTypes'
    <3>1. /\ seen' \subseteq Pull /\ tracked' \in BOOLEAN /\ advanced' \subseteq Pull
          /\ verified' \subseteq Pull \X Heads /\ faults' \in 0..MaxFaults
          /\ issue' \in {"open", "review", "closed"} /\ UNCHANGED <<setup, providerVars>>
      BY <1>1, <1>3, FaultCounted DEF ClosureInv, ClosureTypes
    <3> QED
      BY <2>1, <3>1, ProgramTypes
  <2>3. Evidence'
    BY <1>1, <1>3, <2>1 DEF ClosureInv, Evidence, SomeMerged, providerVars
  <2>4. verified \subseteq verified' /\ UNCHANGED providerVars
    BY <1>1
  <2> QED
    BY <2>1, <2>2, <2>3, <2>4, ProgramStep
<1> QED
  BY <1>2, <1>3 DEF Write

LEMMA ReleaseStep ==
    ASSUME ClosureInv, Release
    PROVE  ClosureInv'
<1>1. /\ UNCHANGED <<setup, providerVars, issue, seen, advanced, verified, faults>>
      /\ tracked' = FALSE /\ Leave(FALSE)
  BY DEF Release
<1>2. Less
  BY <1>1, LeavesLess
<1>3. /\ seen' \subseteq Pull /\ tracked' \in BOOLEAN /\ verified' \subseteq Pull \X Heads
      /\ faults' \in 0..MaxFaults /\ UNCHANGED <<setup, providerVars, issue, advanced>>
      /\ verified' = verified
  BY <1>1 DEF ClosureInv, ClosureTypes
<1>4. /\ job'.why = "merged" => SomeMerged
      /\ setup.github /\ job'.merged => SomeMerged
  BY <1>2 DEF Less, ClosureInv, Evidence
<1> QED
  BY <1>2, <1>3, <1>4, JobStep DEF Less

-----------------------------------------------------------------------------
(* Signals and webhooks *)

LEMMA ReadSignalStep ==
    ASSUME ClosureInv, NEW p \in Pull, ReadSignal(p)
    PROVE  ClosureInv'
<1>1. /\ UNCHANGED <<setup, providerVars, issue, tracked, again, job, ready, advanced, verified,
                     faults>>
      /\ seen' = seen \cup {p}
  BY DEF ReadSignal
<1>2. ClosureTypes'
  BY <1>1 DEF ClosureInv, ClosureTypes, providerVars
<1>3. Evidence' /\ Approval' /\ (\A q \in Pull : Wider(mirror[q], pull[q]))'
  BY <1>1 DEF ClosureInv, Evidence, Approval, SomeMerged, Passed, Reviewed, providerVars
<1> QED
  BY <1>2, <1>3 DEF ClosureInv

LEMMA AddReadyStep ==
    ASSUME ClosureInv, NEW p \in Pull, AddReady(p)
    PROVE  ClosureInv'
<1>1. /\ UNCHANGED <<setup, providerVars, issue, tracked, again, advanced, verified, faults>>
      /\ seen' = seen \ {p} /\ ready' = ready \cup {p} /\ (Completes("agents") \/ UNCHANGED job)
  BY DEF AddReady
<1>2. /\ again' \in BOOLEAN /\ ready' \subseteq Pull /\ seen' \subseteq Pull
      /\ tracked' \in BOOLEAN /\ faults' \in 0..MaxFaults /\ verified' \subseteq Pull \X Heads
      /\ UNCHANGED <<setup, providerVars, issue, advanced>> /\ verified' = verified
  BY <1>1 DEF ClosureInv, ClosureTypes
<1>3. /\ job' \in Jobs
      /\ job'.why = "merged" => SomeMerged
      /\ setup.github /\ job'.merged => SomeMerged
      /\ job'.at \in {"verify", "merge"} => Reviewed(job'.pull, job'.head)
      /\ job'.at = "merge" => <<job'.pull, job'.head>> \in verified
  <2>1. CASE Completes("agents")
    BY <2>1, Starts
  <2>2. CASE UNCHANGED job
    BY <2>2 DEF ClosureInv, ClosureTypes, Evidence, Approval
  <2> QED
    BY <1>1, <2>1, <2>2
<1> QED
  BY <1>2, <1>3, JobStep

(* An event is handled: GitHub and its copy stand still.                   *)
LEMMA EventStep ==
    ASSUME ClosureInv, UNCHANGED <<setup, pull, mirror, queued, landed, issue, tracked, again,
                                   seen, verified>>,
           event' \subseteq event, ready' \subseteq ready, faults' \in 0..MaxFaults,
           advanced' \subseteq Pull, advanced' # {} => SomeMerged,
           job' \in Jobs,
           job'.why = "merged" => SomeMerged,
           setup.github /\ job'.merged => SomeMerged,
           job'.at \in {"verify", "merge"} => Reviewed(job'.pull, job'.head),
           job'.at = "merge" => <<job'.pull, job'.head>> \in verified
    PROVE  ClosureInv'
<1>1. ClosureTypes'
  BY DEF ClosureInv, ClosureTypes
<1>2. Evidence'
  BY DEF ClosureInv, Evidence, SomeMerged
<1>3. Approval'
  BY DEF ClosureInv, Approval, Passed, Reviewed
<1> QED
  BY <1>1, <1>2, <1>3 DEF ClosureInv

(* What the events need of a job that stays as it is.                      *)
LEMMA JobStays ==
    ASSUME ClosureInv, UNCHANGED job
    PROVE  /\ job' \in Jobs
           /\ job'.why = "merged" => SomeMerged
           /\ setup.github /\ job'.merged => SomeMerged
           /\ job'.at \in {"verify", "merge"} => Reviewed(job'.pull, job'.head)
           /\ job'.at = "merge" => <<job'.pull, job'.head>> \in verified
BY DEF ClosureInv, ClosureTypes, Evidence, Approval

LEMMA OtherEventStep ==
    ASSUME ClosureInv, NEW p \in Pull, OtherEvent(p)
    PROVE  ClosureInv'
<1>1. /\ UNCHANGED <<setup, pull, mirror, queued, landed, issue, tracked, again, seen, verified>>
      /\ UNCHANGED job /\ event' \subseteq event /\ ready' \subseteq ready
      /\ faults' \in 0..MaxFaults /\ advanced' \subseteq Pull /\ (advanced' # {} => SomeMerged)
  BY DEF OtherEvent, ClosureInv, ClosureTypes, Evidence
<1> QED
  BY <1>1, JobStays, EventStep

LEMMA TrackedStep ==
    ASSUME ClosureInv, NEW p \in Pull, MergedWhileTracked(p)
    PROVE  ClosureInv'
<1>1. SomeMerged
  BY ObservedIsMerged DEF MergedWhileTracked, ObservedMerged
<1>2. /\ UNCHANGED <<setup, pull, mirror, queued, landed, issue, tracked, again, seen, verified>>
      /\ event' \subseteq event /\ ready' \subseteq ready
      /\ advanced' \subseteq Pull /\ (advanced' # {} => SomeMerged)
      /\ UNCHANGED job \/ Completes("merged")
  BY DEF MergedWhileTracked, ClosureInv, ClosureTypes, Evidence, readinessVars
<1>3. faults' \in 0..MaxFaults
  BY FaultCounted DEF MergedWhileTracked
<1>4. CASE UNCHANGED job
  BY <1>2, <1>3, <1>4, JobStays, EventStep
<1>5. CASE Completes("merged")
  <2>1. /\ job' \in Jobs
        /\ job'.why = "merged" => SomeMerged
        /\ setup.github /\ job'.merged => SomeMerged
        /\ job'.at \in {"verify", "merge"} => Reviewed(job'.pull, job'.head)
        /\ job'.at = "merge" => <<job'.pull, job'.head>> \in verified
    BY <1>1, <1>5, Starts
  <2> QED
    BY <1>2, <1>3, <2>1, EventStep
<1> QED
  BY <1>2, <1>4, <1>5

LEMMA UntrackedStep ==
    ASSUME ClosureInv, NEW p \in Pull, MergedWhileUntracked(p)
    PROVE  ClosureInv'
<1>1. SomeMerged
  BY ObservedIsMerged DEF MergedWhileUntracked, ObservedMerged
<1>2. /\ UNCHANGED <<setup, pull, mirror, queued, landed, issue, tracked, again, seen, verified>>
      /\ UNCHANGED job /\ event' \subseteq event /\ ready' \subseteq ready
      /\ faults' \in 0..MaxFaults /\ advanced' \subseteq Pull
  BY DEF MergedWhileUntracked, ClosureInv, ClosureTypes, readinessVars
<1> QED
  BY <1>1, <1>2, JobStays, EventStep

LEMMA AdvanceStep ==
    ASSUME ClosureInv, NEW p \in Pull, AdvanceWrites(p)
    PROVE  ClosureInv'
<1>1. /\ UNCHANGED <<setup, providerVars, tracked, again, job, readinessVars, verified>>
      /\ p \in advanced /\ advanced' \subseteq advanced /\ issue' \in {issue, "closed"}
      /\ faults' \in 0..MaxFaults
  BY FaultCounted DEF AdvanceWrites
<1>2. SomeMerged
  BY <1>1 DEF ClosureInv, Evidence
<1>3. ClosureTypes'
  BY <1>1 DEF ClosureInv, ClosureTypes, providerVars, readinessVars
<1>4. Evidence'
  BY <1>1, <1>2 DEF Evidence, SomeMerged, providerVars
<1>5. Approval' /\ (\A q \in Pull : Wider(mirror[q], pull[q]))'
  BY <1>1 DEF ClosureInv, Approval, Passed, Reviewed, providerVars
<1> QED
  BY <1>3, <1>4, <1>5 DEF ClosureInv

-----------------------------------------------------------------------------
(* The theorems *)

LEMMA InitInv == ClosureInit => ClosureInv
<1> SUFFICES ASSUME ClosureInit PROVE ClosureInv
  OBVIOUS
<1>1. pull \in [Pull -> Pulls] /\ mirror = pull
  BY ClosureAssumption DEF ClosureInit, Pulls, Heads
<1>2. ClosureTypes
  <2>1. job \in Jobs
    BY IdleJob DEF ClosureInit
  <2>2. faults \in 0..MaxFaults /\ 0 \in 0..MaxHead
    BY ClosureAssumption DEF ClosureInit
  <2>3. queued \in [Pull -> 0..MaxHead] /\ landed \in [Pull -> 0..MaxHead]
    BY <2>2 DEF ClosureInit
  <2> QED
    BY <1>1, <2>1, <2>2, <2>3 DEF ClosureInit, ClosureTypes
<1>3. Evidence /\ Approval
  BY IdleJob DEF ClosureInit, Evidence, Approval
<1>4. \A p \in Pull : Wider(mirror[p], pull[p])
  BY <1>1 DEF Wider
<1> QED
  BY <1>2, <1>3, <1>4 DEF ClosureInv

LEMMA NextInv == ClosureInv /\ [ClosureNext]_closureVars => ClosureInv'
<1> SUFFICES ASSUME ClosureInv, [ClosureNext]_closureVars PROVE ClosureInv'
  OBVIOUS
<1>1. CASE Completion
  BY <1>1, AgentsCompleteStep, ObserveStep, GateStep, VerifyStep, MergeStep, ConfirmStep,
     WriteStep, ReleaseStep DEF Completion
<1>2. ASSUME NEW p \in Pull,
             Push(p) \/ Review(p) \/ Decide(p) \/ QueueMerges(p) \/ Sync(p) \/ Redeliver(p)
      PROVE  ClosureInv'
  BY <1>2, PushStep, ReviewStep, DecideStep, QueueMergesStep, SyncStep, RedeliverStep
<1>3. ASSUME NEW p \in Pull,
             \/ ReadSignal(p) \/ AddReady(p) \/ OtherEvent(p) \/ MergedWhileTracked(p)
             \/ MergedWhileUntracked(p) \/ AdvanceWrites(p)
      PROVE  ClosureInv'
  BY <1>3, ReadSignalStep, AddReadyStep, OtherEventStep, TrackedStep, UntrackedStep, AdvanceStep
<1>4. CASE UNCHANGED closureVars
  BY <1>4 DEF ClosureInv, ClosureTypes, Evidence, Approval, SomeMerged, Passed, Reviewed,
              closureVars
<1> QED
  BY <1>1, <1>2, <1>3, <1>4 DEF ClosureNext

LEMMA InvAlways == ClosureSpec => []ClosureInv
BY InitInv, NextInv, PTL DEF ClosureSpec

(***************************************************************************)
(* What GitHub and its copy, the completion, the signals and the events    *)
(* are made of stays of its type.                                          *)
(***************************************************************************)
THEOREM ClosureTyped == ClosureSpec => []ClosureTypes
<1>1. ClosureInv => ClosureTypes
  BY DEF ClosureInv
<1> QED
  BY <1>1, InvAlways, PTL

(***************************************************************************)
(* A GitHub issue is closed only when a pull request of it is merged, and  *)
(* what the gate merges, at once or from a queue, is the commit that was   *)
(* reviewed, green and verified: whatever is pushed, decided and merged by *)
(* others meanwhile, however late the mounted copy is, and whichever calls *)
(* fail or webhooks come twice.                                            *)
(***************************************************************************)
THEOREM ClosedAsMerged == ClosureSpec => []ClosesWhatMerged
<1>1. ClosureInv => ClosesWhatMerged
  BY DEF ClosureInv, Evidence, Approval, Passed, Reviewed, SomeMerged, ClosesWhatMerged,
         ClosesOnlyMerged, MergedAsVerified
<1> QED
  BY <1>1, InvAlways, PTL

-----------------------------------------------------------------------------
(***************************************************************************)
(* Events.  An event that was written and is neither in the outbox nor in  *)
(* the Cloud was counted among the dropped, for any number of processes,   *)
(* events and faults and every capacity of the outbox: what a process      *)
(* takes out of the outbox it was seen to send, or it counts.              *)
(***************************************************************************)

-----------------------------------------------------------------------------
(* Cloud events: the inductive invariant                                   *)

Lost == Written \ (box \cup accepted)

(* What a flush is about to acknowledge is in the Cloud.                   *)
BatchDelivered == \A p \in Proc : flushAt[p] = "ack" => batch[p] \subseteq accepted

EventInv ==
    /\ EventTypes
    /\ BatchDelivered
    /\ NoSilentLoss

-----------------------------------------------------------------------------
(* Finite sets of events                                                   *)

LEMMA EventsAreFinite ==
    ASSUME NEW S \in SUBSET Event
    PROVE  IsFiniteSet(S) /\ Cardinality(S) \in Nat
BY EventAssumption, FS_Subset, FS_CardinalityType

LEMMA FewerEvents ==
    ASSUME NEW S \in SUBSET Event, NEW T \in SUBSET S
    PROVE  Cardinality(T) <= Cardinality(S)
BY EventsAreFinite, FS_Subset

LEMMA NoMoreThanBoth ==
    ASSUME NEW A \in SUBSET Event, NEW B \in SUBSET Event, NEW C \in SUBSET (A \cup B)
    PROVE  Cardinality(C) <= Cardinality(A) + Cardinality(B)
<1>1. Cardinality(A \cup B) = Cardinality(A) + Cardinality(B) - Cardinality(A \cap B)
  BY EventsAreFinite, FS_Union
<1>2. /\ Cardinality(A) \in Nat /\ Cardinality(B) \in Nat
      /\ Cardinality(C) \in Nat /\ Cardinality(A \cap B) \in Nat
  BY EventsAreFinite
<1>3. Cardinality(C) <= Cardinality(A \cup B)
  BY FewerEvents
<1> QED
  BY <1>1, <1>2, <1>3

LEMMA LeastNatural ==
    ASSUME NEW T \in SUBSET Nat, T # {}
    PROVE  \E m \in T : \A n \in T : m <= n
<1>1. PICK m \in T : \A n \in T : ~(<<n, m>> \in OpToRel(<, Nat))
  BY NatLessThanWellFounded, WFMin
<1>2. \A n \in T : ~(n < m)
  BY <1>1 DEF OpToRel
<1> QED
  BY <1>2

(* There is an oldest of some events.                                      *)
LEMMA SomethingIsOldest ==
    ASSUME NEW order \in [Event -> Nat], NEW from \in SUBSET Event, from # {}
    PROVE  Oldest(from, order) # {} /\ Oldest(from, order) \subseteq from
<1> DEFINE orders == {order[e] : e \in from}
<1>1. orders \in SUBSET Nat /\ orders # {}
  OBVIOUS
<1>2. PICK m \in orders : \A n \in orders : m <= n
  BY <1>1, LeastNatural
<1>3. PICK e \in from : order[e] = m
  BY <1>2
<1> QED
  BY <1>2, <1>3 DEF Oldest

LEMMA SomeVictim ==
    ASSUME NEW order \in [Event -> Nat], NEW entries \in SUBSET Event, entries # {}
    PROVE  Victims(entries, order) # {} /\ Victims(entries, order) \subseteq entries
<1> DEFINE from == IF entries \subseteq Critical THEN entries ELSE entries \ Critical
<1>1. from \in SUBSET Event /\ from # {} /\ from \subseteq entries
  OBVIOUS
<1> HIDE DEF from
<1>2. Oldest(from, order) # {} /\ Oldest(from, order) \subseteq from
  BY <1>1, SomethingIsOldest
<1>3. Victims(entries, order) = Oldest(from, order)
  BY DEF Victims, from
<1> QED
  BY <1>1, <1>2, <1>3

-----------------------------------------------------------------------------

LEMMA EventInitInv == EventInit => EventInv
<1> SUFFICES ASSUME EventInit PROVE EventInv
  OBVIOUS
<1> USE DEF EventInit
<1>1. Cardinality({}) = 0 /\ MaxEvents \in Nat
  BY FS_EmptySet, EventAssumption
<1>2. EventTypes
  BY <1>1, EventAssumption DEF EventTypes, FlushStages
<1>3. BatchDelivered
  BY DEF BatchDelivered
<1>4. Written = {}
  BY DEF Written
<1>5. NoSilentLoss
  BY <1>1, <1>4 DEF NoSilentLoss
<1> QED
  BY <1>2, <1>3, <1>5 DEF EventInv

LEMMA EventFaultsTyped ==
    ASSUME EventTypes, EventFails \/ EventWorks
    PROVE  eventFaults' \in 0 .. MaxEventFaults
BY EventAssumption DEF EventTypes, EventFails, EventWorks

(* A step that takes nothing out of the outbox loses nothing.              *)
LEMMA NothingLost ==
    ASSUME EventInv, UNCHANGED <<box, origin, dropped>>,
           accepted' \in SUBSET Event, accepted \subseteq accepted'
    PROVE  NoSilentLoss'
<1>1. Written' = Written
  BY DEF Written
<1>2. Written \in SUBSET Event
  BY DEF Written
<1>3. Cardinality(Written \ (box \cup accepted')) <= Cardinality(Written \ (box \cup accepted))
  BY <1>2, FewerEvents
<1>4. /\ Cardinality(Written \ (box \cup accepted')) \in Nat
      /\ Cardinality(Written \ (box \cup accepted)) \in Nat /\ dropped \in Nat
  BY <1>2, EventsAreFinite DEF EventInv, EventTypes
<1> QED
  BY <1>1, <1>3, <1>4 DEF EventInv, NoSilentLoss

(* A step that counts what it takes out loses nothing without a count.     *)
LEMMA LossCounted ==
    ASSUME EventInv, NEW gone \in SUBSET Event, UNCHANGED accepted,
           dropped' = dropped + Cardinality(gone),
           Lost' \in SUBSET (Lost \cup gone)
    PROVE  NoSilentLoss' /\ dropped' \in Nat
<1>1. Lost \in SUBSET Event
  BY DEF Lost, Written
<1>2. Cardinality(Lost') <= Cardinality(Lost) + Cardinality(gone)
  BY <1>1, NoMoreThanBoth
<1>3. Lost' \in SUBSET Event
  BY <1>1
<1>4. /\ Cardinality(Lost') \in Nat /\ Cardinality(Lost) \in Nat /\ Cardinality(gone) \in Nat
      /\ dropped \in Nat
  BY <1>1, <1>3, EventsAreFinite DEF EventInv, EventTypes
<1>5. Cardinality(Lost) <= dropped
  BY DEF EventInv, NoSilentLoss, Lost
<1>6. Cardinality(Lost') <= dropped' /\ dropped' \in Nat
  BY <1>2, <1>4, <1>5
<1> QED
  BY <1>6 DEF NoSilentLoss, Lost

LEMMA EnqueuesInv ==
    ASSUME EventInv, NEW p \in Proc, NEW e \in Event, Enqueues(p, e), UNCHANGED accepted,
           origin[e] = Nobody
    PROVE  /\ box' \in SUBSET Event /\ Cardinality(box') <= MaxEvents
           /\ place' \in [Event -> Nat] /\ dropped' \in Nat
           /\ origin' \in [Event -> Proc \cup {Nobody}]
           /\ NoSilentLoss'
<1> USE DEF EventInv
<1>1. CASE UNCHANGED boxVars
  BY <1>1, NothingLost DEF boxVars, EventTypes
<1>2. CASE ~UNCHANGED boxVars
  <2> DEFINE entries == box \cup {e}
             gone == IF Overfull(e) THEN Victims(entries, place') ELSE {}
  <2>1. /\ origin' = [origin EXCEPT ![e] = p]
        /\ place' = [place EXCEPT ![e] = Cardinality(Written) + 1]
        /\ box' = entries \ gone /\ dropped' = dropped + Cardinality(gone)
    BY <1>2 DEF Enqueues
  <2>2. entries \in SUBSET Event /\ entries # {}
    BY DEF EventTypes
  <2>3. place' \in [Event -> Nat]
    <3>1. Written \in SUBSET Event
      BY DEF Written
    <3>2. Cardinality(Written) + 1 \in Nat
      BY <3>1, EventsAreFinite
    <3> QED
      BY <2>1, <3>2 DEF EventTypes
  <2>4. Victims(entries, place') # {} /\ Victims(entries, place') \subseteq entries
    BY <2>2, <2>3, SomeVictim
  <2>5. gone \in SUBSET entries /\ (Overfull(e) => gone # {})
    BY <2>4
  <2>6. Cardinality(entries) = Cardinality(box) + 1 \/ Cardinality(entries) = Cardinality(box)
    BY EventsAreFinite, FS_AddElement DEF EventTypes
  <2>7. Overfull(e) <=> Cardinality(entries) > MaxEvents
    BY DEF Overfull
  <2> HIDE DEF gone, entries
  <2>8. /\ box' \in SUBSET Event /\ gone \in SUBSET Event
        /\ Cardinality(box) \in Nat /\ Cardinality(entries) \in Nat
        /\ Cardinality(box') \in Nat /\ MaxEvents \in Nat /\ Cardinality(box) <= MaxEvents
    BY <2>1, <2>2, <2>5, EventsAreFinite, EventAssumption DEF EventTypes
  <2>9. Cardinality(box') <= MaxEvents
    <3>1. CASE ~Overfull(e)
      <4>1. Cardinality(box') <= Cardinality(entries)
        BY <2>1, <2>2, FewerEvents
      <4> QED
        BY <2>7, <2>8, <3>1, <4>1
    <3>2. CASE Overfull(e)
      <4>1. PICK f \in gone : f \in entries
        BY <2>5, <3>2
      <4>2. Cardinality(entries \ {f}) = Cardinality(entries) - 1
        BY <2>2, <4>1, EventsAreFinite, FS_RemoveElement
      <4>3. box' \in SUBSET (entries \ {f}) /\ entries \ {f} \in SUBSET Event
        BY <2>1, <2>2, <4>1
      <4>4. Cardinality(box') <= Cardinality(entries \ {f})
        BY <4>3, FewerEvents
      <4> QED
        BY <2>6, <2>8, <4>2, <4>4
    <3> QED
      BY <3>1, <3>2
  <2>10. origin' \in [Event -> Proc \cup {Nobody}]
    BY <2>1 DEF EventTypes
  <2>11. Lost' \in SUBSET (Lost \cup gone)
    <3>1. Written' \subseteq Written \cup {e}
      BY <2>1 DEF Written, EventTypes
    <3> QED
      BY <2>1, <3>1 DEF Lost, entries
  <2>12. NoSilentLoss' /\ dropped' \in Nat
    BY <2>1, <2>8, <2>11, LossCounted
  <2> QED
    BY <2>3, <2>8, <2>9, <2>10, <2>12
<1> QED
  BY <1>1, <1>2

LEMMA ReportInv ==
    ASSUME EventInv, NEW p \in Proc, NEW e \in Event, Report(p, e)
    PROVE  EventInv'
<1> USE DEF EventInv
<1>1. /\ UNCHANGED <<accepted, open, flushAt, batch, recheck>> /\ origin[e] = Nobody
      /\ eventFaults' \in 0 .. MaxEventFaults
  BY EventFaultsTyped DEF Report
<1>2. BatchDelivered'
  BY <1>1 DEF BatchDelivered
<1>3. CASE Enqueues(p, e) /\ retryAt' = Scheduled(p)
  <2>1. retryAt' \in [Proc -> BOOLEAN]
    BY <1>3 DEF Scheduled, EventTypes
  <2> QED
    BY <1>1, <1>2, <1>3, <2>1, EnqueuesInv DEF EventTypes
<1>4. CASE UNCHANGED <<boxVars, retryAt>>
  BY <1>1, <1>2, <1>4, NothingLost DEF EventTypes, boxVars
<1> QED
  BY <1>3, <1>4 DEF Report

-----------------------------------------------------------------------------
(* Flushes *)

LEMMA FlushMoves ==
    ASSUME EventTypes, NEW p \in Proc, NEW to \in FlushStages, FlushAt(p, to)
    PROVE  /\ flushAt' \in [Proc -> FlushStages]
           /\ \A q \in Proc : flushAt'[q] = IF q = p THEN to ELSE flushAt[q]
BY DEF EventTypes, FlushAt

LEMMA TimerTyped ==
    ASSUME EventTypes, NEW p \in Proc, retryAt' = Scheduled(p) \/ UNCHANGED retryAt
    PROVE  retryAt' \in [Proc -> BOOLEAN]
BY DEF EventTypes, Scheduled

(* Timers and closing leave the outbox and the Cloud alone.                *)
LEMMA NothingTaken ==
    ASSUME EventInv, UNCHANGED <<boxVars, accepted>>,
           open' \in [Proc -> {"open", "closing", "closed", "crashed"}],
           retryAt' \in [Proc -> BOOLEAN], recheck' \in [Proc -> BOOLEAN],
           flushAt' \in [Proc -> FlushStages], batch' \in [Proc -> SUBSET Event],
           eventFaults' \in 0 .. MaxEventFaults,
           \A p \in Proc : flushAt'[p] = "ack" =>
             flushAt[p] = "ack" /\ batch'[p] \subseteq batch[p]
    PROVE  EventInv'
<1> USE DEF EventInv
<1>1. EventTypes'
  BY DEF EventTypes, boxVars
<1>2. NoSilentLoss'
  BY NothingLost DEF boxVars, EventTypes
<1>3. BatchDelivered'
  BY DEF BatchDelivered
<1> QED
  BY <1>1, <1>2, <1>3

LEMMA TimerFiresInv ==
    ASSUME EventInv, NEW p \in Proc, TimerFires(p)
    PROVE  EventInv'
<1>1. flushAt' \in [Proc -> FlushStages] /\ retryAt' \in [Proc -> BOOLEAN]
  BY DEF TimerFires, EventInv, EventTypes, FlushStages
<1>2. \A q \in Proc : flushAt'[q] = "ack" => flushAt[q] = "ack" /\ batch'[q] \subseteq batch[q]
  BY DEF TimerFires, EventInv, EventTypes
<1> QED
  BY <1>1, <1>2, NothingTaken DEF TimerFires, EventInv, EventTypes

LEMMA PeekInv ==
    ASSUME EventInv, NEW p \in Proc, Peek(p)
    PROVE  EventInv'
<1> USE DEF EventInv
<1>1. /\ UNCHANGED <<boxVars, accepted, open, recheck>> /\ eventFaults' \in 0 .. MaxEventFaults
  BY EventFaultsTyped DEF Peek
<1>2. retryAt' \in [Proc -> BOOLEAN]
  BY TimerTyped DEF Peek, GivesUp
<1>3. PICK to \in {"settle", "send"} : FlushAt(p, to)
  BY DEF Peek, GivesUp
<1>4. batch' \in [Proc -> SUBSET Event] /\ \A q \in Proc \ {p} : batch'[q] = batch[q]
  <2>1. \A some \in Batches : some \in SUBSET Event
    BY DEF Batches, EventTypes
  <2>2. CASE UNCHANGED batch
    BY <2>2 DEF EventTypes
  <2>3. CASE \E some \in Batches : batch' = [batch EXCEPT ![p] = some]
    BY <2>1, <2>3 DEF EventTypes
  <2> QED
    BY <2>2, <2>3 DEF Peek
<1>5. /\ flushAt' \in [Proc -> FlushStages]
      /\ \A q \in Proc : flushAt'[q] = IF q = p THEN to ELSE flushAt[q]
  BY <1>3, FlushMoves DEF FlushStages
<1> QED
  BY <1>1, <1>2, <1>4, <1>5, NothingTaken DEF EventTypes

(* Only a batch that the Cloud has is acknowledged.                        *)
LEMMA SendInv ==
    ASSUME EventInv, NEW p \in Proc, Send(p)
    PROVE  EventInv'
<1> USE DEF EventInv
<1>1. /\ UNCHANGED <<boxVars, open, batch, recheck>> /\ flushAt[p] = "send"
      /\ eventFaults' \in 0 .. MaxEventFaults
  BY EventFaultsTyped DEF Send, EventTypes, Delivered, Unheard, Incomplete, Rejected
<1>2. retryAt' \in [Proc -> BOOLEAN]
  BY TimerTyped DEF Send, Delivered, Unheard, Incomplete, Rejected, GivesUp
<1>3. batch[p] \in SUBSET Event /\ accepted \in SUBSET Event
  BY DEF EventTypes
<1>4. accepted' \in SUBSET Event /\ accepted \subseteq accepted'
  BY <1>3 DEF Send, Delivered, Unheard, Incomplete, Rejected
<1>5. \/ FlushAt(p, "ack") /\ accepted' = accepted \cup batch[p]
      \/ \E to \in {"settle", "discard"} : FlushAt(p, to)
      \/ UNCHANGED flushAt
  BY DEF Send, Delivered, Unheard, Incomplete, Rejected, GivesUp
<1>6. /\ flushAt' \in [Proc -> FlushStages]
      /\ \A q \in Proc : flushAt'[q] = "ack" =>
           flushAt[q] = "ack" \/ (q = p /\ batch[p] \subseteq accepted')
  BY <1>5, FlushMoves DEF FlushStages, EventTypes
<1>7. BatchDelivered'
  BY <1>1, <1>4, <1>6 DEF BatchDelivered
<1>8. NoSilentLoss'
  BY <1>1, <1>4, NothingLost DEF boxVars
<1> QED
  BY <1>1, <1>2, <1>4, <1>6, <1>7, <1>8 DEF EventTypes, boxVars

(* What is taken out has been delivered, or is counted.                    *)
LEMMA TakenOut ==
    ASSUME EventInv, NEW p \in Proc, NEW to \in {"peek", "settle"}, FlushAt(p, to),
           UNCHANGED <<place, origin, accepted, open, batch, recheck>>,
           NEW gone \in SUBSET Event, box' = box \ gone, retryAt' \in [Proc -> BOOLEAN],
           eventFaults' \in 0 .. MaxEventFaults,
           \/ gone \subseteq accepted /\ UNCHANGED dropped
           \/ dropped' = dropped + Cardinality(gone)
    PROVE  EventInv'
<1> USE DEF EventInv
<1>1. /\ flushAt' \in [Proc -> FlushStages]
      /\ \A q \in Proc : flushAt'[q] = IF q = p THEN to ELSE flushAt[q]
  BY FlushMoves DEF FlushStages
<1>2. Written' = Written
  BY DEF Written
<1>3. box' \in SUBSET Event /\ Cardinality(box') <= MaxEvents
  <2>1. box \in SUBSET Event /\ box' \in SUBSET box
    BY DEF EventTypes
  <2>2. Cardinality(box') <= Cardinality(box)
    BY <2>1, FewerEvents
  <2>3. Cardinality(box') \in Nat /\ Cardinality(box) \in Nat
    BY <2>1, EventsAreFinite
  <2> QED
    BY <2>1, <2>2, <2>3, EventAssumption DEF EventTypes
<1>4. NoSilentLoss' /\ dropped' \in Nat
  <2>1. CASE gone \subseteq accepted /\ UNCHANGED dropped
    <3>1. Lost' = Lost
      BY <1>2, <2>1 DEF Lost
    <3> QED
      BY <2>1, <3>1 DEF NoSilentLoss, Lost, EventTypes
  <2>2. CASE dropped' = dropped + Cardinality(gone)
    <3>1. Lost' \in SUBSET (Lost \cup gone)
      BY <1>2 DEF Lost
    <3> QED
      BY <2>2, <3>1, LossCounted
  <2> QED
    BY <2>1, <2>2
<1>5. BatchDelivered'
  BY <1>1 DEF BatchDelivered
<1> QED
  BY <1>1, <1>3, <1>4, <1>5 DEF EventTypes

LEMMA AcknowledgeInv ==
    ASSUME EventInv, NEW p \in Proc, Acknowledge(p)
    PROVE  EventInv'
<1> USE DEF EventInv
<1>1. /\ UNCHANGED <<place, dropped, origin, accepted, open, batch, recheck>>
      /\ flushAt[p] = "ack" /\ eventFaults' \in 0 .. MaxEventFaults
  BY EventFaultsTyped DEF Acknowledge
<1>2. batch[p] \in SUBSET Event /\ batch[p] \subseteq accepted
  BY <1>1 DEF BatchDelivered, EventTypes
<1>3. retryAt' \in [Proc -> BOOLEAN]
  BY TimerTyped DEF Acknowledge, GivesUp
<1>4. CASE box' = box \ batch[p] /\ FlushAt(p, "peek")
  BY <1>1, <1>2, <1>3, <1>4, TakenOut
<1>5. CASE FlushAt(p, "settle") /\ UNCHANGED box
  <2>1. box' = box \ {} /\ {} \in SUBSET Event /\ {} \subseteq accepted
    BY <1>5
  <2> QED
    BY <1>1, <1>3, <1>5, <2>1, TakenOut
<1> QED
  BY <1>4, <1>5 DEF Acknowledge, GivesUp

LEMMA DiscardInv ==
    ASSUME EventInv, NEW p \in Proc, Discard(p)
    PROVE  EventInv'
<1> USE DEF EventInv
<1>1. /\ UNCHANGED <<place, origin, accepted, open, batch, recheck>>
      /\ eventFaults' \in 0 .. MaxEventFaults
  BY EventFaultsTyped DEF Discard
<1>2. retryAt' \in [Proc -> BOOLEAN]
  BY TimerTyped DEF Discard, GivesUp
<1> DEFINE gone == batch[p] \cap box
<1>3. gone \in SUBSET Event
  BY DEF EventTypes
<1>4. PICK to \in {"peek", "settle"} : FlushAt(p, to)
  BY DEF Discard, GivesUp
<1>5. CASE box' = box \ gone /\ dropped' = dropped + Cardinality(gone)
  BY <1>1, <1>2, <1>3, <1>4, <1>5, TakenOut
<1>6. CASE UNCHANGED <<box, dropped>>
  <2>1. box' = box \ {} /\ {} \in SUBSET Event /\ {} \subseteq accepted
    BY <1>6
  <2> QED
    BY <1>1, <1>2, <1>4, <1>6, <2>1, TakenOut
<1> QED
  BY <1>5, <1>6 DEF Discard

LEMMA SettleInv ==
    ASSUME EventInv, NEW p \in Proc, Settle(p)
    PROVE  EventInv'
<1> USE DEF EventInv, Settle
<1>1. /\ flushAt' \in [Proc -> FlushStages]
      /\ \A q \in Proc : flushAt'[q] = IF q = p THEN "idle" ELSE flushAt[q]
  BY FlushMoves DEF FlushStages
<1>2. /\ batch' \in [Proc -> SUBSET Event] /\ recheck' \in [Proc -> BOOLEAN]
      /\ \A q \in Proc \ {p} : batch'[q] = batch[q]
  BY DEF EventTypes
<1> QED
  BY <1>1, <1>2, NothingTaken DEF EventTypes

LEMMA RecheckInv ==
    ASSUME EventInv, NEW p \in Proc, Recheck(p)
    PROVE  EventInv'
<1> USE DEF EventInv
<1>1. retryAt' \in [Proc -> BOOLEAN] /\ recheck' \in [Proc -> BOOLEAN]
  BY TimerTyped DEF Recheck, EventTypes
<1> QED
  BY <1>1, NothingTaken DEF Recheck, EventTypes

LEMMA EndsInv ==
    ASSUME EventInv, NEW p \in Proc, Close(p) \/ Closed(p) \/ Crash(p)
    PROVE  EventInv'
<1> USE DEF EventInv
<1>1. CASE Close(p)
  <2>1. /\ flushAt' \in [Proc -> FlushStages] /\ retryAt' \in [Proc -> BOOLEAN]
        /\ open' \in [Proc -> {"open", "closing", "closed", "crashed"}]
        /\ \A q \in Proc : flushAt'[q] = "ack" => flushAt[q] = "ack"
    BY <1>1 DEF Close, EventTypes, FlushStages
  <2> QED
    BY <1>1, <2>1, NothingTaken DEF Close, EventTypes
<1>2. CASE Closed(p)
  <2>1. open' \in [Proc -> {"open", "closing", "closed", "crashed"}]
    BY <1>2 DEF Closed, EventTypes
  <2> QED
    BY <1>2, <2>1, NothingTaken DEF Closed, EventTypes
<1>3. CASE Crash(p)
  <2>1. /\ open' \in [Proc -> {"open", "closing", "closed", "crashed"}]
        /\ batch' \in [Proc -> SUBSET Event] /\ \A q \in Proc : batch'[q] \subseteq batch[q]
    BY <1>3 DEF Crash, EventTypes
  <2>2. eventFaults' \in 0 .. MaxEventFaults
    BY <1>3, EventFaultsTyped DEF Crash
  <2> QED
    BY <1>3, <2>1, <2>2, NothingTaken DEF Crash, EventTypes
<1> QED
  BY <1>1, <1>2, <1>3

LEMMA EventStepInv ==
    ASSUME EventInv, [EventNext]_eventVars
    PROVE  EventInv'
<1>1. CASE UNCHANGED eventVars
  <2>1. UNCHANGED <<box, place, dropped, origin, accepted, open, retryAt, flushAt, batch, recheck, eventFaults>>
    BY <1>1 DEF eventVars, boxVars, reporterVars
  <2>2. EventTypes' /\ BatchDelivered' /\ NoSilentLoss'
    BY <2>1 DEF EventInv, EventTypes, BatchDelivered, NoSilentLoss, Written
  <2> QED
    BY <2>2 DEF EventInv
<1>2. ASSUME NEW p \in Proc, FlushStep(p)
      PROVE  EventInv'
  BY <1>2, TimerFiresInv, PeekInv, SendInv, AcknowledgeInv, DiscardInv, SettleInv, RecheckInv
     DEF FlushStep
<1>3. ASSUME NEW p \in Proc, Close(p) \/ Closed(p) \/ Crash(p)
      PROVE  EventInv'
  BY <1>3, EndsInv
<1>4. ASSUME NEW p \in Proc, NEW e \in Event, Report(p, e)
      PROVE  EventInv'
  BY <1>4, ReportInv
<1> QED
  BY <1>1, <1>2, <1>3, <1>4 DEF EventNext

LEMMA EventInvariant == EventSpec => []EventInv
<1>1. EventInv /\ [EventNext]_eventVars => EventInv'
  BY EventStepInv
<1> QED
  BY <1>1, EventInitInv, PTL DEF EventSpec

(* The outbox never holds more than its capacity, and every flush is at    *)
(* one of its stages (FactoryCloudEventOutbox, FactoryCloudReporter).      *)
THEOREM EventsTyped == EventSpec => []EventTypes
<1>1. EventInv => EventTypes
  BY DEF EventInv
<1> QED
  BY <1>1, EventInvariant, PTL

(* An event that was written is in the outbox, in the Cloud, or in the     *)
(* count of dropped events, for any number of processes, failing requests  *)
(* and crashes (#flush, acknowledge, discard, compactDocument).            *)
THEOREM LossIsCounted == EventSpec => []NoSilentLoss
<1>1. EventInv => NoSilentLoss
  BY DEF EventInv
<1> QED
  BY <1>1, EventInvariant, PTL

=============================================================================
