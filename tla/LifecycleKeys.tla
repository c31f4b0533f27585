----------------------------- MODULE LifecycleKeys -----------------------------
(***************************************************************************)
(* The rows of one work unit while builds that name a row by the path its  *)
(* issue came through and builds that name it by the work unit run side by *)
(* side.  A new build moves the rows it finds under older keys: on every   *)
(* load of the document, without a clock, and once more, with one, when it *)
(* claims the unit.  The row it does not choose stays as an alias, as      *)
(* evidence only.                                                          *)
(*                                                                         *)
(* rows[k] is the row under key k, or NoEntry; Canonical is the key of the *)
(* work unit.  live says that the lease of the row has not expired.        *)
(***************************************************************************)
EXTENDS Naturals, FiniteSets

CONSTANTS New, Old,   \* processes of the new build, and of an older one
          Canonical, Legacy,
          NoOwner, NoEntry,
          Kept,       \* aliases kept for a unit
          MaxEpoch    \* bound on claims

VARIABLE rows

keyVars == <<rows>>

Key == Legacy \cup {Canonical}
Owner == New \cup Old
Row == [phase : {"active", "queued", "done"}, owner : Owner \cup {NoOwner}, live : BOOLEAN,
        epoch : 0..MaxEpoch, alias : BOOLEAN]
Unowned == [phase |-> "queued", owner |-> NoOwner, live |-> FALSE, epoch |-> 0, alias |-> FALSE]

ASSUME KeyAssumption ==
    /\ IsFiniteSet(Legacy) /\ Canonical \notin Legacy
    /\ NoOwner \notin Owner /\ NoEntry \notin Row
    /\ MaxEpoch \in Nat \ {0}

KeyTypes == rows \in [Key -> Row \cup {NoEntry}]

KeyInit == rows = [k \in Key |-> NoEntry]

Has(r, k) == r[k] # NoEntry
IsTerminal(row) == row.phase = "done"
HoldsLiveLease(row) == ~IsTerminal(row) /\ row.owner # NoOwner /\ row.live
Rows(r) == {k \in Key : Has(r, k) /\ ~r[k].alias}
Aliases(r) == {k \in Key : Has(r, k) /\ r[k].alias}
Leased(r) == {k \in Rows(r) : r[k].owner # NoOwner}
LiveKeys(r) == {k \in Rows(r) : HoldsLiveLease(r[k])}

Rank(row) == CASE IsTerminal(row) -> 2 [] row.phase = "queued" -> 1 [] OTHER -> 0
Best(r, ks) == {k \in ks : \A other \in ks : Rank(r[k]) <= Rank(r[other])}
(* The winners among rows: a preferred one if there is one, else the best   *)
(* by phase; which of two equals was touched last is left open.             *)
Winners(r, ks, preferred) == Best(r, IF preferred # {} THEN preferred ELSE ks)

AsAlias(row) == [row EXCEPT !.alias = TRUE, !.owner = NoOwner, !.live = FALSE]
Adopt(r, winner) ==
    [k \in Key |->
       IF k = Canonical THEN r[winner]
       ELSE IF k = winner THEN NoEntry
       ELSE IF k \in Rows(r) THEN AsAlias(r[k]) ELSE r[k]]

-----------------------------------------------------------------------------
(* The views a load may give: it leaves alone what a lease may protect.     *)
LoadLeaves(r) ==
    \/ Rows(r) \subseteq {Canonical}
    \/ Cardinality(Leased(r)) > 1
    \/ Has(r, Canonical) /\ Cardinality(Leased(r)) = 1 /\ Canonical \notin Leased(r)

Migrated(r) ==
    IF LoadLeaves(r) THEN {r}
    ELSE IF Has(r, Canonical) THEN {Adopt(r, Canonical)}
    ELSE {Adopt(r, w) : w \in Winners(r, Rows(r), Leased(r))}

(* Mutant: a canonical row takes over whoever holds a row under an old key. *)
ConflictOfTwo(r) == Rows(r) \cap Legacy # {} /\ Cardinality(LiveKeys(r)) > 1

(* The plan of a claim refuses where two leases, or the wrong one, are live. *)
Conflict(r) ==
    /\ Rows(r) \cap Legacy # {}
    /\ \/ Cardinality(LiveKeys(r)) > 1
       \/ Has(r, Canonical) /\ LiveKeys(r) \cap Legacy # {}

Planned(r) ==
    IF Rows(r) \cap Legacy = {} THEN {r}
    ELSE IF Has(r, Canonical) THEN {Adopt(r, Canonical)}
    ELSE {Adopt(r, w) : w \in Winners(r, Rows(r), LiveKeys(r))}

(* Aliases go once the unit is done, when they are old, and beyond a number; *)
(* one under a live lease stays.                                             *)
Prunable(r) == {k \in Aliases(r) : ~(r[k].owner # NoOwner /\ r[k].live)}
Pruned(r) ==
    LET done == ~Has(r, Canonical) \/ IsTerminal(r[Canonical])
    IN  {[k \in Key |-> IF k \in gone THEN NoEntry ELSE r[k]] :
           gone \in {g \in SUBSET Prunable(r) :
                       /\ done => g = Prunable(r)
                       /\ \/ g = Prunable(r)
                          \/ Cardinality(Aliases(r) \ g) <= Kept}}

-----------------------------------------------------------------------------
Lease(row, p) ==
    [row EXCEPT !.owner = p, !.live = TRUE,
                !.epoch = IF row.owner = p THEN @ ELSE @ + 1]
Claimable(row, p) == ~IsTerminal(row) /\ (row.owner \in {p, NoOwner} \/ ~row.live)
Grants(r, k, p) ==
    /\ Has(r, k) => r[k].epoch < MaxEpoch
    /\ rows' = IF ~Has(r, k) THEN [r EXCEPT ![k] = Lease(Unowned, p)]
               ELSE IF Claimable(r[k], p) THEN [r EXCEPT ![k] = Lease(@, p)] ELSE r

Claim(p) == \E loaded \in Migrated(rows) :
    /\ ~Conflict(loaded)
    /\ \E planned \in Planned(loaded) : \E r \in Pruned(planned) : Grants(r, Canonical, p)

(* Renewing, promoting, giving back, finishing and clearing: each writes    *)
(* what it loaded.                                                          *)
Owns(r, k, p) == Has(r, k) /\ r[k].owner = p
Acts(r, k, p) ==
    \/ Owns(r, k, p) /\ r[k].live /\ rows' = [r EXCEPT ![k].phase = "active"]
    \/ Owns(r, k, p) /\ rows' = [r EXCEPT ![k].live = FALSE]
    \/ Owns(r, k, p) /\ r[k].live /\ rows' = [r EXCEPT ![k].phase = "done"]
    \/ Owns(r, k, p) /\ rows' = [r EXCEPT ![k] = NoEntry]

NewActs(p) == \E loaded \in Migrated(rows) : Acts(loaded, Canonical, p)

(* Another unit's mutation persists the document as it was loaded. *)
Persists == \E loaded \in Migrated(rows) : rows' = loaded /\ rows' # rows

(* The older build knows one key for an issue and no aliases. *)
OldClaims(p) == \E k \in Legacy : Grants(rows, k, p)
OldActs(p) == \E k \in Legacy : Acts(rows, k, p)

Expires == \E k \in Key : Has(rows, k) /\ rows[k].live /\ rows' = [rows EXCEPT ![k].live = FALSE]

KeyNext ==
    \/ Persists
    \/ Expires
    \/ \E p \in New : Claim(p) \/ NewActs(p)
    \/ \E p \in Old : OldClaims(p) \/ OldActs(p)

KeySpec == KeyInit /\ [][KeyNext]_keyVars

-----------------------------------------------------------------------------
(* A lease that somebody may be working under survives the migration and   *)
(* the claims of others: neither a load of the document nor a claim of the *)
(* unit ends a live lease, whatever the rows and their keys: its holder    *)
(* still holds it, at the same epoch.                                      *)
StillHolds(r, p, n) == \E k \in Key : /\ Has(r, k) /\ HoldsLiveLease(r[k])
                                      /\ r[k].owner = p /\ r[k].epoch = n
LiveLeaseKept ==
    [][\A p \in Owner, n \in 0..MaxEpoch :
          StillHolds(rows, p, n) /\ ~StillHolds(rows', p, n) =>
             ~Persists /\ \A q \in New : ~Claim(q)]_keyVars

==============================================================================
