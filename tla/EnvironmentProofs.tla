-------------------------- MODULE EnvironmentProofs --------------------------
(***************************************************************************)
(* No cluster-scoped object outlives the namespace that lists it, and none *)
(* of the customer's is deleted, for any number of environments, objects,  *)
(* failing commands and restarts, while leases outlive provisioning.       *)
(*                                                                         *)
(* A namespace is deleted only by whoever has deleted all objects of its   *)
(* environment or found them gone.  Three actors may do so at a time, and  *)
(* none of them sees the others: each must be right by itself.             *)
(***************************************************************************)
EXTENDS KubernetesEnvironments, TLAPS

-----------------------------------------------------------------------------
(* The inductive invariant *)

Mine(e) == {x \in Res : owner[x] = e}

(* Objects are created while the namespace is there and nobody deletes it. *)
EnvironmentHeld(e) ==
    /\ provision[e] \in {"idle", "namespace"} =>
         Mine(e) = {} /\ e \notin expired /\ ns[e] = "absent"
    /\ provision[e] \in {"guardrails", "cluster", "cleanup"} => ns[e] = "live" /\ e \notin expired
    /\ provision[e] \in {"guardrails", "cluster"} => Mine(e) \subseteq created[e]
    /\ ns[e] # "live" => Mine(e) = {}

(* A deletion without an error has every object left to do, and none is    *)
(* left when it comes to the namespace.                                    *)
Right(d, a, stage, mine) ==
    /\ d.at # "off" => IF a = "provision" THEN stage = "cleanup" ELSE stage \in {"ready", "over"}
    /\ d.at = "cluster" /\ ~d.errors => mine \subseteq d.todo
    /\ d.at = "namespace" => mine = {}

Spared(d) == d.aim # Nothing => owner[d.aim] # Customer

DeletionsRight ==
    \A a \in Actor, e \in Env :
      Right(deletion[a][e], a, provision[e], Mine(e)) /\ Spared(deletion[a][e])

EnvironmentInv ==
    /\ EnvironmentTypes
    /\ \A e \in Env : EnvironmentHeld(e)
    /\ DeletionsRight

-----------------------------------------------------------------------------
(* Deletions *)

LEMMA DeletionFields ==
    ASSUME NEW d \in Deletions
    PROVE  /\ d.at \in {"off", "cluster", "namespace"} /\ d.todo \in SUBSET Res
           /\ d.aim \in Res \cup {Nothing} /\ d.errors \in BOOLEAN
BY DEF Deletions

LEMMA OffIsOff ==
    /\ Off \in Deletions /\ Off.at = "off" /\ Off.aim = Nothing /\ Off.errors = FALSE
    /\ Off.todo = {}
BY DEF Off, Deletions

LEMMA Begun ==
    ASSUME NEW T \in SUBSET Res
    PROVE  LET d == [Off EXCEPT !.at = "cluster", !.todo = T] IN
           d \in Deletions /\ d.at = "cluster" /\ d.todo = T /\ d.aim = Nothing
BY DEF Off, Deletions

LEMMA AtNamespace ==
    LET d == [Off EXCEPT !.at = "namespace"] IN
    d \in Deletions /\ d.at = "namespace" /\ d.aim = Nothing
BY DEF Off, Deletions

LEMMA Aimed ==
    ASSUME NEW d \in Deletions, NEW x \in Res
    PROVE  LET n == [d EXCEPT !.aim = x] IN
           n \in Deletions /\ n.at = d.at /\ n.todo = d.todo /\ n.errors = d.errors /\ n.aim = x
BY DEF Deletions

LEMMA DeletionPassed ==
    ASSUME NEW a \in Actor, NEW e \in Env, NEW x, deletion[a][e] \in Deletions
    PROVE  /\ Passed(a, e, x) \in Deletions /\ Passed(a, e, x).at = deletion[a][e].at
           /\ Passed(a, e, x).todo = deletion[a][e].todo \ {x} /\ Passed(a, e, x).aim = Nothing
           /\ Passed(a, e, x).errors = deletion[a][e].errors
BY DEF Deletions, Passed

LEMMA DeletionFailed ==
    ASSUME NEW a \in Actor, NEW e \in Env, NEW x, deletion[a][e] \in Deletions
    PROVE  /\ Failed(a, e, x) \in Deletions /\ Failed(a, e, x).at = deletion[a][e].at
           /\ Failed(a, e, x).aim = Nothing /\ Failed(a, e, x).errors = TRUE
BY DEF Deletions, Failed

LEMMA TurnMoves ==
    ASSUME EnvironmentTypes, NEW a \in Actor, NEW e \in Env, NEW new \in Deletions,
           Turn(a, e, new)
    PROVE  /\ deletion' \in [Actor -> [Env -> Deletions]]
           /\ \A b \in Actor, f \in Env :
                deletion'[b][f] = IF b = a /\ f = e THEN new ELSE deletion[b][f]
BY DEF EnvironmentTypes, Turn

LEMMA RightWhenOff ==
    ASSUME NEW d, d.at = "off", NEW a, NEW stage, NEW mine
    PROVE  Right(d, a, stage, mine)
BY DEF Right

LEMMA RightWithLess ==
    ASSUME NEW d, NEW a, NEW stage, NEW mine, NEW less, less \subseteq mine,
           Right(d, a, stage, mine)
    PROVE  Right(d, a, stage, less)
BY DEF Right

(* While an environment is provisioned and not yet cleaned up, nobody      *)
(* deletes it, and during its cleanup only provision does.                 *)
LEMMA NobodyElse ==
    ASSUME EnvironmentInv, NEW a \in Actor, NEW e \in Env,
           \/ provision[e] \in {"idle", "namespace", "guardrails", "cluster"}
           \/ provision[e] = "cleanup" /\ a # "provision"
    PROVE  deletion[a][e].at = "off"
BY DEF EnvironmentInv, DeletionsRight, Right

-----------------------------------------------------------------------------

LEMMA EnvironmentInitInv == EnvironmentInit => EnvironmentInv
<1> SUFFICES ASSUME EnvironmentInit PROVE EnvironmentInv
  OBVIOUS
<1> USE DEF EnvironmentInit
<1>1. deletion \in [Actor -> [Env -> Deletions]]
  BY OffIsOff
<1>2. EnvironmentTypes
  BY <1>1, EnvironmentAssumption DEF EnvironmentTypes, Stages
<1>3. \A e \in Env : EnvironmentHeld(e)
  BY EnvironmentAssumption DEF EnvironmentHeld, Mine
<1>4. DeletionsRight
  BY OffIsOff, RightWhenOff DEF DeletionsRight, Spared
<1> QED
  BY <1>2, <1>3, <1>4 DEF EnvironmentInv

(* A step that creates no object and takes nobody's label away.            *)
LEMMA Undisturbed ==
    ASSUME EnvironmentInv, NEW a \in Actor, NEW e \in Env,
           deletion'[a][e] = deletion[a][e],
           provision'[e] = provision[e] \/ deletion[a][e].at = "off",
           Mine(e)' \subseteq Mine(e) \/ deletion[a][e].at = "off",
           \A x \in Res : owner'[x] = Customer => owner[x] = Customer
    PROVE  Right(deletion'[a][e], a, provision'[e], Mine(e)') /\ Spared(deletion[a][e])'
<1>1. Spared(deletion[a][e])'
  BY DeletionFields DEF EnvironmentInv, EnvironmentTypes, DeletionsRight, Spared
<1>2. CASE deletion[a][e].at = "off"
  BY <1>1, <1>2, RightWhenOff
<1>3. CASE deletion[a][e].at # "off"
  BY <1>1, <1>3, RightWithLess DEF EnvironmentInv, DeletionsRight
<1> QED
  BY <1>2, <1>3

-----------------------------------------------------------------------------
(* provision *)

LEMMA ProvisionMoves ==
    ASSUME EnvironmentTypes, NEW e \in Env, NEW to \in Stages, ProvisionAt(e, to)
    PROVE  /\ provision' \in [Env -> Stages]
           /\ \A f \in Env : provision'[f] = IF f = e THEN to ELSE provision[f]
BY DEF EnvironmentTypes, ProvisionAt

LEMMA FaultsTyped ==
    ASSUME EnvironmentTypes, CommandFails \/ CommandWorks
    PROVE  commandFaults' \in 0 .. MaxCommandFaults
BY EnvironmentAssumption DEF EnvironmentTypes, CommandFails, CommandWorks

LEMMA ProvisionInv ==
    ASSUME EnvironmentInv, NEW e \in Env, Provision(e)
    PROVE  EnvironmentInv'
<1> USE DEF EnvironmentInv, Provision
<1>1. /\ provision' \in [Env -> Stages]
      /\ \A f \in Env : provision'[f] = IF f = e THEN "namespace" ELSE provision[f]
  BY ProvisionMoves DEF Stages
<1>2. EnvironmentTypes'
  BY <1>1 DEF EnvironmentTypes
<1>3. \A f \in Env : EnvironmentHeld(f)'
  BY <1>1 DEF EnvironmentHeld, Mine
<1>4. DeletionsRight'
  <2> SUFFICES ASSUME NEW a \in Actor, NEW f \in Env
               PROVE  (Right(deletion[a][f], a, provision[f], Mine(f)) /\ Spared(deletion[a][f]))'
    BY DEF DeletionsRight
  <2>1. provision'[f] = provision[f] \/ deletion[a][f].at = "off"
    BY <1>1, NobodyElse
  <2>2. Mine(f)' = Mine(f)
    BY DEF Mine
  <2> QED
    BY <2>1, <2>2, Undisturbed
<1> QED
  BY <1>2, <1>3, <1>4

LEMMA CreateNamespaceInv ==
    ASSUME EnvironmentInv, NEW e \in Env, CreateNamespace(e)
    PROVE  EnvironmentInv'
<1> USE DEF EnvironmentInv
<1>1. PICK to \in {"guardrails", "over"} :
        /\ ProvisionAt(e, to) /\ ns' \in {ns, [ns EXCEPT ![e] = "live"]}
        /\ to = "guardrails" => ns' = [ns EXCEPT ![e] = "live"]
  BY DEF CreateNamespace
<1>2. /\ provision' \in [Env -> Stages]
      /\ \A f \in Env : provision'[f] = IF f = e THEN to ELSE provision[f]
  BY <1>1, ProvisionMoves DEF Stages
<1>3. /\ provision[e] = "namespace" /\ commandFaults' \in 0 .. MaxCommandFaults
      /\ UNCHANGED <<created, unsure, expired, owner, records, deletion>>
  BY FaultsTyped DEF CreateNamespace
<1>4. /\ ns' \in [Env -> {"absent", "live", "terminating"}]
      /\ \A f \in Env : f # e => ns'[f] = ns[f]
      /\ to = "guardrails" => ns'[e] = "live"
  BY <1>1 DEF EnvironmentTypes
<1>5. EnvironmentTypes'
  BY <1>2, <1>3, <1>4 DEF EnvironmentTypes
<1>6. \A f \in Env : Mine(f)' = Mine(f)
  BY <1>3 DEF Mine
<1>7. \A f \in Env : EnvironmentHeld(f)'
  BY <1>2, <1>3, <1>4, <1>6 DEF EnvironmentHeld
<1>8. DeletionsRight'
  <2> SUFFICES ASSUME NEW a \in Actor, NEW f \in Env
               PROVE  (Right(deletion[a][f], a, provision[f], Mine(f)) /\ Spared(deletion[a][f]))'
    BY DEF DeletionsRight
  <2>1. provision'[f] = provision[f] \/ deletion[a][f].at = "off"
    BY <1>2, <1>3, NobodyElse
  <2> QED
    BY <1>3, <1>6, <2>1, Undisturbed
<1> QED
  BY <1>5, <1>7, <1>8

(* The compensation begins with every object that may have been created.   *)
LEMMA CleanupRight ==
    ASSUME EnvironmentInv, NEW e \in Env, provision[e] \in {"guardrails", "cluster"},
           NEW doubt \in Res \cup {Nothing}, Cleanup(e, doubt),
           Mine(e)' \subseteq created[e] \cup ({doubt} \ {Nothing}),
           \A f \in Env \ {e} : Mine(f)' = Mine(f),
           \A x \in Res : owner'[x] = Customer => owner[x] = Customer
    PROVE  /\ provision' \in [Env -> Stages] /\ unsure' \in [Env -> Res \cup {Nothing}]
           /\ deletion' \in [Actor -> [Env -> Deletions]]
           /\ \A f \in Env : provision'[f] = IF f = e THEN "cleanup" ELSE provision[f]
           /\ DeletionsRight'
<1> USE DEF EnvironmentInv
<1>1. /\ provision' \in [Env -> Stages]
      /\ \A f \in Env : provision'[f] = IF f = e THEN "cleanup" ELSE provision[f]
  BY ProvisionMoves DEF Cleanup, Stages
<1>2. unsure' \in [Env -> Res \cup {Nothing}]
  BY DEF EnvironmentTypes, Cleanup
<1> DEFINE todo == created[e] \cup ({doubt} \ {Nothing})
           d == [Off EXCEPT !.at = "cluster", !.todo = todo]
<1>3. todo \in SUBSET Res
  BY DEF EnvironmentTypes
<1> HIDE DEF todo
<1>4. d \in Deletions /\ d.at = "cluster" /\ d.todo = todo /\ d.aim = Nothing
  BY <1>3, Begun
<1>5. Turn("provision", e, d) /\ "provision" \in Actor
  BY DEF Cleanup, Turn, Actor, todo
<1> HIDE DEF d
<1>6. /\ deletion' \in [Actor -> [Env -> Deletions]]
      /\ \A b \in Actor, f \in Env :
           deletion'[b][f] = IF b = "provision" /\ f = e THEN d ELSE deletion[b][f]
  BY <1>4, <1>5, TurnMoves
<1>7. DeletionsRight'
  <2> SUFFICES ASSUME NEW a \in Actor, NEW f \in Env
               PROVE  (Right(deletion[a][f], a, provision[f], Mine(f)) /\ Spared(deletion[a][f]))'
    BY DEF DeletionsRight
  <2>1. CASE a = "provision" /\ f = e
    <3>1. Spared(deletion[a][f])'
      BY <1>4, <1>6, <2>1 DEF Spared
    <3>2. Mine(e)' \subseteq todo
      BY DEF todo
    <3> QED
      BY <1>1, <1>4, <1>6, <2>1, <3>1, <3>2 DEF Right
  <2>2. CASE ~(a = "provision" /\ f = e)
    <3>1. deletion'[a][f] = deletion[a][f]
      BY <1>6, <2>2
    <3>2. f = e => deletion[a][f].at = "off"
      BY NobodyElse
    <3>3. f # e => provision'[f] = provision[f] /\ Mine(f)' = Mine(f)
      BY <1>1
    <3> QED
      BY <3>1, <3>2, <3>3, Undisturbed
  <2> QED
    BY <2>1, <2>2
<1> QED
  BY <1>1, <1>2, <1>6, <1>7

LEMMA ApplyGuardrailsInv ==
    ASSUME EnvironmentInv, NEW e \in Env, ApplyGuardrails(e)
    PROVE  EnvironmentInv'
<1> USE DEF EnvironmentInv
<1>1. /\ UNCHANGED <<created, ns, expired, owner, records>> /\ provision[e] = "guardrails"
      /\ commandFaults' \in 0 .. MaxCommandFaults
  BY FaultsTyped DEF ApplyGuardrails
<1>2. \A f \in Env : Mine(f)' = Mine(f)
  BY <1>1 DEF Mine
<1>3. CASE ProvisionAt(e, "cluster") /\ UNCHANGED <<unsure, deletion>>
  <2>1. /\ provision' \in [Env -> Stages]
        /\ \A f \in Env : provision'[f] = IF f = e THEN "cluster" ELSE provision[f]
    BY <1>3, ProvisionMoves DEF Stages
  <2>2. EnvironmentTypes'
    BY <1>1, <1>3, <2>1 DEF EnvironmentTypes
  <2>3. \A f \in Env : EnvironmentHeld(f)'
    BY <1>1, <1>2, <2>1 DEF EnvironmentHeld
  <2>4. DeletionsRight'
    <3> SUFFICES ASSUME NEW a \in Actor, NEW f \in Env
                 PROVE  (Right(deletion[a][f], a, provision[f], Mine(f)) /\ Spared(deletion[a][f]))'
      BY DEF DeletionsRight
    <3>1. provision'[f] = provision[f] \/ deletion[a][f].at = "off"
      BY <1>1, <2>1, NobodyElse
    <3> QED
      BY <1>1, <1>2, <1>3, <3>1, Undisturbed
  <2> QED
    BY <2>2, <2>3, <2>4
<1>4. CASE Cleanup(e, Nothing)
  <2>1. Mine(e)' \subseteq created[e] \cup ({Nothing} \ {Nothing})
    BY <1>1, <1>2 DEF EnvironmentHeld
  <2>2. /\ provision' \in [Env -> Stages] /\ unsure' \in [Env -> Res \cup {Nothing}]
        /\ deletion' \in [Actor -> [Env -> Deletions]]
        /\ \A f \in Env : provision'[f] = IF f = e THEN "cleanup" ELSE provision[f]
        /\ DeletionsRight'
    BY <1>1, <1>2, <1>4, <2>1, CleanupRight
  <2>3. EnvironmentTypes'
    BY <1>1, <2>2 DEF EnvironmentTypes
  <2>4. \A f \in Env : EnvironmentHeld(f)'
    BY <1>1, <1>2, <2>2 DEF EnvironmentHeld
  <2> QED
    BY <2>2, <2>3, <2>4
<1> QED
  BY <1>3, <1>4 DEF ApplyGuardrails

LEMMA CreateClusterResourceInv ==
    ASSUME EnvironmentInv, NEW e \in Env, CreateClusterResource(e)
    PROVE  EnvironmentInv'
<1> USE DEF EnvironmentInv
<1>1. /\ UNCHANGED <<ns, expired, records>> /\ provision[e] = "cluster"
      /\ commandFaults' \in 0 .. MaxCommandFaults
  BY FaultsTyped DEF CreateClusterResource
<1>2. PICK x \in Res \ created[e] :
        \/ /\ owner[x] = Nothing /\ owner' = [owner EXCEPT ![x] = e]
           /\ created' = [created EXCEPT ![e] = created[e] \cup {x}]
           /\ UNCHANGED <<provision, unsure, deletion>>
        \/ /\ owner[x] # Nothing /\ Cleanup(e, x) /\ UNCHANGED <<owner, created>>
        \/ /\ owner[x] = Nothing /\ Cleanup(e, x)
           /\ owner' \in {owner, [owner EXCEPT ![x] = e]} /\ UNCHANGED created
  BY DEF CreateClusterResource
<1>3. /\ owner' \in [Res -> Env \cup {Nothing, Customer}]
      /\ \A y \in Res : owner'[y] = owner[y] \/ (y = x /\ owner[x] = Nothing /\ owner'[x] = e)
  BY <1>2 DEF EnvironmentTypes
<1>4. /\ \A f \in Env \ {e} : Mine(f)' = Mine(f)
      /\ Mine(e)' \subseteq created[e] \cup {x}
      /\ \A y \in Res : owner'[y] = Customer => owner[y] = Customer
  <2>1. Mine(e) \subseteq created[e]
    BY <1>1 DEF EnvironmentHeld
  <2> QED
    BY <1>3, <2>1, EnvironmentAssumption DEF Mine
<1>5. CASE /\ created' = [created EXCEPT ![e] = created[e] \cup {x}]
           /\ UNCHANGED <<provision, unsure, deletion>>
  <2>1. /\ created' \in [Env -> SUBSET Res] /\ created'[e] = created[e] \cup {x}
        /\ \A f \in Env \ {e} : created'[f] = created[f]
    BY <1>5 DEF EnvironmentTypes
  <2>2. EnvironmentTypes'
    BY <1>1, <1>3, <1>5, <2>1 DEF EnvironmentTypes
  <2>3. \A f \in Env : EnvironmentHeld(f)'
    BY <1>1, <1>4, <1>5, <2>1 DEF EnvironmentHeld
  <2>4. DeletionsRight'
    <3> SUFFICES ASSUME NEW a \in Actor, NEW f \in Env
                 PROVE  (Right(deletion[a][f], a, provision[f], Mine(f)) /\ Spared(deletion[a][f]))'
      BY DEF DeletionsRight
    <3>1. f = e => deletion[a][f].at = "off"
      BY <1>1, NobodyElse
    <3> QED
      BY <1>4, <1>5, <3>1, Undisturbed
  <2> QED
    BY <2>2, <2>3, <2>4
<1>6. CASE Cleanup(e, x) /\ UNCHANGED created
  <2>1. x \in Res \cup {Nothing} /\ Mine(e)' \subseteq created[e] \cup ({x} \ {Nothing})
    BY <1>4, EnvironmentAssumption
  <2>2. /\ provision' \in [Env -> Stages] /\ unsure' \in [Env -> Res \cup {Nothing}]
        /\ deletion' \in [Actor -> [Env -> Deletions]]
        /\ \A f \in Env : provision'[f] = IF f = e THEN "cleanup" ELSE provision[f]
        /\ DeletionsRight'
    BY <1>1, <1>4, <1>6, <2>1, CleanupRight
  <2>3. EnvironmentTypes'
    BY <1>1, <1>3, <1>6, <2>2 DEF EnvironmentTypes
  <2>4. \A f \in Env : EnvironmentHeld(f)'
    BY <1>1, <1>4, <1>6, <2>2 DEF EnvironmentHeld
  <2> QED
    BY <2>2, <2>3, <2>4
<1> QED
  BY <1>2, <1>5, <1>6

LEMMA ReadyInv ==
    ASSUME EnvironmentInv, NEW e \in Env, Ready(e)
    PROVE  EnvironmentInv'
<1> USE DEF EnvironmentInv
<1>1. /\ UNCHANGED <<created, ns, expired, owner>> /\ provision[e] = "cluster"
      /\ commandFaults' \in 0 .. MaxCommandFaults /\ records' \subseteq Env
  BY FaultsTyped DEF Ready, EnvironmentTypes
<1>2. \A f \in Env : Mine(f)' = Mine(f)
  BY <1>1 DEF Mine
<1>3. CASE ProvisionAt(e, "ready") /\ UNCHANGED <<unsure, deletion>>
  <2>1. /\ provision' \in [Env -> Stages]
        /\ \A f \in Env : provision'[f] = IF f = e THEN "ready" ELSE provision[f]
    BY <1>3, ProvisionMoves DEF Stages
  <2>2. EnvironmentTypes'
    BY <1>1, <1>3, <2>1 DEF EnvironmentTypes
  <2>3. \A f \in Env : EnvironmentHeld(f)'
    BY <1>1, <1>2, <2>1 DEF EnvironmentHeld
  <2>4. DeletionsRight'
    <3> SUFFICES ASSUME NEW a \in Actor, NEW f \in Env
                 PROVE  (Right(deletion[a][f], a, provision[f], Mine(f)) /\ Spared(deletion[a][f]))'
      BY DEF DeletionsRight
    <3>1. provision'[f] = provision[f] \/ deletion[a][f].at = "off"
      BY <1>1, <2>1, NobodyElse
    <3> QED
      BY <1>1, <1>2, <1>3, <3>1, Undisturbed
  <2> QED
    BY <2>2, <2>3, <2>4
<1>4. CASE Cleanup(e, Nothing)
  <2>1. Mine(e)' \subseteq created[e] \cup ({Nothing} \ {Nothing})
    BY <1>1, <1>2 DEF EnvironmentHeld
  <2>2. /\ provision' \in [Env -> Stages] /\ unsure' \in [Env -> Res \cup {Nothing}]
        /\ deletion' \in [Actor -> [Env -> Deletions]]
        /\ \A f \in Env : provision'[f] = IF f = e THEN "cleanup" ELSE provision[f]
        /\ DeletionsRight'
    BY <1>1, <1>2, <1>4, <2>1, CleanupRight
  <2>3. EnvironmentTypes'
    BY <1>1, <2>2 DEF EnvironmentTypes
  <2>4. \A f \in Env : EnvironmentHeld(f)'
    BY <1>1, <1>2, <2>2 DEF EnvironmentHeld
  <2> QED
    BY <2>2, <2>3, <2>4
<1> QED
  BY <1>3, <1>4 DEF Ready

-----------------------------------------------------------------------------
(* Whoever deletes                                                         *)

LEMMA TurnRight ==
    ASSUME EnvironmentInv, NEW a \in Actor, NEW e \in Env, NEW new \in Deletions,
           Turn(a, e, new),
           Right(new, a, provision'[e], Mine(e)'),
           new.aim # Nothing => owner'[new.aim] # Customer,
           \A f \in Env : Mine(f)' \subseteq Mine(f),
           \A f \in Env \ {e} : provision'[f] = provision[f],
           provision'[e] = provision[e] \/ (provision[e] = "cleanup" /\ a = "provision"),
           \A x \in Res : owner'[x] = Customer => owner[x] = Customer
    PROVE  deletion' \in [Actor -> [Env -> Deletions]] /\ DeletionsRight'
<1> USE DEF EnvironmentInv
<1>1. /\ deletion' \in [Actor -> [Env -> Deletions]]
      /\ \A b \in Actor, f \in Env :
           deletion'[b][f] = IF b = a /\ f = e THEN new ELSE deletion[b][f]
  BY TurnMoves
<1> SUFFICES ASSUME NEW b \in Actor, NEW f \in Env
             PROVE  (Right(deletion[b][f], b, provision[f], Mine(f)) /\ Spared(deletion[b][f]))'
  BY <1>1 DEF DeletionsRight
<1>2. CASE b = a /\ f = e
  BY <1>1, <1>2 DEF Spared
<1>3. CASE ~(b = a /\ f = e)
  <2>1. deletion'[b][f] = deletion[b][f]
    BY <1>1, <1>3
  <2>2. provision'[f] = provision[f] \/ deletion[b][f].at = "off"
    BY <1>3, NobodyElse
  <2> QED
    BY <2>1, <2>2, Undisturbed
<1> QED
  BY <1>2, <1>3

LEMMA ReadLabelInv ==
    ASSUME EnvironmentInv, NEW a \in Actor, NEW e \in Env, ReadLabel(a, e)
    PROVE  EnvironmentInv'
<1> USE DEF EnvironmentInv
<1>1. /\ UNCHANGED <<provision, created, unsure, ns, expired, owner, records>>
      /\ commandFaults' \in 0 .. MaxCommandFaults
  BY FaultsTyped DEF ReadLabel
<1>2. /\ \A f \in Env : Mine(f)' = Mine(f)
      /\ \A f \in Env : provision'[f] = provision[f]
      /\ \A x \in Res : owner'[x] = owner[x]
  BY <1>1 DEF Mine
<1>3. deletion[a][e] \in Deletions /\ deletion[a][e].at = "cluster"
  BY DEF ReadLabel, Busy, EnvironmentTypes
<1>4. Right(deletion[a][e], a, provision[e], Mine(e))
  BY DEF DeletionsRight
<1>5. PICK x \in deletion[a][e].todo :
        \/ owner[x] = e /\ Turn(a, e, [deletion[a][e] EXCEPT !.aim = x])
        \/ owner[x] # e /\ Turn(a, e, Passed(a, e, x))
        \/ Turn(a, e, Failed(a, e, x))
  BY DEF ReadLabel
<1>6. x \in Res
  BY <1>3, DeletionFields
<1>7. CASE owner[x] = e /\ Turn(a, e, [deletion[a][e] EXCEPT !.aim = x])
  <2> DEFINE new == [deletion[a][e] EXCEPT !.aim = x]
  <2>1. /\ new \in Deletions /\ new.at = deletion[a][e].at /\ new.todo = deletion[a][e].todo
        /\ new.errors = deletion[a][e].errors /\ new.aim = x
    BY <1>3, <1>6, Aimed
  <2>2. Turn(a, e, new)
    BY <1>7
  <2> HIDE DEF new
  <2>3. Right(new, a, provision'[e], Mine(e)') /\ owner'[new.aim] # Customer
    BY <1>2, <1>4, <1>6, <1>7, <2>1, EnvironmentAssumption DEF Right
  <2>4. deletion' \in [Actor -> [Env -> Deletions]] /\ DeletionsRight'
    BY <1>2, <2>1, <2>2, <2>3, TurnRight
  <2> QED
    BY <1>1, <1>2, <2>4 DEF EnvironmentTypes, EnvironmentHeld
<1>8. CASE owner[x] # e /\ Turn(a, e, Passed(a, e, x))
  <2>1. /\ Passed(a, e, x) \in Deletions /\ Passed(a, e, x).at = deletion[a][e].at
        /\ Passed(a, e, x).todo = deletion[a][e].todo \ {x} /\ Passed(a, e, x).aim = Nothing
        /\ Passed(a, e, x).errors = deletion[a][e].errors
    BY <1>3, DeletionPassed
  <2>2. x \notin Mine(e)
    BY <1>8 DEF Mine
  <2>3. Right(Passed(a, e, x), a, provision'[e], Mine(e)')
    BY <1>2, <1>3, <1>4, <2>1, <2>2 DEF Right
  <2>4. deletion' \in [Actor -> [Env -> Deletions]] /\ DeletionsRight'
    BY <1>2, <1>8, <2>1, <2>3, TurnRight
  <2> QED
    BY <1>1, <1>2, <2>4 DEF EnvironmentTypes, EnvironmentHeld
<1>9. CASE Turn(a, e, Failed(a, e, x))
  <2>1. /\ Failed(a, e, x) \in Deletions /\ Failed(a, e, x).at = deletion[a][e].at
        /\ Failed(a, e, x).aim = Nothing /\ Failed(a, e, x).errors = TRUE
    BY <1>3, DeletionFailed
  <2>2. Right(Failed(a, e, x), a, provision'[e], Mine(e)')
    BY <1>2, <1>3, <1>4, <2>1 DEF Right
  <2>3. deletion' \in [Actor -> [Env -> Deletions]] /\ DeletionsRight'
    BY <1>2, <1>9, <2>1, <2>2, TurnRight
  <2> QED
    BY <1>1, <1>2, <2>3 DEF EnvironmentTypes, EnvironmentHeld
<1> QED
  BY <1>5, <1>7, <1>8, <1>9

LEMMA DeleteClusterResourceInv ==
    ASSUME EnvironmentInv, NEW a \in Actor, NEW e \in Env, DeleteClusterResource(a, e)
    PROVE  EnvironmentInv'
<1> USE DEF EnvironmentInv
<1> DEFINE aim == deletion[a][e].aim
<1>1. /\ UNCHANGED <<provision, created, unsure, ns, expired, records>>
      /\ commandFaults' \in 0 .. MaxCommandFaults
      /\ \/ Turn(a, e, Passed(a, e, aim)) /\ owner' = [owner EXCEPT ![aim] = Nothing]
         \/ Turn(a, e, Failed(a, e, aim)) /\ UNCHANGED owner
  BY FaultsTyped DEF DeleteClusterResource
<1>2. deletion[a][e] \in Deletions /\ deletion[a][e].at = "cluster" /\ aim # Nothing
  BY DEF DeleteClusterResource, Busy, EnvironmentTypes
<1>3. aim \in Res /\ Right(deletion[a][e], a, provision[e], Mine(e))
  BY <1>2, DeletionFields DEF DeletionsRight
<1> HIDE DEF aim
<1>4. /\ owner' \in [Res -> Env \cup {Nothing, Customer}]
      /\ \A x \in Res : owner'[x] = owner[x] \/ owner'[x] = Nothing
  BY <1>1, <1>3 DEF EnvironmentTypes
<1>5. /\ \A f \in Env : Mine(f)' \subseteq Mine(f)
      /\ \A x \in Res : owner'[x] = Customer => owner[x] = Customer
  BY <1>4, EnvironmentAssumption DEF Mine
<1>6. /\ provision' = provision /\ ns' = ns /\ expired' = expired /\ created' = created
      /\ \A f \in Env : provision'[f] = provision[f]
  BY <1>1
<1>7. \A f \in Env : EnvironmentHeld(f)'
  <2> SUFFICES ASSUME NEW f \in Env PROVE EnvironmentHeld(f)'
    OBVIOUS
  <2>1. EnvironmentHeld(f)
    OBVIOUS
  <2> QED
    BY <1>5, <1>6, <2>1 DEF EnvironmentHeld
<1>8. CASE Turn(a, e, Passed(a, e, aim)) /\ owner' = [owner EXCEPT ![aim] = Nothing]
  <2>1. /\ Passed(a, e, aim) \in Deletions /\ Passed(a, e, aim).at = deletion[a][e].at
        /\ Passed(a, e, aim).todo = deletion[a][e].todo \ {aim}
        /\ Passed(a, e, aim).aim = Nothing
        /\ Passed(a, e, aim).errors = deletion[a][e].errors
    BY <1>2, DeletionPassed
  <2>2. aim \notin Mine(e)'
    BY <1>3, <1>8, EnvironmentAssumption DEF Mine, EnvironmentTypes
  <2>3. Right(Passed(a, e, aim), a, provision'[e], Mine(e)')
    BY <1>2, <1>3, <1>5, <1>6, <2>1, <2>2 DEF Right
  <2>4. deletion' \in [Actor -> [Env -> Deletions]] /\ DeletionsRight'
    BY <1>5, <1>6, <1>8, <2>1, <2>3, TurnRight
  <2> QED
    BY <1>1, <1>4, <1>7, <2>4 DEF EnvironmentTypes
<1>9. CASE Turn(a, e, Failed(a, e, aim)) /\ UNCHANGED owner
  <2>1. /\ Failed(a, e, aim) \in Deletions /\ Failed(a, e, aim).at = deletion[a][e].at
        /\ Failed(a, e, aim).aim = Nothing /\ Failed(a, e, aim).errors = TRUE
    BY <1>2, DeletionFailed
  <2>2. Right(Failed(a, e, aim), a, provision'[e], Mine(e)')
    BY <1>2, <1>3, <1>5, <1>6, <2>1 DEF Right
  <2>3. deletion' \in [Actor -> [Env -> Deletions]] /\ DeletionsRight'
    BY <1>5, <1>6, <1>9, <2>1, <2>2, TurnRight
  <2> QED
    BY <1>1, <1>4, <1>7, <2>3 DEF EnvironmentTypes
<1> QED
  BY <1>1, <1>8, <1>9

(* The namespace is next only if nothing of the environment is left.       *)
LEMMA ClusterResourcesDoneInv ==
    ASSUME EnvironmentInv, NEW a \in Actor, NEW e \in Env, ClusterResourcesDone(a, e)
    PROVE  EnvironmentInv'
<1> USE DEF EnvironmentInv
<1>1. /\ UNCHANGED <<created, unsure, ns, expired, owner, records, commandFaults>>
      /\ deletion[a][e] \in Deletions /\ deletion[a][e].at = "cluster"
      /\ deletion[a][e].todo = {}
  BY DEF ClusterResourcesDone, Busy, EnvironmentTypes
<1>2. Right(deletion[a][e], a, provision[e], Mine(e))
  BY DEF DeletionsRight
<1>3. /\ \A f \in Env : Mine(f)' = Mine(f)
      /\ \A x \in Res : owner'[x] = owner[x]
  BY <1>1 DEF Mine
<1>4. CASE ~deletion[a][e].errors
  <2> DEFINE new == [Off EXCEPT !.at = "namespace"]
  <2>1. new \in Deletions /\ new.at = "namespace" /\ new.aim = Nothing
    BY AtNamespace
  <2>2. Turn(a, e, new) /\ UNCHANGED provision
    BY <1>4 DEF ClusterResourcesDone, AllDeleted
  <2> HIDE DEF new
  <2>3. Right(new, a, provision'[e], Mine(e)')
    BY <1>1, <1>2, <1>3, <1>4, <2>1, <2>2 DEF Right
  <2>4. deletion' \in [Actor -> [Env -> Deletions]] /\ DeletionsRight'
    BY <1>3, <2>1, <2>2, <2>3, TurnRight
  <2> QED
    BY <1>1, <1>3, <2>2, <2>4 DEF EnvironmentTypes, EnvironmentHeld
<1>5. CASE deletion[a][e].errors
  <2>1. /\ Turn(a, e, Off)
        /\ IF a = "provision" THEN ProvisionAt(e, "over") ELSE UNCHANGED provision
    BY <1>5 DEF ClusterResourcesDone, AllDeleted
  <2>2. /\ provision' \in [Env -> Stages]
        /\ \A f \in Env : provision'[f] =
             IF f = e /\ a = "provision" THEN "over" ELSE provision[f]
    BY <2>1, ProvisionMoves DEF Stages, EnvironmentTypes
  <2>3. a = "provision" => provision[e] = "cleanup"
    BY <1>1, <1>2 DEF Right
  <2>4. Right(Off, a, provision'[e], Mine(e)')
    BY OffIsOff, RightWhenOff
  <2>5. deletion' \in [Actor -> [Env -> Deletions]] /\ DeletionsRight'
    BY <1>3, <2>1, <2>2, <2>3, <2>4, OffIsOff, TurnRight
  <2>6. \A f \in Env : EnvironmentHeld(f)'
    BY <1>1, <1>3, <2>2, <2>3 DEF EnvironmentHeld
  <2> QED
    BY <1>1, <2>2, <2>5, <2>6 DEF EnvironmentTypes
<1> QED
  BY <1>4, <1>5

LEMMA DeleteNamespaceInv ==
    ASSUME EnvironmentInv, NEW a \in Actor, NEW e \in Env, DeleteNamespace(a, e)
    PROVE  EnvironmentInv'
<1> USE DEF EnvironmentInv
<1>1. /\ UNCHANGED <<created, unsure, expired, owner>> /\ Turn(a, e, Off)
      /\ deletion[a][e].at = "namespace"
      /\ IF a = "provision" THEN ProvisionAt(e, "over") ELSE UNCHANGED provision
      /\ ns' \in {ns, Gone(e)} /\ records' \in SUBSET Env
      /\ commandFaults' \in 0 .. MaxCommandFaults
  BY FaultsTyped DEF DeleteNamespace, EnvironmentTypes
<1>2. Right(deletion[a][e], a, provision[e], Mine(e))
  BY DEF DeletionsRight
<1>3. /\ \A f \in Env : Mine(f)' = Mine(f)
      /\ \A x \in Res : owner'[x] = owner[x]
  BY <1>1 DEF Mine
<1>4. /\ provision' \in [Env -> Stages]
      /\ \A f \in Env : provision'[f] =
           IF f = e /\ a = "provision" THEN "over" ELSE provision[f]
  BY <1>1, ProvisionMoves DEF Stages, EnvironmentTypes
<1>5. /\ Mine(e) = {} /\ provision[e] \in {"cleanup", "ready", "over"}
      /\ a = "provision" => provision[e] = "cleanup"
      /\ a # "provision" => provision[e] \in {"ready", "over"}
  BY <1>1, <1>2 DEF Right
<1>6. /\ ns' \in [Env -> {"absent", "live", "terminating"}]
      /\ \A f \in Env \ {e} : ns'[f] = ns[f]
  BY <1>1 DEF Gone, EnvironmentTypes
<1>7. \A f \in Env : EnvironmentHeld(f)'
  <2> SUFFICES ASSUME NEW f \in Env PROVE EnvironmentHeld(f)'
    OBVIOUS
  <2>1. EnvironmentHeld(f)
    OBVIOUS
  <2> QED
    BY <1>1, <1>3, <1>4, <1>5, <1>6, <2>1 DEF EnvironmentHeld
<1>8. Right(Off, a, provision'[e], Mine(e)')
  BY OffIsOff, RightWhenOff
<1>9. deletion' \in [Actor -> [Env -> Deletions]] /\ DeletionsRight'
  BY <1>1, <1>3, <1>4, <1>5, <1>8, OffIsOff, TurnRight
<1> QED
  BY <1>1, <1>4, <1>6, <1>7, <1>9 DEF EnvironmentTypes

-----------------------------------------------------------------------------
(* destroy, the reaper and the rest                                        *)

LEMMA BeginsRight ==
    ASSUME EnvironmentInv, NEW a \in Actor \ {"provision"}, NEW e \in Env,
           provision[e] \in {"ready", "over"}, records' \in SUBSET Env, Begins(a, e)
    PROVE  EnvironmentInv'
<1> USE DEF EnvironmentInv
<1>1. UNCHANGED <<provision, created, unsure, ns, expired, owner, commandFaults>>
  BY DEF Begins
<1>2. /\ \A f \in Env : Mine(f)' = Mine(f)
      /\ \A x \in Res : owner'[x] = owner[x]
  BY <1>1 DEF Mine
<1> DEFINE new == [Off EXCEPT !.at = "cluster", !.todo = Res]
<1>3. new \in Deletions /\ new.at = "cluster" /\ new.todo = Res /\ new.aim = Nothing
  BY Begun
<1>4. Turn(a, e, new)
  BY DEF Begins
<1> HIDE DEF new
<1>5. Mine(e) \subseteq Res
  BY DEF Mine
<1>6. Right(new, a, provision'[e], Mine(e)')
  BY <1>1, <1>2, <1>3, <1>5 DEF Right
<1>7. deletion' \in [Actor -> [Env -> Deletions]] /\ DeletionsRight'
  BY <1>1, <1>2, <1>3, <1>4, <1>6, TurnRight
<1> QED
  BY <1>1, <1>2, <1>7 DEF EnvironmentTypes, EnvironmentHeld

LEMMA DestroyInv ==
    ASSUME EnvironmentInv, NEW e \in Env, Destroy(e)
    PROVE  EnvironmentInv'
<1>1. records' \in SUBSET Env
  BY DEF Destroy, EnvironmentInv, EnvironmentTypes
<1> QED
  BY <1>1, BeginsRight DEF Destroy, Actor

(* A lease that has ended is that of an environment provision has left.    *)
LEMMA ReapInv ==
    ASSUME EnvironmentInv, NEW e \in Env, Reap(e)
    PROVE  EnvironmentInv'
<1>1. records' \in SUBSET Env
  BY DEF Reap, EnvironmentInv, EnvironmentTypes
<1>2. provision[e] \in {"ready", "over"}
  <2>1. e \in expired /\ EnvironmentHeld(e) /\ provision[e] \in Stages
    BY DEF Reap, EnvironmentInv, EnvironmentTypes
  <2> QED
    BY <2>1 DEF EnvironmentHeld, Stages
<1> QED
  BY <1>1, <1>2, BeginsRight DEF Reap, Actor

LEMMA LeaseEndsInv ==
    ASSUME EnvironmentInv, ~Slow, NEW e \in Env, LeaseEnds(e)
    PROVE  EnvironmentInv'
<1> USE DEF EnvironmentInv
<1>1. /\ UNCHANGED <<provision, created, unsure, ns, owner, records, deletion, commandFaults>>
      /\ expired' = expired \cup {e} /\ ns[e] # "absent" /\ provision[e] \notin Provisioning
  BY DEF LeaseEnds
<1>2. EnvironmentTypes'
  BY <1>1 DEF EnvironmentTypes
<1>3. /\ \A f \in Env : Mine(f)' = Mine(f)
      /\ \A f \in Env : provision'[f] = provision[f]
      /\ \A x \in Res : owner'[x] = owner[x]
  BY <1>1 DEF Mine
<1>4. \A f \in Env : EnvironmentHeld(f)'
  <2> SUFFICES ASSUME NEW f \in Env PROVE EnvironmentHeld(f)'
    OBVIOUS
  <2>1. EnvironmentHeld(f) /\ EnvironmentHeld(e)
    OBVIOUS
  <2>2. provision[e] \notin {"idle", "namespace", "guardrails", "cluster", "cleanup"}
    BY <1>1, <2>1 DEF EnvironmentHeld, Provisioning
  <2>3. f # e => (f \in expired' <=> f \in expired)
    BY <1>1
  <2> QED
    BY <1>1, <1>3, <2>1, <2>2, <2>3 DEF EnvironmentHeld
<1>5. DeletionsRight'
  BY <1>1, <1>3, Undisturbed DEF DeletionsRight
<1> QED
  BY <1>2, <1>4, <1>5

LEMMA NamespaceGoneInv ==
    ASSUME EnvironmentInv, NEW e \in Env, NamespaceGone(e)
    PROVE  EnvironmentInv'
<1> USE DEF EnvironmentInv
<1>1. /\ UNCHANGED <<provision, created, unsure, expired, owner, records, deletion, commandFaults>>
      /\ ns[e] = "terminating" /\ ns' = [ns EXCEPT ![e] = "absent"]
  BY DEF NamespaceGone
<1>2. EnvironmentTypes' /\ ns'[e] = "absent" /\ \A f \in Env \ {e} : ns'[f] = ns[f]
  BY <1>1 DEF EnvironmentTypes
<1>3. /\ \A f \in Env : Mine(f)' = Mine(f)
      /\ \A f \in Env : provision'[f] = provision[f]
      /\ \A x \in Res : owner'[x] = owner[x]
  BY <1>1 DEF Mine
<1>4. \A f \in Env : EnvironmentHeld(f)'
  <2> SUFFICES ASSUME NEW f \in Env PROVE EnvironmentHeld(f)'
    OBVIOUS
  <2>1. EnvironmentHeld(f) /\ EnvironmentHeld(e)
    OBVIOUS
  <2> QED
    BY <1>1, <1>2, <1>3, <2>1 DEF EnvironmentHeld
<1>5. DeletionsRight'
  BY <1>1, <1>3, Undisturbed DEF DeletionsRight
<1> QED
  BY <1>2, <1>4, <1>5

LEMMA RestartInv ==
    ASSUME EnvironmentInv, Restart
    PROVE  EnvironmentInv'
<1> USE DEF EnvironmentInv
<1>1. /\ UNCHANGED <<created, unsure, ns, expired, owner>> /\ records' = {}
      /\ deletion' = [a \in Actor |-> [e \in Env |-> Off]]
      /\ provision' = [e \in Env |->
                         IF provision[e] \in Provisioning THEN "over" ELSE provision[e]]
      /\ commandFaults' \in 0 .. MaxCommandFaults
  BY FaultsTyped DEF Restart
<1>2. provision' \in [Env -> Stages]
  BY <1>1 DEF EnvironmentTypes, Stages
<1>3. deletion' \in [Actor -> [Env -> Deletions]]
  BY <1>1, OffIsOff
<1>4. EnvironmentTypes'
  BY <1>1, <1>2, <1>3 DEF EnvironmentTypes
<1>5. \A f \in Env : EnvironmentHeld(f)'
  <2> SUFFICES ASSUME NEW f \in Env PROVE EnvironmentHeld(f)'
    OBVIOUS
  <2>1. EnvironmentHeld(f) /\ Mine(f)' = Mine(f)
    BY <1>1 DEF Mine
  <2>2. provision'[f] = IF provision[f] \in Provisioning THEN "over" ELSE provision[f]
    BY <1>1
  <2> QED
    BY <1>1, <2>1, <2>2 DEF EnvironmentHeld, Provisioning
<1>6. DeletionsRight'
  BY <1>1, OffIsOff, RightWhenOff DEF DeletionsRight, Spared
<1> QED
  BY <1>4, <1>5, <1>6

-----------------------------------------------------------------------------
(* The theorems *)

LEMMA EnvironmentStepInv ==
    ASSUME EnvironmentInv, ~Slow, [EnvironmentNext]_environmentVars
    PROVE  EnvironmentInv'
<1>1. CASE UNCHANGED environmentVars
  BY <1>1 DEF environmentVars, EnvironmentInv, EnvironmentTypes, EnvironmentHeld, DeletionsRight,
     Right, Spared, Mine
<1>2. CASE Restart
  BY <1>2, RestartInv
<1>3. ASSUME NEW e \in Env,
             \/ Provision(e) \/ ProvisionStep(e) \/ Destroy(e) \/ Reap(e)
             \/ LeaseEnds(e) \/ NamespaceGone(e)
      PROVE  EnvironmentInv'
  BY <1>3, ProvisionInv, CreateNamespaceInv, ApplyGuardrailsInv, CreateClusterResourceInv,
     ReadyInv, DestroyInv, ReapInv, LeaseEndsInv, NamespaceGoneInv DEF ProvisionStep
<1>4. ASSUME NEW a \in Actor, NEW e \in Env, DeleteStep(a, e)
      PROVE  EnvironmentInv'
  BY <1>4, ReadLabelInv, DeleteClusterResourceInv, ClusterResourcesDoneInv, DeleteNamespaceInv
     DEF DeleteStep
<1> QED
  BY <1>1, <1>2, <1>3, <1>4 DEF EnvironmentNext

LEMMA EnvironmentInvariant == ~Slow => (EnvironmentSpec => []EnvironmentInv)
<1>1. ~Slow /\ EnvironmentInv /\ [EnvironmentNext]_environmentVars => EnvironmentInv'
  BY EnvironmentStepInv
<1>2. CASE ~Slow
  BY <1>1, <1>2, EnvironmentInitInv, PTL DEF EnvironmentSpec
<1> QED
  BY <1>2

(* No step takes the customer's label away.                                *)
LEMMA CustomerKeptStep ==
    ASSUME EnvironmentInv, [EnvironmentNext]_environmentVars
    PROVE  CustomerKept
<1> SUFFICES ASSUME NEW x \in Res, owner[x] = Customer PROVE owner'[x] = Customer
  BY DEF CustomerKept
<1>1. owner \in [Res -> Env \cup {Nothing, Customer}]
  BY DEF EnvironmentInv, EnvironmentTypes
<1>2. ASSUME NEW e \in Env, CreateClusterResource(e) PROVE owner'[x] = Customer
  BY <1>1, <1>2, EnvironmentAssumption DEF CreateClusterResource
<1>3. ASSUME NEW a \in Actor, NEW e \in Env, DeleteClusterResource(a, e)
      PROVE  owner'[x] = Customer
  <2>1. Spared(deletion[a][e]) /\ deletion[a][e].aim # Nothing
    BY <1>3 DEF DeleteClusterResource, EnvironmentInv, DeletionsRight
  <2> QED
    BY <1>1, <1>3, <2>1 DEF DeleteClusterResource, Spared
<1>4. ASSUME NEW a \in Actor, NEW e \in Env,
             ReadLabel(a, e) \/ ClusterResourcesDone(a, e) \/ DeleteNamespace(a, e)
      PROVE  owner'[x] = Customer
  BY <1>4 DEF ReadLabel, ClusterResourcesDone, DeleteNamespace
<1>5. ASSUME NEW e \in Env,
             \/ Provision(e) \/ CreateNamespace(e) \/ ApplyGuardrails(e) \/ Ready(e)
             \/ Destroy(e) \/ Reap(e) \/ LeaseEnds(e) \/ NamespaceGone(e)
      PROVE  owner'[x] = Customer
  BY <1>5 DEF Provision, CreateNamespace, ApplyGuardrails, Ready, Destroy, Reap, Begins,
     LeaseEnds, NamespaceGone
<1>6. CASE Restart \/ UNCHANGED environmentVars
  BY <1>6 DEF Restart, environmentVars
<1> QED
  BY <1>2, <1>3, <1>4, <1>5, <1>6 DEF EnvironmentNext, ProvisionStep, DeleteStep

LEMMA HeldObjects == EnvironmentInv => \A e \in Env, x \in Res : ~Orphaned(x, e)
BY DEF EnvironmentInv, EnvironmentHeld, Orphaned, Mine

(* Every environment is in one of its stages and every deletion aims at an *)
(* object the stack renders (KubernetesEnvironmentProvider).               *)
THEOREM EnvironmentsTyped == ~Slow => (EnvironmentSpec => []EnvironmentTypes)
<1>1. EnvironmentInv => EnvironmentTypes
  BY DEF EnvironmentInv
<1> QED
  BY <1>1, EnvironmentInvariant, PTL

(* No cluster-scoped object outlives the namespace that lists it, whichever *)
(* of provision, destroy and the reaper deletes and whatever fails or      *)
(* restarts, and none of the customer's is deleted                         *)
(* (#deleteOwnedClusterResources): for leases that outlive provisioning.   *)
THEOREM NothingOrphaned == ~Slow => (EnvironmentSpec => EnvironmentsAreClean)
<1>1. CASE ~Slow
  <2>1. EnvironmentInv /\ [EnvironmentNext]_environmentVars => [CustomerKept]_environmentVars
    BY CustomerKeptStep
  <2>2. EnvironmentSpec => []EnvironmentInv
    BY <1>1, EnvironmentInvariant
  <2>3. EnvironmentSpec => [][CustomerKept]_environmentVars
    BY <2>1, <2>2, PTL DEF EnvironmentSpec
  <2> QED
    BY <2>2, <2>3, HeldObjects, PTL DEF EnvironmentsAreClean
<1> QED
  BY <1>1

=============================================================================
