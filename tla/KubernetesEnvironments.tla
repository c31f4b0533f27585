------------------------ MODULE KubernetesEnvironments ------------------------
(***************************************************************************)
(* KubernetesEnvironmentProvider: an environment is a namespace with a     *)
(* lease and, when both sides opted in, cluster-scoped objects that bear   *)
(* its label.  The namespace carries the identities of those objects, so   *)
(* that a provider that lost its records can still delete them, and it is  *)
(* deleted last.  provision, destroy and the reaper interleave at every    *)
(* command; the process may restart between any two.                       *)
(*                                                                         *)
(* Every stack renders the same cluster-scoped objects Res, some of which  *)
(* the customer's cluster has already.  A namespace name is never used     *)
(* again, so an environment stands for its namespace.                      *)
(***************************************************************************)
EXTENDS Naturals, FiniteSets

CONSTANTS Env,        \* calls of provision
          Res,        \* cluster-scoped objects a stack renders
          Slow,       \* whether a lease may end while provision is at work
          Customer,   \* the label, or none, of what the customer's cluster has
          Nothing,    \* no object, or none of a name
          MaxCommandFaults   \* bound on failing commands and restarts

ASSUME EnvironmentAssumption ==
    /\ Customer \notin Env /\ Nothing \notin Env \cup Res \cup {Customer}
    /\ Slow \in BOOLEAN /\ MaxCommandFaults \in Nat

VARIABLES provision, \* where provision is
          created,   \* the objects it created, and the one it is unsure of
          unsure,
          ns, expired,
          owner,     \* the label of a cluster-scoped object
          records,   \* environments this process remembers
          deletion,  \* a deletion under way, by who runs it
          commandFaults

environmentVars ==
    <<provision, created, unsure, ns, expired, owner, records, deletion, commandFaults>>

Actor == {"provision", "destroy", "reap"}
Off == [at |-> "off", todo |-> {}, aim |-> Nothing, errors |-> FALSE]

Stages == {"idle", "namespace", "guardrails", "cluster", "cleanup", "ready", "over"}
Deletions == [at : {"off", "cluster", "namespace"}, todo : SUBSET Res,
              aim : Res \cup {Nothing}, errors : BOOLEAN]

EnvironmentTypes ==
    /\ provision \in [Env -> Stages]
    /\ created \in [Env -> SUBSET Res] /\ unsure \in [Env -> Res \cup {Nothing}]
    /\ ns \in [Env -> {"absent", "live", "terminating"}] /\ expired \subseteq Env
    /\ owner \in [Res -> Env \cup {Nothing, Customer}] /\ records \subseteq Env
    /\ deletion \in [Actor -> [Env -> Deletions]]
    /\ commandFaults \in 0 .. MaxCommandFaults

EnvironmentInit ==
    /\ provision = [e \in Env |-> "idle"]
    /\ created = [e \in Env |-> {}] /\ unsure = [e \in Env |-> Nothing]
    /\ ns = [e \in Env |-> "absent"] /\ expired = {}
    /\ owner \in [Res -> {Nothing, Customer}]
    /\ records = {} /\ deletion = [a \in Actor |-> [e \in Env |-> Off]]
    /\ commandFaults = 0

CommandFails == commandFaults < MaxCommandFaults /\ commandFaults' = commandFaults + 1
CommandWorks == UNCHANGED commandFaults

Provisioning == {"namespace", "guardrails", "cluster", "cleanup"}

ProvisionAt(e, s) == provision' = [provision EXCEPT ![e] = s]

-----------------------------------------------------------------------------
(* provision                                                               *)

(* The stack is rendered and made safe before anything is created.         *)
Provision(e) ==
    /\ provision[e] = "idle" /\ ProvisionAt(e, "namespace")
    /\ UNCHANGED <<created, unsure, ns, expired, owner, records, deletion, commandFaults>>

(* A create that throws leaves namespaceCreated unset, whatever it did.    *)
CreateNamespace(e) ==
    /\ provision[e] = "namespace"
    /\ \/ CommandWorks /\ ns' = [ns EXCEPT ![e] = "live"] /\ ProvisionAt(e, "guardrails")
       \/ CommandFails /\ ns' \in {ns, [ns EXCEPT ![e] = "live"]} /\ ProvisionAt(e, "over")
    /\ UNCHANGED <<created, unsure, expired, owner, records, deletion>>

(* The catch of provision: what was created, and the object whose create   *)
(* threw, are looked up again before they are deleted.                     *)
Cleanup(e, doubt) ==
    /\ ProvisionAt(e, "cleanup") /\ unsure' = [unsure EXCEPT ![e] = doubt]
    /\ deletion' = [deletion EXCEPT !["provision"][e] =
                    [Off EXCEPT !.at = "cluster", !.todo = created[e] \cup ({doubt} \ {Nothing})]]

ApplyGuardrails(e) ==
    /\ provision[e] = "guardrails"
    /\ \/ CommandWorks /\ ns[e] = "live" /\ ProvisionAt(e, "cluster")
          /\ UNCHANGED <<unsure, deletion>>
       \/ (CommandFails \/ (ns[e] # "live" /\ CommandWorks)) /\ Cleanup(e, Nothing)
    /\ UNCHANGED <<created, ns, expired, owner, records>>

(* Created, never applied: an object that is there already is an error.    *)
CreateClusterResource(e) ==
    /\ provision[e] = "cluster"
    /\ \E x \in Res \ created[e] :
         \/ /\ owner[x] = Nothing /\ CommandWorks
            /\ owner' = [owner EXCEPT ![x] = e]
            /\ created' = [created EXCEPT ![e] = @ \cup {x}]
            /\ UNCHANGED <<provision, unsure, deletion>>
         \/ /\ owner[x] # Nothing /\ CommandWorks /\ Cleanup(e, x) /\ UNCHANGED <<owner, created>>
         \/ /\ owner[x] = Nothing /\ CommandFails /\ Cleanup(e, x)
            /\ owner' \in {owner, [owner EXCEPT ![x] = e]} /\ UNCHANGED created
    /\ UNCHANGED <<ns, expired, records>>

(* The namespaced objects, readiness and the record.                       *)
Ready(e) ==
    /\ provision[e] = "cluster" /\ created[e] = Res
    /\ \/ /\ CommandWorks /\ ns[e] = "live" /\ ProvisionAt(e, "ready")
          /\ records' = records \cup {e} /\ UNCHANGED <<unsure, deletion>>
       \/ /\ CommandFails \/ (ns[e] # "live" /\ CommandWorks)
          /\ Cleanup(e, Nothing) /\ UNCHANGED records
    /\ UNCHANGED <<created, ns, expired, owner>>

-----------------------------------------------------------------------------
(* #deleteOwnedClusterResources, for whoever runs it: the label is read    *)
(* and the object deleted by two commands.                                 *)

Busy(a, e) == deletion[a][e].at = "cluster"
Turn(a, e, new) == deletion' = [deletion EXCEPT ![a][e] = new]

Skips(a, e, x) == owner[x] = Nothing \/ (a = "provision" /\ x = unsure[e])
Failed(a, e, x) == [deletion[a][e] EXCEPT !.todo = @ \ {x}, !.aim = Nothing, !.errors = TRUE]
Passed(a, e, x) == [deletion[a][e] EXCEPT !.todo = @ \ {x}, !.aim = Nothing]

ReadLabel(a, e) ==
    /\ Busy(a, e) /\ deletion[a][e].aim = Nothing
    /\ \E x \in deletion[a][e].todo :
         \/ owner[x] = e /\ CommandWorks /\ Turn(a, e, [deletion[a][e] EXCEPT !.aim = x])
         \/ owner[x] # e /\ CommandWorks
            /\ Turn(a, e, IF Skips(a, e, x) THEN Passed(a, e, x) ELSE Failed(a, e, x))
         \/ CommandFails /\ Turn(a, e, Failed(a, e, x))
    /\ UNCHANGED <<provision, created, unsure, ns, expired, owner, records>>

DeleteClusterResource(a, e) ==
    /\ Busy(a, e) /\ deletion[a][e].aim # Nothing
    /\ LET aim == deletion[a][e].aim IN
         \/ /\ CommandWorks /\ Turn(a, e, Passed(a, e, aim))
            /\ owner' = [owner EXCEPT ![aim] = Nothing]
         \/ CommandFails /\ Turn(a, e, Failed(a, e, aim)) /\ UNCHANGED owner
    /\ UNCHANGED <<provision, created, unsure, ns, expired, records>>

(* Mutant of AllDeleted: a label that could not be read is not an error.   *)
DeletedOrUnread(a, e) == deletion[a][e].aim = Nothing

AllDeleted(a, e) == ~deletion[a][e].errors

(* An error keeps the namespace, and its list of objects, for the reaper.  *)
ClusterResourcesDone(a, e) ==
    /\ Busy(a, e) /\ deletion[a][e].todo = {}
    /\ IF AllDeleted(a, e)
         THEN Turn(a, e, [Off EXCEPT !.at = "namespace"]) /\ UNCHANGED provision
         ELSE /\ Turn(a, e, Off)
              /\ IF a = "provision" THEN ProvisionAt(e, "over") ELSE UNCHANGED provision
    /\ UNCHANGED <<created, unsure, ns, expired, owner, records, commandFaults>>

Gone(e) == IF ns[e] = "live" THEN [ns EXCEPT ![e] = "terminating"] ELSE ns

DeleteNamespace(a, e) ==
    /\ deletion[a][e].at = "namespace" /\ Turn(a, e, Off)
    /\ \/ CommandWorks /\ ns' = Gone(e) /\ records' = records \ {e}
       \/ CommandFails /\ UNCHANGED <<ns, records>>
    /\ IF a = "provision" THEN ProvisionAt(e, "over") ELSE UNCHANGED provision
    /\ UNCHANGED <<created, unsure, expired, owner>>

-----------------------------------------------------------------------------
(* destroy finds its record in memory, or rebuilds it from the annotations *)
(* of the namespace; the reaper takes an expired namespace, one at a time. *)

Begins(a, e) ==
    /\ deletion[a][e] = Off /\ Turn(a, e, [Off EXCEPT !.at = "cluster", !.todo = Res])
    /\ UNCHANGED <<provision, created, unsure, ns, expired, owner, commandFaults>>

Destroy(e) ==
    /\ provision[e] = "ready" /\ (e \in records \/ ns[e] # "absent")
    /\ records' = records \cup {e} /\ Begins("destroy", e)

(* Mutant of Reap: only what this process remembers is looked at.          *)
ReapRemembered(e) ==
    /\ e \in records \cap expired
    /\ \A f \in Env : deletion["reap"][f] = Off
    /\ Begins("reap", e) /\ UNCHANGED records

Reap(e) ==
    /\ ns[e] # "absent" /\ e \in expired
    /\ \A f \in Env : deletion["reap"][f] = Off
    /\ Begins("reap", e) /\ UNCHANGED records

(* Time, or the death of the owner the reaper asks about.                  *)
LeaseEnds(e) ==
    /\ ns[e] # "absent" /\ e \notin expired /\ (Slow \/ provision[e] \notin Provisioning)
    /\ expired' = expired \cup {e}
    /\ UNCHANGED <<provision, created, unsure, ns, owner, records, deletion, commandFaults>>

NamespaceGone(e) ==
    /\ ns[e] = "terminating" /\ ns' = [ns EXCEPT ![e] = "absent"]
    /\ UNCHANGED <<provision, created, unsure, expired, owner, records, deletion, commandFaults>>

Restart ==
    /\ CommandFails /\ records' = {} /\ deletion' = [a \in Actor |-> [e \in Env |-> Off]]
    /\ provision' = [e \in Env |-> IF provision[e] \in Provisioning THEN "over" ELSE provision[e]]
    /\ UNCHANGED <<created, unsure, ns, expired, owner>>

-----------------------------------------------------------------------------

ProvisionStep(e) ==
    \/ CreateNamespace(e) \/ ApplyGuardrails(e) \/ CreateClusterResource(e) \/ Ready(e)

DeleteStep(a, e) ==
    \/ ReadLabel(a, e) \/ DeleteClusterResource(a, e)
    \/ ClusterResourcesDone(a, e) \/ DeleteNamespace(a, e)

EnvironmentNext ==
    \/ \E e \in Env : \/ Provision(e) \/ ProvisionStep(e) \/ Destroy(e) \/ Reap(e)
                      \/ LeaseEnds(e) \/ NamespaceGone(e)
                      \/ \E a \in Actor : DeleteStep(a, e)
    \/ Restart

EnvironmentSpec == EnvironmentInit /\ [][EnvironmentNext]_environmentVars

-----------------------------------------------------------------------------

(* What the customer's cluster had stays, whatever fails or restarts: no   *)
(* provision, compensation, destroy or sweep deletes an object that is not *)
(* labelled as its own (#deleteOwnedClusterResources).                     *)
CustomerKept == \A x \in Res : owner[x] = Customer => owner'[x] = Customer

(* A cluster-scoped object never outlives the namespace that lists it:     *)
(* once it did, nobody could know whose it was ("Keep the namespace ... so *)
(* a later reaper can retry without guessing").                            *)
Orphaned(x, e) == owner[x] = e /\ provision[e] \notin Provisioning /\ ns[e] = "absent"

(* No object outlives its environment, and none of the customer's is       *)
(* deleted with one (#deleteOwnedClusterResources, destroy, reap).         *)
EnvironmentsAreClean ==
    [](\A e \in Env, x \in Res : ~Orphaned(x, e)) /\ [][CustomerKept]_environmentVars

(* Whatever was lost or failed, an environment goes away in the end, and   *)
(* by EnvironmentsAreClean its objects with it: "a restarted reaper can    *)
(* safely reclaim the environment" (ports/environment.ts).  An object of   *)
(* the customer's that the stack has too stops every deletion.             *)
Reclaimed == (\E x \in Res : owner[x] = Customer) \/ \A e \in Env : ns[e] = "absent"

===============================================================================
