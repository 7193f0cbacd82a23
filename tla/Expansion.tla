------------------------------ MODULE Expansion ------------------------------
(***************************************************************************)
(* The expansion of a cluster: deploy_node.sls for nodes with the role etcd,  *)
(* several at a time, and the etcd cluster that they join.  A new member      *)
(* counts for the majority as soon as it is added and answers only later; the *)
(* pillar, and so every other step of every deployment, needs the API server, *)
(* which needs that majority.                                                 *)
(***************************************************************************)
EXTENDS Naturals, FiniteSets, Pillar, NodeTools

CONSTANTS
  Boot,        \* the bootstrap node, the first member of the cluster
  New,         \* the nodes that are deployed
  MaxFaults    \* how many times something fails by itself

Hosts == {Boot} \cup New

ASSUME HostsAssumption == IsFiniteSet(New) /\ Boot \notin New
ASSUME FaultsAssumption == MaxFaults \in Nat

VARIABLES
  members,   \* the members of the etcd cluster
  started,   \* those that joined it: they have a name
  down,      \* those whose process does not run
  pod,       \* for each node, the initial cluster of its etcd manifest, or none
  up,        \* the minions whose key is accepted
  mine,      \* the minions whose address is in the mine
  step,      \* for each new node, the state that its deployment has reached
  refreshed, \* those whose deployment did refresh the mine
  silent,    \* whether the API server is out of service by itself
  faults

etcd == <<members, started, down>>
vars == <<etcd, pod, up, mine, step, refreshed, silent, faults>>

Fault == faults < MaxFaults /\ faults' = faults + 1

Running == started \ down
HasQuorum == 2 * Cardinality(Running) > Cardinality(members)

\* What a pillar is compiled from, and the parts of it that are used here.
World ==
  [file |-> GoodFile, kubeconfig |-> TRUE, api |-> HasQuorum /\ ~silent, cluster |-> "2",
   labels |-> [h \in Hosts |-> [roles |-> {"etcd", "master"}, version |-> "2"]],
   volumes |-> {}, classes |-> {}, services |-> [s \in Services |-> "ready"],
   keys |-> [k \in {"sa", "apiserver"} |-> "present"], mine |-> mine,
   etcd |-> [up |-> [h \in Hosts |-> h \in Running], lists |-> TRUE, members |-> members]]

NodesPart   == Nodes(World, {Boot})
MembersPart == _load_members(NodesPart, World).members

Steps == {"idle", "deploy", "mine", "check", "install", "exists", "add", "health",
          "before", "highstate", "done", "failed"}

TypeOK ==
  /\ members \subseteq Hosts /\ started \subseteq members /\ down \subseteq started
  /\ pod \in [Hosts -> SUBSET Hosts] /\ up \subseteq Hosts /\ mine \subseteq up
  /\ step \in [New -> Steps] /\ refreshed \subseteq New /\ silent \in BOOLEAN /\ faults \in 0..MaxFaults

-----------------------------------------------------------------------------
(* deploy_node.sls *)

\* Mutant: the member is registered before its pod is installed.
AfterRegisterFirst(s) ==
  CASE s = "deploy" -> "mine" [] s = "mine" -> "check" [] s = "check" -> "exists"
    [] s = "exists" -> "add"  [] s = "add" -> "install" [] s = "install" -> "health"
    [] s = "health" -> "before" [] s = "before" -> "highstate" [] s = "highstate" -> "done"
\* The state that runs next.
After(s) ==
  CASE s = "deploy" -> "mine" [] s = "mine" -> "check" [] s = "check" -> "install"
    [] s = "install" -> "exists" [] s = "exists" -> "add" [] s = "add" -> "health"
    [] s = "health" -> "before" [] s = "before" -> "highstate" [] s = "highstate" -> "done"

Goes(n, to) == step' = [step EXCEPT ![n] = to]
Succeeds(n) == Goes(n, After(step[n]))
Fails(n)    == Goes(n, "failed")
At(n, s) == step[n] = s

\* The orchestration is rendered: it needs the version of the node.
Render(n) ==
  /\ step[n] \in {"idle", "failed"}
  /\ NodesPart.value # {}
  /\ Goes(n, IF n \in up THEN "mine" ELSE "deploy")
  /\ refreshed' = refreshed \ {n}
  /\ UNCHANGED <<etcd, pod, up, mine, silent, faults>>

\* By salt-ssh, then the key is accepted and the minion waited for.
DeployMinion(n) ==
  /\ At(n, "deploy")
  /\ LET found == targets(n, World) # {}
     IN /\ up' = IF found THEN up \cup {n} ELSE up
        /\ IF found THEN Succeeds(n) ELSE Fails(n)
  /\ UNCHANGED <<etcd, pod, mine, refreshed, silent, faults>>

\* mine.update on every minion.  The installation of etcd does not wait for it.
RefreshMine(n) ==
  /\ At(n, "mine") /\ Succeeds(n)
  /\ \/ mine' = up /\ refreshed' = refreshed \cup {n} /\ UNCHANGED faults
     \/ Fault /\ UNCHANGED <<mine, refreshed>>
  /\ UNCHANGED <<etcd, pod, up, silent>>

\* Five attempts, which may all come while the API server does not answer.
Check(n) ==
  /\ At(n, "check") \/ At(n, "before")
  /\ IF check_pillar_keys(Services, ext_pillar_endpoints(World)) THEN Succeeds(n) ELSE Fails(n)
  /\ UNCHANGED <<etcd, pod, up, mine, refreshed, silent, faults>>

-----------------------------------------------------------------------------
(* kubernetes/etcd/installed.sls *)

\* The members that have a name.
Named == MembersPart \cap started

\* Mutant: nothing is raised about an empty list.
InitialClusterAlone(n) == {Named \cup {n}}
\* The list of the members that started, and the node: an empty list raises.
InitialCluster(n) == IF Named = {} THEN {} ELSE {Named \cup {n}}

\* The manifest that the states render on a node: only its context changes here.
Rendered(cluster) == static_pod_managed("manifest", cluster, "2", <<>>, <<>>, <<>>)

\* The manifest of the node: the kubelet starts the pod again when it changed.
Manifest(n, cluster) ==
  /\ pod' = [pod EXCEPT ![n] = cluster]
  /\ down' = IF n \in started /\ Rendered(cluster) # Rendered(pod[n])
             THEN down \cup {n} ELSE down

Install(n) ==
  /\ At(n, "install")
  /\ IF InitialCluster(n) = {} THEN Fails(n) /\ UNCHANGED <<pod, down>>
     ELSE Succeeds(n) /\ \E cluster \in InitialCluster(n) : Manifest(n, cluster)
  /\ UNCHANGED <<members, started, up, mine, refreshed, silent, faults>>

-----------------------------------------------------------------------------
(* orchestrate/register_etcd.sls: metalk8s_etcd.member_present, then the      *)
(* health of the cluster as the new member tells it.                          *)

\* The hosts are those of the pillar that the orchestration was rendered with.
Endpoint == _get_endpoint_up(Nodes([World EXCEPT !.api = TRUE], {Boot}), World)

\* Mutant: a member is always added.
urls_exist_never(n) == FALSE
urls_exist_in_cluster(n) == n \in members

\* An exception of the check is not caught: the state fails too.
Exists(n) ==
  /\ At(n, "exists")
  /\ CASE n \notin mine \/ Endpoint = {} -> Fails(n)
       [] n \in mine /\ Endpoint # {} -> IF urls_exist_in_cluster(n) THEN Goes(n, After("add"))
                                                                   ELSE Succeeds(n)
  /\ UNCHANGED <<etcd, pod, up, mine, refreshed, silent, faults>>

\* etcd refuses a URL that it has, and a change that would take more members
\* than have started; it cannot change without a majority.
Addable(n) ==
  /\ n \notin members /\ HasQuorum
  /\ \/ Cardinality(members) = 1
     \/ 2 * Cardinality(started) > Cardinality(members) + 1

add_etcd_node(n) ==
  /\ At(n, "add")
  /\ IF Endpoint # {} /\ Addable(n) THEN members' = members \cup {n} /\ Succeeds(n)
                                    ELSE UNCHANGED members /\ Fails(n)
  /\ UNCHANGED <<started, down, pod, up, mine, refreshed, silent, faults>>

\* Mutant: a cluster in which a member answers is healthy.
HealthyIfAny(n) == members \cap Running # {}
\* The members are those that the new one tells.  One that does not answer is
\* enough, and one that has not started has no URL to be asked at.
Healthy(n) == n \in Running /\ members \subseteq Running

\* The last of the five attempts of module_run finds the cluster as it is now, or
\* an earlier one did.
check_etcd_health(n) ==
  /\ At(n, "health")
  /\ IF Healthy(n) THEN Succeeds(n) ELSE Fails(n)
  /\ UNCHANGED <<etcd, pod, up, mine, refreshed, silent, faults>>

\* The highstate requires the mine, renders the manifest of etcd again, and
\* waits for etcd.
Highstate(n) ==
  /\ At(n, "highstate")
  /\ \/ /\ InitialCluster(n) = {} \/ n \notin refreshed
        /\ Fails(n) /\ UNCHANGED <<pod, down>>
     \/ /\ n \in refreshed
        /\ \E cluster \in InitialCluster(n) : Manifest(n, cluster)
        /\ IF HasQuorum THEN Succeeds(n) ELSE Fails(n)
  /\ UNCHANGED <<members, started, up, mine, refreshed, silent, faults>>

\* Any state may fail by itself, or its orchestration be killed.
Killed(n) ==
  /\ step[n] \notin {"idle", "done", "failed"} /\ Fault /\ Fails(n)
  /\ UNCHANGED <<etcd, pod, up, mine, refreshed, silent>>

-----------------------------------------------------------------------------
(* The pods of etcd, and the API server. *)

\* A new member takes the cluster from its peers, if it is the one it expects.
Join(n) ==
  /\ n \in members \ started /\ pod[n] = members
  /\ pod[n] \cap Running # {}
  /\ started' = started \cup {n}
  /\ UNCHANGED <<members, down, pod, up, mine, step, refreshed, silent, faults>>

Stops(n) ==
  /\ n \in Running /\ Fault /\ down' = down \cup {n}
  /\ UNCHANGED <<members, started, pod, up, mine, step, refreshed, silent>>

Restarts(n) ==
  /\ n \in down /\ down' = down \ {n}
  /\ UNCHANGED <<members, started, pod, up, mine, step, refreshed, silent, faults>>

ApiFails ==
  /\ ~silent /\ Fault /\ silent' = TRUE
  /\ UNCHANGED <<etcd, pod, up, mine, step, refreshed>>

ApiRecovers ==
  /\ silent /\ silent' = FALSE
  /\ UNCHANGED <<etcd, pod, up, mine, step, refreshed, faults>>

Init ==
  /\ members = {Boot} /\ started = {Boot} /\ down = {}
  /\ pod = [h \in Hosts |-> IF h = Boot THEN {Boot} ELSE {}]
  /\ up = {Boot} /\ mine = {Boot} /\ step = [n \in New |-> "idle"]
  /\ refreshed = {} /\ silent = FALSE /\ faults = 0

Deploys(n) ==
  \/ Render(n) \/ DeployMinion(n) \/ RefreshMine(n) \/ Check(n) \/ Install(n)
  \/ Exists(n) \/ add_etcd_node(n) \/ check_etcd_health(n) \/ Highstate(n)

Next ==
  \/ \E n \in New : Deploys(n) \/ Killed(n) \/ Join(n)
  \/ \E h \in Hosts : Stops(h) \/ Restarts(h)
  \/ ApiFails \/ ApiRecovers

\* Orchestrations go on and are started again when they fail; the kubelets start
\* the pods again; the API server comes back.
Spec ==
  /\ Init /\ [][Next]_vars
  /\ \A n \in New : WF_vars(Deploys(n)) /\ WF_vars(Join(n))
  /\ \A h \in Hosts : WF_vars(Restarts(h))
  /\ WF_vars(ApiRecovers)

-----------------------------------------------------------------------------
(* Properties. *)

\* A deployment that passed the health check has made its node a member that
\* started: one that was only added is not taken for it, however the deployments
\* are mixed, killed and started again.
DoneIsMember ==
  \A n \in New : step[n] \in {"before", "highstate", "done"} => n \in started

\* No etcd is started as a cluster of its own when the members cannot be read,
\* which the pillar tells by an empty list.
NeverAlone == \A n \in New : pod[n] # {} => (pod[n] \ {n}) \cap started # {}

\* The second member takes the majority away until it answers, and with it the
\* API server and the pillars of all deployments: it comes back.
QuorumComesBack == []<>HasQuorum

\* Two deployments that render their manifests before the other one has added
\* its member, and that are killed anywhere, are repaired by starting them again.
EveryoneJoins == <>(\A n \in New : step[n] = "done")
=============================================================================
