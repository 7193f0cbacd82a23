---------------------------- MODULE RollingUpgrade ----------------------------
(***************************************************************************)
(* The upgrade and the downgrade of a cluster: scripts/upgrade.sh.in and   *)
(* downgrade.sh.in, and the orchestrations they launch on the salt master  *)
(* (salt/metalk8s/orchestrate: upgrade, downgrade, etcd, deploy_node).     *)
(*                                                                         *)
(* An orchestration is a list of states.  Salt runs them in their order: a *)
(* state whose requirements did not all succeed fails without being run,   *)
(* and those that do not require it are run all the same.  Which state     *)
(* requires which is thus what makes a rolling upgrade safe, all the more  *)
(* as any state may fail half way and the operator then starts the script  *)
(* again, goes back, or goes on to another version.                        *)
(***************************************************************************)
EXTENDS Naturals, FiniteSets

CONSTANTS
  ControlPlane,   \* nodes with the role master; nodes are numbers, which
  Others,         \* stand for the order of their names
  Etcd,           \* nodes with the role etcd
  Bootstrap,      \* the node that runs the salt master and the scripts
  MaxVersion,     \* versions are 1..MaxVersion, one per minor version
  MaxRuns,        \* how many times a script is started, not counting retries
  MaxFaults       \* how many states fail by themselves

Nodes == ControlPlane \cup Others
Versions == 1..MaxVersion

ASSUME NodeAssumption ==
  /\ Nodes \subseteq Nat /\ IsFiniteSet(Nodes)
  /\ ControlPlane # {} /\ Etcd # {}
  /\ ControlPlane \cap Others = {} /\ Etcd \subseteq Nodes /\ 0 \notin Nodes
  /\ Bootstrap \in Nodes
ASSUME BoundAssumption ==
  MaxVersion \in Nat \ {0} /\ MaxRuns \in Nat /\ MaxFaults \in Nat

VARIABLES
  label,      \* version in the labels of each node
  kube,       \* version of the Kubernetes components of each node
  kubelet,    \* version of its kubelet
  member,     \* version of the etcd member of each etcd node
  down,       \* etcd members that do not answer
  cordoned,   \* nodes that are unschedulable
  drained,    \* nodes that were drained since they were cordoned
  cluster,    \* version of the cluster (annotation of kube-system)
  objects,    \* version of the Kubernetes objects that MetalK8s deploys
  run,        \* the script in progress, or the last one
  runs, faults

nodeVars == <<label, kube, kubelet, member, down, cordoned, drained>>
vars == <<nodeVars, cluster, objects, run, runs, faults>>

\* run.nodes: the nodes that the orchestration is rendered for; run.left: the
\* states that it has not reached yet; run.ok: those that succeeded.
Kinds == {"upgrade", "downgrade"}
ScriptActions == {"bootstrap", "annotate", "check", "objects", "post"}
EtcdActions == {"etcd", "health"}
NodeActions == {"proxy", "api", "label", "grains", "cordon", "drain", "sync",
                "minion", "install", "register", "before", "highstate",
                "after", "uncordon", "kill"}
Actions == ScriptActions \cup EtcdActions \cup NodeActions

\* A state of a node, or of the whole cluster: node 0.
State(do, on) == [do |-> do, on |-> on]
All(actions, n) == {State(a, n) : a \in actions}

-----------------------------------------------------------------------------
(* The states of a script and their order. *)

\* Mutant: a downgrade takes the nodes in the order of an upgrade.
FirstNodesSame(kind) == ControlPlane
\* The control plane is upgraded first and downgraded last...
FirstNodes(kind) == IF kind = "upgrade" THEN ControlPlane ELSE Others

\* ... and nodes of the same kind go in the order of their names.
NodeBefore(kind, m, n) ==
  \/ m \in FirstNodes(kind) /\ n \notin FirstNodes(kind)
  \/ (m \in FirstNodes(kind) <=> n \in FirstNodes(kind)) /\ m < n

\* Mutant: a node that has the label already is taken for deployed.
SkippedByLabel(kind, dest, n) == label[n] = dest
\* Nodes that are beyond the destination are left as they are.
Skipped(kind, dest, n) == IF kind = "upgrade" THEN label[n] > dest
                                              ELSE label[n] < dest

EtcdDeployed(kind, n) == n \in Etcd /\ kind = "upgrade"

\* deploy_node.sls, for a node whose minion is up.  A node that is alone is not
\* drained.
DeployActions(kind, n) ==
  {"grains", "cordon", "sync", "minion", "before", "highstate", "after",
   "uncordon", "kill"}
    \cup (IF Cardinality(Nodes) > 1 THEN {"drain"} ELSE {})
    \cup (IF EtcdDeployed(kind, n) THEN {"install", "register"} ELSE {})

Deploy(kind, n) == All(DeployActions(kind, n), n)
Deploys(kind, nodes) == UNION {Deploy(kind, n) : n \in nodes}

\* The part of upgrade/init.sls and of downgrade/init.sls for one node.
NodeStates(kind, n) ==
  Deploy(kind, n)
    \cup All({"api", "label"} \cup (IF kind = "upgrade" THEN {"proxy"} ELSE {}), n)

\* etcd.sls
EtcdStates == {State("check", 0)} \cup UNION {All(EtcdActions, e) : e \in Etcd}

States(kind, nodes) ==
  All(ScriptActions, 0) \cup EtcdStates
    \cup UNION {NodeStates(kind, n) : n \in nodes}

\* The commands of the script: it upgrades the bootstrap node, sets the version
\* of the cluster (the other way round for a downgrade), launches the
\* orchestration, which begins with etcd or ends with it, and the post-upgrade.
Stage == [kind \in Kinds |-> [do \in Actions |->
  LET up == kind = "upgrade"
  IN IF do \in NodeActions THEN 5
     ELSE [bootstrap |-> IF up THEN 1 ELSE 2,
           annotate  |-> IF up THEN 2 ELSE 1,
           check     |-> IF up THEN 3 ELSE 6,
           etcd      |-> IF up THEN 4 ELSE 7,
           health    |-> IF up THEN 4 ELSE 7,
           objects   |-> 8,
           post      |-> 9][do]]]

\* The place of a state among those of its node.
Place ==
  [bootstrap |-> 1, annotate |-> 1, check |-> 1, objects |-> 1, post |-> 1,
   etcd |-> 1, health |-> 2,
   proxy |-> 1, api |-> 2, label |-> 3, grains |-> 4, cordon |-> 5,
   drain |-> 6, sync |-> 7, minion |-> 8, install |-> 9, register |-> 10,
   before |-> 11, highstate |-> 12, after |-> 13, uncordon |-> 14, kill |-> 15]

Before(kind, s, t) ==
  \/ Stage[kind][s.do] < Stage[kind][t.do]
  \/ /\ Stage[kind][s.do] = Stage[kind][t.do]
     /\ IF s.on = t.on THEN Place[s.do] < Place[t.do]
        ELSE IF s.do \in EtcdActions THEN s.on < t.on
        ELSE NodeBefore(kind, s.on, t.on)

Earlier == [kind \in Kinds |-> [s \in States(kind, Nodes) |->
              {t \in States(kind, Nodes) : Before(kind, t, s)}]]

-----------------------------------------------------------------------------
(* What each state requires. *)

\* The node before n among the nodes, and the etcd member before e.
Previous(kind, nodes, n) ==
  {p \in nodes : /\ NodeBefore(kind, p, n)
                 /\ \A q \in nodes : ~(NodeBefore(kind, p, q) /\ NodeBefore(kind, q, n))}
PreviousMember(e) == {p \in Etcd : p < e /\ \A q \in Etcd : ~(p < q /\ q < e)}

\* What the orchestration is launched after.
Launched(kind) == {State(IF kind = "upgrade" THEN "annotate" ELSE "bootstrap", 0)}

\* Mutant: the health of the cluster is checked once for all.
MemberNeedsUnchecked(e) == {State("check", 0)}
\* A member is deployed when the one before is healthy again.
MemberNeeds(e) == {State("check", 0)} \cup {State("health", p) : p \in PreviousMember(e)}

\* etcd is upgraded before the nodes and downgraded after them.
EtcdNeeds(kind, nodes) ==
  Launched(kind) \cup (IF kind = "upgrade" THEN {} ELSE Deploys(kind, nodes))

\* Mutant: the nodes do not wait for each other.
NodeNeedsAlone(kind, nodes, n) == IF kind = "upgrade" THEN EtcdStates ELSE {}
\* Mutant: the nodes do not wait for etcd.
NodeNeedsNoEtcd(kind, nodes, n) == Deploys(kind, Previous(kind, nodes, n))
\* A node waits for the whole deployment of the one before and, in an
\* upgrade, for the etcd cluster.
NodeNeeds(kind, nodes, n) ==
  Deploys(kind, Previous(kind, nodes, n))
    \cup (IF kind = "upgrade" THEN EtcdStates ELSE {})

\* Mutant: the highstate does not wait for the drain.
HighstateNeedsNoDrain == {"grains", "cordon", "sync", "before"}
HighstateNeeds ==
  {"grains", "cordon", "sync", "before"}
    \cup (IF Cardinality(Nodes) > 1 THEN {"drain"} ELSE {})

BeforeNeeds(kind, n) ==
  {"minion"} \cup (IF EtcdDeployed(kind, n) THEN {"register"} ELSE {})

DeployNeeds(kind, n) ==
  [grains |-> {}, cordon |-> {}, drain |-> {"cordon"}, sync |-> {},
   minion |-> {"grains", "sync"}, install |-> {"sync"},
   register |-> {"install"}, before |-> BeforeNeeds(kind, n),
   highstate |-> HighstateNeeds, after |-> {},
   uncordon |-> {"highstate", "after"}, kill |-> {"highstate"}]

ObjectsNeed(kind, nodes) ==
  Launched(kind) \cup EtcdStates \cup Deploys(kind, nodes)

Needs(kind, nodes, s) ==
  LET n == s.on
  IN CASE s.do = "bootstrap" -> IF kind = "upgrade" THEN {} ELSE {State("annotate", 0)}
       [] s.do = "annotate"  -> IF kind = "upgrade" THEN {State("bootstrap", 0)} ELSE {}
       [] s.do = "check"     -> EtcdNeeds(kind, nodes)
       [] s.do = "etcd"      -> EtcdNeeds(kind, nodes) \cup MemberNeeds(n)
       [] s.do = "health"    -> EtcdNeeds(kind, nodes) \cup {State("etcd", n)}
       [] s.do = "proxy"     -> Launched(kind)
       [] s.do = "api"       -> NodeNeeds(kind, nodes, n)
                                  \cup (IF kind = "upgrade" THEN {State("proxy", n)}
                                                            ELSE Launched(kind))
       [] s.do = "label"     -> {State("api", n)}
       [] s.do = "objects"   -> ObjectsNeed(kind, nodes)
       [] s.do = "post"      -> {State("objects", 0)} \cup EtcdStates
                                  \cup UNION {NodeStates(kind, m) : m \in nodes}
       [] s.do \in DeployActions(kind, n) ->
            All({"label"} \cup DeployNeeds(kind, n)[s.do], n)

-----------------------------------------------------------------------------
(* The scripts. *)

\* The prechecks: one minor version at a time, by the labels of the nodes.
PrecheckUpgrade(dest)   == \A n \in Nodes : label[n] + 1 >= dest
PrecheckDowngrade(dest) == \A n \in Nodes : label[n] <= dest + 1

Launch(kind, dest) ==
  /\ LET nodes == {n \in Nodes : ~Skipped(kind, dest, n)}
     IN run' = [kind |-> kind, dest |-> dest, status |-> "running",
                nodes |-> nodes, left |-> States(kind, nodes), ok |-> {}]
  /\ UNCHANGED <<nodeVars, cluster, objects, faults>>

\* Users follow the documentation: the script of a newer version upgrades, and
\* that of the installed version downgrades.
StartUpgrade(dest) ==
  /\ run.status # "running" /\ runs < MaxRuns /\ runs' = runs + 1
  /\ dest > cluster /\ PrecheckUpgrade(dest)
  /\ Launch("upgrade", dest)

StartDowngrade(dest) ==
  /\ run.status # "running" /\ runs < MaxRuns /\ runs' = runs + 1
  /\ dest < cluster /\ PrecheckDowngrade(dest)
  /\ Launch("downgrade", dest)

\* The script that failed is started again.
Resume ==
  /\ run.status = "failed"
  /\ IF run.kind = "upgrade" THEN PrecheckUpgrade(run.dest)
                             ELSE PrecheckDowngrade(run.dest)
  /\ Launch(run.kind, run.dest) /\ UNCHANGED runs

-----------------------------------------------------------------------------
(* The states. *)

\* The state that is next, and whether it may run.
Turn(s)    == /\ run.status = "running" /\ s \in run.left
              /\ \A t \in run.left : t \notin Earlier[run.kind][s]
Allowed(s) == Needs(run.kind, run.nodes, s) \subseteq run.ok

Succeed(s) == run' = [run EXCEPT !.left = @ \ {s}, !.ok = @ \cup {s}]
Fail(s)    == run' = [run EXCEPT !.left = @ \ {s}]
Fault(s)   == faults < MaxFaults /\ faults' = faults + 1 /\ Fail(s)

Quorum == 2 * Cardinality(down) < Cardinality(Etcd)

\* A state that was not run because of its requirements.
NotRun(s) ==
  /\ ~Allowed(s)
  /\ Fail(s)
  /\ UNCHANGED <<nodeVars, cluster, objects, runs, faults>>

\* A state that changes nothing of what is modelled.
Plain(s) ==
  /\ s.do \in {"proxy", "grains", "sync", "minion", "kill", "post"}
  /\ Succeed(s)
  /\ UNCHANGED <<nodeVars, cluster, objects, runs, faults>>

\* A state that fails before it has changed anything.
Fails(s) ==
  /\ Allowed(s) /\ Fault(s)
  /\ UNCHANGED <<nodeVars, cluster, objects, runs>>

\* http.wait_for_successful_query on the API server, which needs etcd.
WaitForApi(s) ==
  /\ s.do \in {"api", "before", "after"}
  /\ IF Quorum THEN Succeed(s) ELSE Fail(s)
  /\ UNCHANGED <<nodeVars, cluster, objects, runs, faults>>

\* The local states of the bootstrap node: its kubelet among other services.
UpgradeBootstrap(s) ==
  /\ s.do = "bootstrap"
  /\ kubelet' = [kubelet EXCEPT ![Bootstrap] = run.dest]
  /\ \/ Succeed(s) /\ UNCHANGED faults
     \/ Fault(s)
  /\ UNCHANGED <<label, kube, member, down, cordoned, drained, cluster,
                 objects, runs>>

Annotate(s) ==
  /\ s.do = "annotate" /\ Succeed(s)
  /\ cluster' = run.dest
  /\ UNCHANGED <<nodeVars, objects, runs, faults>>

\* check_etcd_health, of the whole cluster.
CheckEtcd(s) ==
  /\ s.do \in {"check", "health", "register"}
  /\ IF down = {} THEN Succeed(s) ELSE Fail(s)
  /\ UNCHANGED <<nodeVars, cluster, objects, runs, faults>>

\* The member restarts; it may not come back.
DeployEtcd(s) ==
  /\ s.do \in {"etcd", "install"}
  /\ member' = [member EXCEPT ![s.on] = run.dest]
  /\ \/ Succeed(s) /\ UNCHANGED <<down, faults>>
     \/ Fault(s) /\ down' \in {down, down \cup {s.on}}
  /\ UNCHANGED <<label, kube, kubelet, cordoned, drained, cluster, objects,
                 runs>>

SetVersion(s) ==
  /\ s.do = "label" /\ Succeed(s)
  /\ label' = [label EXCEPT ![s.on] = run.dest]
  /\ UNCHANGED <<kube, kubelet, member, down, cordoned, drained, cluster,
                 objects, runs, faults>>

Cordon(s) ==
  /\ s.do = "cordon" /\ Succeed(s)
  /\ cordoned' = cordoned \cup {s.on}
  /\ UNCHANGED <<label, kube, kubelet, member, down, drained, cluster,
                 objects, runs, faults>>

\* What module Drain shows of a drain that succeeds.
Drain(s) ==
  /\ s.do = "drain" /\ Succeed(s)
  /\ drained' = drained \cup {s.on}
  /\ UNCHANGED <<label, kube, kubelet, member, down, cordoned, cluster,
                 objects, runs, faults>>

\* A highstate that fails may have installed anything.
Highstate(s) ==
  /\ s.do = "highstate"
  /\ kube' = [kube EXCEPT ![s.on] = label[s.on]]
  /\ kubelet' = [kubelet EXCEPT ![s.on] = label[s.on]]
  /\ \/ Succeed(s) /\ UNCHANGED faults
     \/ Fault(s)
  /\ UNCHANGED <<label, member, down, cordoned, drained, cluster, objects,
                 runs>>

Uncordon(s) ==
  /\ s.do = "uncordon" /\ Succeed(s)
  /\ cordoned' = cordoned \ {s.on} /\ drained' = drained \ {s.on}
  /\ UNCHANGED <<label, kube, kubelet, member, down, cluster, objects, runs,
                 faults>>

DeployObjects(s) ==
  /\ s.do = "objects"
  /\ objects' = run.dest
  /\ \/ Succeed(s) /\ UNCHANGED faults
     \/ Fault(s)
  /\ UNCHANGED <<nodeVars, cluster, runs>>

Runs(s) ==
  /\ Allowed(s)
  /\ \/ Plain(s) \/ WaitForApi(s) \/ UpgradeBootstrap(s) \/ Annotate(s)
     \/ CheckEtcd(s) \/ DeployEtcd(s) \/ SetVersion(s) \/ Cordon(s)
     \/ Drain(s) \/ Highstate(s) \/ Uncordon(s) \/ DeployObjects(s)

End ==
  /\ run.status = "running" /\ run.left = {}
  /\ run' = [run EXCEPT !.status = IF State("post", 0) \in run.ok THEN "done"
                                                               ELSE "failed"]
  /\ UNCHANGED <<nodeVars, cluster, objects, runs, faults>>

\* An administrator repairs an etcd member, whatever the scripts do meanwhile.
Repair ==
  /\ \E e \in down : down' = down \ {e}
  /\ UNCHANGED <<label, kube, kubelet, member, cordoned, drained, cluster,
                 objects, run, runs, faults>>

-----------------------------------------------------------------------------
Init ==
  /\ cluster \in Versions /\ objects = cluster
  /\ label = [n \in Nodes |-> cluster] /\ kube = label /\ kubelet = label
  /\ member = [n \in Etcd |-> cluster]
  /\ down = {} /\ cordoned = {} /\ drained = {}
  /\ run = [kind |-> "upgrade", dest |-> cluster, status |-> "done",
            nodes |-> {}, left |-> {}, ok |-> {}]
  /\ runs = 0 /\ faults = 0

Master == End \/ \E s \in run.left : Turn(s) /\ (Runs(s) \/ NotRun(s))

User == \E dest \in Versions : StartUpgrade(dest) \/ StartDowngrade(dest)

Next ==
  \/ End
  \/ \E s \in run.left : Turn(s) /\ (Runs(s) \/ NotRun(s) \/ Fails(s))
  \/ User \/ Resume \/ Repair

Spec == Init /\ [][Next]_vars

RunRecord ==
  [kind : Kinds, dest : Versions, status : {"running", "failed", "done"},
   nodes : SUBSET Nodes, left : SUBSET [do : Actions, on : {0} \cup Nodes],
   ok : SUBSET [do : Actions, on : {0} \cup Nodes]]

TypeOK ==
  /\ label \in [Nodes -> Versions] /\ kube \in [Nodes -> Versions]
  /\ kubelet \in [Nodes -> Versions]
  /\ member \in [Etcd -> Versions] /\ down \subseteq Etcd
  /\ cordoned \subseteq Nodes /\ drained \subseteq Nodes
  /\ cluster \in Versions /\ objects \in Versions
  /\ run \in RunRecord
  /\ run.left \subseteq States(run.kind, run.nodes)
  /\ run.ok \subseteq States(run.kind, run.nodes) \ run.left
  /\ runs \in 0..MaxRuns /\ faults \in 0..MaxFaults

-----------------------------------------------------------------------------
(* Properties. *)

\* The kubelet of a node is never newer than a control plane node, as
\* Kubernetes requires, however often upgrades and downgrades fail, are retried
\* and are undone.  (The bootstrap node is the exception: its kubelet is
\* upgraded first and downgraded first.)
WorkersNeverAhead ==
  \A w \in Others \ {Bootstrap}, m \in ControlPlane : kubelet[w] <= kube[m]

\* No API server is newer than an etcd member: etcd is upgraded first and
\* downgraded last.  (The exception is a node whose downgrade failed between
\* its label and its components: the next upgrade goes by the label.)
EtcdNeverBehind ==
  \A m \in ControlPlane, e \in Etcd : kube[m] <= member[e] \/ label[m] < kube[m]

\* One run takes one node at a time out of service.
OneNodeAtATime ==
  Cardinality({n \in cordoned : State("cordon", n) \in run.ok}) <= 1

\* Of the etcd members that a run restarts, at most one does not come back
\* before somebody looks: no run makes the cluster lose its quorum.
QuorumKept == Cardinality(down) <= 1

\* "always cordoning, draining, upgrading and uncordoning nodes": the
\* components of a node and, but for the bootstrap node, its kubelet change only
\* while the node is drained.
ChangedWhenDrained ==
  [][\A n \in Nodes :
       kube'[n] # kube[n] \/ (kubelet'[n] # kubelet[n] /\ n # Bootstrap) =>
         n \in cordoned /\ (n \in drained \/ Cardinality(Nodes) = 1)]_vars

\* "MetalK8 supports upgrade **strictly** from one supported minor version to
\* another": no upgrade makes a node skip a minor version.
OneMinorAtATime == [][\A n \in Nodes : kube'[n] <= kube[n] + 1]_vars

-----------------------------------------------------------------------------
(* Liveness: the master goes on, and administrators repair etcd and insist *)
(* on a script that failed until it succeeds.                              *)
LiveSpec == Spec /\ WF_vars(Master) /\ WF_vars(Resume) /\ WF_vars(Repair)

Converged ==
  /\ run.status = "done" /\ cordoned = {} /\ down = {}
  /\ \A n \in Nodes : cluster \in {label[n]} \cap {kube[n]} \cap {kubelet[n]}
  /\ \A e \in Etcd : member[e] = cluster
  /\ objects = cluster

\* Whatever failed on the way, the cluster ends with all of its nodes in
\* service and at the same version.
Converges == []<>Converged
=============================================================================
