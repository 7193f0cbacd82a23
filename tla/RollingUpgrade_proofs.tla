------------------------ MODULE RollingUpgrade_proofs ------------------------
(***************************************************************************)
(* Proofs about module RollingUpgrade.                                     *)
(***************************************************************************)
EXTENDS RollingUpgrade, FiniteSetTheorems, WellFoundedInduction, TLAPS

-----------------------------------------------------------------------------
(* The order of the nodes and of the members. *)

\* A transitive and irreflexive relation has a last element in every finite set
\* that is not empty.
LEMMA LastElement ==
  ASSUME NEW T, IsFiniteSet(T), T # {}, NEW R,
         \A x \in T : <<x, x>> \notin R,
         \A x, y, z \in T : <<x, y>> \in R /\ <<y, z>> \in R => <<x, z>> \in R
  PROVE  \E x \in T : \A y \in T : <<x, y>> \notin R
<1> DEFINE After(x) == {y \in T : <<x, y>> \in R}
           Afters == {After(x) : x \in T}
<1>1. IsWellFoundedOn(StrictSubsetOrdering(T), SUBSET T)
  BY FS_StrictSubsetOrderingWellFounded, FS_FiniteSubsetsOfFinite
<1>2. Afters \subseteq SUBSET T /\ Afters # {}
  <2>1. \A x \in T : After(x) \in SUBSET T /\ After(x) \in Afters
    OBVIOUS
  <2> QED BY <2>1
<1>3. PICK a \in Afters : \A b \in Afters : <<b, a>> \notin StrictSubsetOrdering(T)
  <2> HIDE DEF Afters
  <2> QED BY <1>1, <1>2, WFMin
<1>4. PICK x \in T : a = After(x)
  OBVIOUS
<1>5. ASSUME NEW y \in T, <<x, y>> \in R PROVE FALSE
  <2>1. After(y) \subseteq After(x) /\ y \in After(x) /\ y \notin After(y)
    BY <1>5
  <2>2. <<After(y), After(x)>> \in StrictSubsetOrdering(T)
    BY <2>1, Zenon DEF StrictSubsetOrdering
  <2> QED BY <2>2, <1>3, <1>4
<1> QED BY <1>5

\* The nodes are ordered.
LEMMA NodesInOrder ==
  ASSUME NEW kind
  PROVE  /\ \A n \in Nodes : ~NodeBefore(kind, n, n)
         /\ \A m, n, p \in Nodes : NodeBefore(kind, m, n) /\ NodeBefore(kind, n, p)
                                     => NodeBefore(kind, m, p)
         /\ \A m, n \in Nodes : m # n => NodeBefore(kind, m, n) \/ NodeBefore(kind, n, m)
BY NodeAssumption DEF NodeBefore

\* A node that is not the first has a node just before it.
LEMMA PreviousExists ==
  ASSUME NEW kind, NEW nodes \in SUBSET Nodes, NEW n \in Nodes,
         NEW p \in nodes, NodeBefore(kind, p, n)
  PROVE  \E q \in Previous(kind, nodes, n) : p = q \/ NodeBefore(kind, p, q)
<1> DEFINE T == {q \in nodes : /\ NodeBefore(kind, q, n)
                               /\ p = q \/ NodeBefore(kind, p, q)}
           R == {pair \in Nodes \X Nodes : NodeBefore(kind, pair[1], pair[2])}
<1>1. \A x, y \in Nodes : <<x, y>> \in R <=> NodeBefore(kind, x, y)
  OBVIOUS
<1>2. IsFiniteSet(T) /\ T \subseteq Nodes /\ T # {}
  <2>1. T \in SUBSET Nodes /\ p \in T
    OBVIOUS
  <2> QED BY <2>1, FS_Subset, NodeAssumption
<1>3. PICK q \in T : \A x \in T : <<q, x>> \notin R
  <2>1. \A x \in T : <<x, x>> \notin R
    BY <1>1, <1>2, NodesInOrder
  <2>2. \A x, y, z \in T : <<x, y>> \in R /\ <<y, z>> \in R => <<x, z>> \in R
    BY <1>1, <1>2, NodesInOrder
  <2> HIDE DEF T, R
  <2> QED BY <1>2, <2>1, <2>2, LastElement
<1>4. ASSUME NEW x \in nodes, NodeBefore(kind, q, x), NodeBefore(kind, x, n)
      PROVE  FALSE
  <2>1. NodeBefore(kind, p, x)
    BY <1>4, NodesInOrder
  <2>2. x \in T
    BY <2>1, <1>4
  <2> QED BY <2>2, <1>1, <1>3, <1>4
<1> QED BY <1>3, <1>4 DEF Previous

\* A member that is not the first has a member just before it.
LEMMA PreviousMemberExists ==
  ASSUME NEW e \in Etcd, NEW p \in Etcd, p < e
  PROVE  \E q \in PreviousMember(e) : p = q \/ p < q
<1> DEFINE T == {q \in Etcd : q < e /\ (p = q \/ p < q)}
           R == {pair \in Etcd \X Etcd : pair[1] < pair[2]}
<1>1. Etcd \subseteq Nat /\ IsFiniteSet(Etcd)
  BY NodeAssumption, FS_Subset
<1>2. IsFiniteSet(T) /\ T \subseteq Etcd /\ T # {}
  <2>1. T \in SUBSET Etcd /\ p \in T
    OBVIOUS
  <2> QED BY <2>1, <1>1, FS_Subset
<1>3. PICK q \in T : \A x \in T : <<q, x>> \notin R
  <2>1. \A x \in T : <<x, x>> \notin R
    BY <1>1
  <2>2. \A x, y, z \in T : <<x, y>> \in R /\ <<y, z>> \in R => <<x, z>> \in R
    BY <1>1
  <2> HIDE DEF T, R
  <2> QED BY <1>2, <2>1, <2>2, LastElement
<1>4. ASSUME NEW x \in Etcd, q < x, x < e
      PROVE  FALSE
  <2>1. p < x
    BY <1>4, <1>1
  <2> QED BY <2>1, <1>3, <1>4
<1> QED BY <1>3, <1>4 DEF PreviousMember

-----------------------------------------------------------------------------
(* What the states require. *)

LEMMA ScriptNeeds ==
  ASSUME NEW kind \in Kinds, NEW nodes
  PROVE  /\ Needs(kind, nodes, State("bootstrap", 0)) =
              IF kind = "upgrade" THEN {} ELSE {State("annotate", 0)}
         /\ Needs(kind, nodes, State("annotate", 0)) =
              IF kind = "upgrade" THEN {State("bootstrap", 0)} ELSE {}
         /\ Needs(kind, nodes, State("check", 0)) = EtcdNeeds(kind, nodes)
         /\ Needs(kind, nodes, State("objects", 0)) = ObjectsNeed(kind, nodes)
         /\ Needs(kind, nodes, State("post", 0)) =
              {State("objects", 0)} \cup EtcdStates
                \cup UNION {NodeStates(kind, m) : m \in nodes}
BY DEF Needs, State, DeployActions

LEMMA MemberStateNeeds ==
  ASSUME NEW kind \in Kinds, NEW nodes, NEW e
  PROVE  /\ Needs(kind, nodes, State("etcd", e)) = EtcdNeeds(kind, nodes) \cup MemberNeeds(e)
         /\ Needs(kind, nodes, State("health", e)) =
              EtcdNeeds(kind, nodes) \cup {State("etcd", e)}
BY DEF Needs, State, DeployActions

LEMMA NodeStateNeeds ==
  ASSUME NEW kind \in Kinds, NEW nodes, NEW n
  PROVE  /\ Needs(kind, nodes, State("proxy", n)) = Launched(kind)
         /\ Needs(kind, nodes, State("label", n)) = {State("api", n)}
         /\ Needs(kind, nodes, State("api", n)) =
              NodeNeeds(kind, nodes, n)
                \cup (IF kind = "upgrade" THEN {State("proxy", n)} ELSE Launched(kind))
BY DEF Needs, State, DeployActions

LEMMA DeployStateNeeds ==
  ASSUME NEW kind \in Kinds, NEW nodes, NEW n, NEW do \in DeployActions(kind, n)
  PROVE  Needs(kind, nodes, State(do, n)) =
           All({"label"} \cup DeployNeeds(kind, n)[do], n)
BY DEF Needs, State, DeployActions

LEMMA Stages ==
  /\ \A kind \in Kinds, do \in NodeActions : Stage[kind][do] = 5
  /\ /\ Stage["upgrade"]["bootstrap"] = 1 /\ Stage["upgrade"]["annotate"] = 2
     /\ Stage["upgrade"]["check"] = 3
     /\ Stage["upgrade"]["etcd"] = 4 /\ Stage["upgrade"]["health"] = 4
     /\ Stage["upgrade"]["objects"] = 8 /\ Stage["upgrade"]["post"] = 9
  /\ /\ Stage["downgrade"]["bootstrap"] = 2 /\ Stage["downgrade"]["annotate"] = 1
     /\ Stage["downgrade"]["check"] = 6
     /\ Stage["downgrade"]["etcd"] = 7 /\ Stage["downgrade"]["health"] = 7
     /\ Stage["downgrade"]["objects"] = 8 /\ Stage["downgrade"]["post"] = 9
BY DEF Stage, Kinds, Actions, ScriptActions, EtcdActions, NodeActions

-----------------------------------------------------------------------------
(* What is true of every run. *)

\* The states of a run that it has come to.
Reached(r) == States(r.kind, r.nodes) \ r.left

\* What is left comes after what was reached.
InOrder(r) == \A s \in Reached(r), t \in r.left : ~Before(r.kind, t, s)

\* A state that succeeded had all it requires.
Closed(r) == \A s \in r.ok : Needs(r.kind, r.nodes, s) \subseteq r.ok

\* A node is begun when all the nodes before it are deployed: the requirement
\* names the previous one only.
NodesInTurn(r) ==
  \A n \in r.nodes : State("api", n) \in r.ok =>
    \A p \in r.nodes : NodeBefore(r.kind, p, n) => Deploy(r.kind, p) \subseteq r.ok

\* In the same way, a member is deployed when all those before it are.
MembersInTurn(r) ==
  \A e, p \in Etcd : State("etcd", e) \in r.ok /\ p < e => State("etcd", p) \in r.ok

\* Once a script was started, the nodes of the run are all the nodes: the
\* versions that the prechecks let through leave no node beyond the destination.
AllNodes(r) == r.nodes = Nodes \/ (r.status = "done" /\ r.left = {} /\ r.ok = {})

RunInv(r) ==
  /\ r \in RunRecord
  /\ r.left \subseteq States(r.kind, r.nodes) /\ r.ok \subseteq Reached(r)
  /\ AllNodes(r) /\ InOrder(r) /\ Closed(r) /\ NodesInTurn(r) /\ MembersInTurn(r)

LEMMA StateIsPair ==
  \A a, b, m, n : State(a, m) = State(b, n) => a = b /\ m = n
BY DEF State

LEMMA StateSet ==
  ASSUME NEW kind \in Kinds, NEW nodes \in SUBSET Nodes
  PROVE  /\ \A do \in ScriptActions : State(do, 0) \in States(kind, nodes)
         /\ \A do \in EtcdActions, e \in Etcd : State(do, e) \in EtcdStates
         /\ EtcdStates \subseteq States(kind, nodes)
         /\ \A n \in nodes : /\ NodeStates(kind, n) \subseteq States(kind, nodes)
                             /\ State("api", n) \in NodeStates(kind, n)
                             /\ State("label", n) \in NodeStates(kind, n)
                             /\ Deploy(kind, n) \subseteq NodeStates(kind, n)
                             /\ \A do \in DeployActions(kind, n) :
                                  State(do, n) \in Deploy(kind, n)
BY DEF States, EtcdStates, NodeStates, Deploy, All, ScriptActions

\* Whatever succeeded on a node, its API server answered and it has its label.
LEMMA NodeIsBegun ==
  ASSUME NEW r, RunInv(r), NEW n \in r.nodes
  PROVE  /\ State("label", n) \in r.ok => State("api", n) \in r.ok
         /\ \A do \in DeployActions(r.kind, n) : State(do, n) \in r.ok =>
              /\ State("label", n) \in r.ok /\ State("api", n) \in r.ok
              /\ All(DeployNeeds(r.kind, n)[do], n) \subseteq r.ok
<1>1. r.kind \in Kinds /\ Closed(r)
  BY DEF RunInv, RunRecord
<1>2. State("label", n) \in r.ok => State("api", n) \in r.ok
  BY <1>1, NodeStateNeeds DEF Closed
<1>3. ASSUME NEW do \in DeployActions(r.kind, n), State(do, n) \in r.ok
      PROVE  All({"label"} \cup DeployNeeds(r.kind, n)[do], n) \subseteq r.ok
  <2>1. Needs(r.kind, r.nodes, State(do, n)) \subseteq r.ok
    BY <1>1, <1>3 DEF Closed
  <2> QED BY <1>1, <2>1, DeployStateNeeds
<1> QED BY <1>2, <1>3 DEF All

\* A run stays sound when its next state is reached...
LEMMA ReachKeeps ==
  ASSUME NEW r, RunInv(r), NEW s \in r.left, \A t \in r.left : ~Before(r.kind, t, s),
         NEW q, q = [r EXCEPT !.left = @ \ {s}]
  PROVE  RunInv(q)
<1>1. /\ q \in RunRecord /\ q.left = r.left \ {s} /\ q.kind = r.kind
      /\ q.nodes = r.nodes /\ q.ok = r.ok
  BY DEF RunInv, RunRecord
<1>2. q.left \subseteq States(q.kind, q.nodes) /\ q.ok \subseteq Reached(q) /\ AllNodes(q)
  BY <1>1 DEF RunInv, Reached, AllNodes
<1>3. InOrder(q)
  BY <1>1 DEF RunInv, InOrder, Reached
<1> QED BY <1>1, <1>2, <1>3 DEF RunInv, Closed, NodesInTurn, MembersInTurn

\* ... and when it succeeds, with all that it requires.
LEMMA SuccessKeeps ==
  ASSUME NEW r, RunInv(r), NEW s \in r.left, \A t \in r.left : ~Before(r.kind, t, s),
         Needs(r.kind, r.nodes, s) \subseteq r.ok,
         NEW q, q = [r EXCEPT !.left = @ \ {s}, !.ok = @ \cup {s}]
  PROVE  RunInv(q)
<1>1. /\ q \in RunRecord /\ q.left = r.left \ {s} /\ q.kind = r.kind
      /\ q.nodes = r.nodes /\ q.ok = r.ok \cup {s}
  BY DEF RunInv, RunRecord
<1>2. /\ r.kind \in Kinds /\ r.nodes = Nodes /\ Closed(r) /\ NodesInTurn(r)
      /\ MembersInTurn(r)
  BY DEF RunInv, RunRecord, AllNodes
<1>3. q.left \subseteq States(q.kind, q.nodes) /\ q.ok \subseteq Reached(q) /\ AllNodes(q)
  BY <1>1 DEF RunInv, Reached, AllNodes
<1>4. InOrder(q)
  BY <1>1 DEF RunInv, InOrder, Reached
<1>5. Closed(q)
  BY <1>1 DEF RunInv, Closed
<1>6. ASSUME NEW n \in r.nodes, State("api", n) \in q.ok,
             NEW p \in r.nodes, NodeBefore(r.kind, p, n)
      PROVE  Deploy(r.kind, p) \subseteq q.ok
  <2>1. CASE State("api", n) \in r.ok
    BY <2>1, <1>1, <1>2, <1>6 DEF NodesInTurn
  <2>2. CASE State("api", n) \notin r.ok
    <3>1. s = State("api", n)
      BY <2>2, <1>1, <1>6
    <3>2. Deploys(r.kind, Previous(r.kind, r.nodes, n)) \subseteq r.ok
      BY <3>1, <1>2, NodeStateNeeds DEF NodeNeeds
    <3>3. PICK m \in Previous(r.kind, r.nodes, n) : p = m \/ NodeBefore(r.kind, p, m)
      BY <1>2, <1>6, PreviousExists
    <3>4. m \in r.nodes /\ Deploy(r.kind, m) \subseteq r.ok
      BY <3>2 DEF Deploys, Previous
    <3>5. "grains" \in DeployActions(r.kind, m)
      BY DEF DeployActions
    <3>6. State("api", m) \in r.ok
      BY <3>4, <3>5, NodeIsBegun DEF Deploy, All
    <3> QED BY <3>3, <3>4, <3>6, <1>1, <1>2 DEF NodesInTurn
  <2> QED BY <2>1, <2>2
<1>7. ASSUME NEW e \in Etcd, NEW p \in Etcd, State("etcd", e) \in q.ok, p < e
      PROVE  State("etcd", p) \in q.ok
  <2>1. CASE State("etcd", e) \in r.ok
    BY <2>1, <1>1, <1>2, <1>7 DEF MembersInTurn
  <2>2. CASE State("etcd", e) \notin r.ok
    <3>1. s = State("etcd", e)
      BY <2>2, <1>1, <1>7
    <3>2. MemberNeeds(e) \subseteq r.ok
      BY <3>1, <1>2, MemberStateNeeds
    <3>3. PICK m \in PreviousMember(e) : p = m \/ p < m
      BY <1>7, PreviousMemberExists
    <3>4. m \in Etcd /\ State("health", m) \in r.ok
      BY <3>2 DEF MemberNeeds, PreviousMember
    <3>5. State("etcd", m) \in r.ok
      <4>1. Needs(r.kind, r.nodes, State("health", m)) \subseteq r.ok
        BY <3>4, <1>2 DEF Closed
      <4> QED BY <4>1, <1>2, MemberStateNeeds
    <3> QED BY <3>3, <3>4, <3>5, <1>1, <1>2, <1>7 DEF MembersInTurn
  <2> QED BY <2>1, <2>2
<1>8. NodesInTurn(q) /\ MembersInTurn(q)
  BY <1>1, <1>6, <1>7 DEF NodesInTurn, MembersInTurn
<1> QED BY <1>1, <1>3, <1>4, <1>5, <1>8 DEF RunInv

\* A run that is launched has reached nothing.
LEMMA LaunchKeeps ==
  ASSUME NEW kind \in Kinds, NEW dest \in Versions, NEW q,
         q = [kind |-> kind, dest |-> dest, status |-> "running", nodes |-> Nodes,
              left |-> States(kind, Nodes), ok |-> {}]
  PROVE  RunInv(q)
<1>1. States(kind, Nodes) \subseteq [do : Actions, on : {0} \cup Nodes]
  BY NodeAssumption DEF States, NodeStates, EtcdStates, Deploy, DeployActions,
     All, State,
     Actions, ScriptActions, EtcdActions, NodeActions, EtcdDeployed
<1>2. q \in RunRecord /\ q.ok = {} /\ Reached(q) = {} /\ q.nodes = Nodes
  BY <1>1 DEF RunRecord, Reached
<1> QED
  BY <1>2 DEF RunInv, InOrder, Closed, NodesInTurn, MembersInTurn, AllNodes,
     Reached

-----------------------------------------------------------------------------
(* What is true of the cluster. *)

\* What a state that succeeded has left.
Labelled == \A n \in Nodes : State("label", n) \in run.ok => label[n] = run.dest
Installed ==
  \A n \in Nodes : State("highstate", n) \in run.ok =>
    kube[n] = run.dest /\ kubelet[n] = run.dest
Annotated == State("annotate", 0) \in run.ok => cluster = run.dest
MemberDeployed ==
  \A e \in Etcd : State("etcd", e) \in run.ok => member[e] = run.dest

\* The labels are within one version of the annotation of the cluster, and
\* within the versions of the run: this is what the prechecks are worth.
Near == \A n \in Nodes : label[n] <= cluster + 1 /\ cluster <= label[n] + 1
InRange ==
  \A n \in Nodes : IF run.kind = "upgrade"
                     THEN label[n] <= run.dest /\ run.dest <= label[n] + 1
                     ELSE run.dest <= label[n] /\ label[n] <= run.dest + 1

VersionInv ==
  Labelled /\ Installed /\ Annotated /\ MemberDeployed /\ Near /\ InRange

\* A label is what the next highstate installs: it must not let a worker go
\* ahead of the control plane, neither when it is set nor when it is applied.
SkewInv ==
  \A m \in ControlPlane, w \in Others :
    /\ label[w] <= label[m] /\ label[w] <= kube[m]
    /\ w # Bootstrap => kubelet[w] <= label[m] /\ kubelet[w] <= kube[m]

\* In the same way for etcd.
EtcdInv == \A n \in Nodes, e \in Etcd : label[n] <= member[e]

\* Between its cordon and its uncordon, a node is out of service.
ServiceInv ==
  \A n \in Nodes :
    /\ State("uncordon", n) \in run.ok => n \notin cordoned
    /\ State("uncordon", n) \in run.left =>
         /\ State("cordon", n) \in run.ok => n \in cordoned
         /\ State("drain", n) \in run.ok => n \in drained

\* Every member answers as long as no deployment of a member has failed since
\* the check of the cluster.
QuorumInv ==
  /\ \A a, b \in down : a = b
  /\ /\ State("check", 0) \in run.ok
     /\ \A s \in Reached(run) : s.do \in {"etcd", "install"} => s \in run.ok
     => down = {}

IInv ==
  /\ TypeOK /\ RunInv(run) /\ VersionInv /\ SkewInv /\ EtcdInv /\ ServiceInv
  /\ QuorumInv

-----------------------------------------------------------------------------
(* The steps. *)

\* A step that leaves all that the invariants are about.
QuietActions == Actions \ {"annotate", "etcd", "install", "label", "cordon",
                           "drain", "highstate", "uncordon"}
Quiet(s) ==
  /\ UNCHANGED <<nodeVars, cluster>>
  /\ \/ run'.ok = run.ok
     \/ s.do \in QuietActions /\ (s.do = "check" => down = {})

\* The run goes on by one state.
Goes(s) ==
  /\ run'.left = run.left \ {s} /\ run'.ok \in {run.ok, run.ok \cup {s}}
  /\ run'.kind = run.kind /\ run'.dest = run.dest /\ run'.nodes = run.nodes

Changes(s) ==
  \/ UpgradeBootstrap(s) \/ Annotate(s) \/ DeployEtcd(s) \/ SetVersion(s)
  \/ Cordon(s) \/ Drain(s) \/ Highstate(s) \/ Uncordon(s)

LEMMA StateStep ==
  ASSUME RunInv(run), NEW s \in run.left, Turn(s), Runs(s) \/ NotRun(s) \/ Fails(s)
  PROVE  /\ RunInv(run') /\ Goes(s)
         /\ Quiet(s) \/ (Allowed(s) /\ Changes(s))
<1>1. run \in RunRecord /\ s.do \in Actions
  BY DEF RunInv, RunRecord
<1>2. Runs(s) \/ NotRun(s) \/ Fails(s) => Fail(s) \/ (Allowed(s) /\ Succeed(s))
  BY DEF Runs, NotRun, Fails, Plain, WaitForApi, UpgradeBootstrap, Annotate,
     CheckEtcd,
     DeployEtcd, SetVersion, Cordon, Drain, Highstate, Uncordon, DeployObjects, Fault
<1>3. Goes(s)
  <2>1. CASE Fail(s)
    BY <2>1, <1>1 DEF Fail, Goes, RunRecord
  <2>2. CASE Succeed(s)
    BY <2>2, <1>1 DEF Succeed, Goes, RunRecord
  <2> QED BY <1>2, <2>1, <2>2
<1>4. \A t \in run.left : ~Before(run.kind, t, s)
  <2>1. /\ run.kind \in Kinds /\ States(run.kind, run.nodes) \subseteq States(run.kind, Nodes)
        /\ run.left \subseteq States(run.kind, run.nodes)
    BY DEF RunInv, RunRecord, States
  <2> QED BY <2>1 DEF Turn, Earlier
<1>5. RunInv(run')
  <2>1. CASE Fail(s)
    BY <2>1, <1>4, ReachKeeps DEF Fail
  <2>2. CASE Allowed(s) /\ Succeed(s)
    BY <2>2, <1>4, SuccessKeeps DEF Succeed, Allowed
  <2> QED BY <1>2, <2>1, <2>2
<1>6. Quiet(s) \/ (Allowed(s) /\ Changes(s))
  <2>1. CASE NotRun(s) \/ Fails(s)
    <3>1. UNCHANGED <<nodeVars, cluster>> /\ Fail(s)
      BY <2>1 DEF NotRun, Fails, Fault
    <3> QED BY <3>1, <1>1 DEF Quiet, Fail, RunRecord
  <2>2. CASE Plain(s)
    BY <2>2, <1>1 DEF Plain, Quiet, QuietActions
  <2>3. CASE WaitForApi(s)
    BY <2>3, <1>1 DEF WaitForApi, Quiet, QuietActions
  <2>4. CASE CheckEtcd(s)
    <3>1. CASE down = {}
      BY <2>4, <3>1, <1>1 DEF CheckEtcd, Quiet, QuietActions
    <3>2. CASE down # {}
      BY <2>4, <3>2, <1>1 DEF CheckEtcd, Quiet, Fail, RunRecord
    <3> QED BY <3>1, <3>2
  <2>5. CASE DeployObjects(s)
    BY <2>5, <1>1 DEF DeployObjects, Quiet, QuietActions
  <2> QED BY <2>1, <2>2, <2>3, <2>4, <2>5 DEF Runs, Changes
<1> QED BY <1>3, <1>5, <1>6

\* A script is launched for every node, from labels within one version of its
\* destination.
LEMMA LaunchStep ==
  ASSUME TypeOK, RunInv(run), Near, InRange, User \/ Resume
  PROVE  /\ RunInv(run') /\ InRange'
         /\ run'.ok = {} /\ Reached(run') = {}
         /\ UNCHANGED <<nodeVars, cluster, objects, faults>>
         /\ runs' \in 0..MaxRuns
<1> DEFINE Fits(kind, dest, n) ==
      IF kind = "upgrade" THEN label[n] <= dest /\ dest <= label[n] + 1
                          ELSE dest <= label[n] /\ label[n] <= dest + 1
<1>1. /\ \A n \in Nodes : label[n] \in Nat
      /\ cluster \in Nat /\ Versions \subseteq Nat
      /\ run.kind \in Kinds /\ run.dest \in Versions /\ runs \in 0..MaxRuns
      /\ MaxRuns \in Nat
  BY BoundAssumption DEF TypeOK, Versions, RunRecord
<1>2. \E kind \in Kinds, dest \in Versions :
        Launch(kind, dest) /\ (\A n \in Nodes : Fits(kind, dest, n)) /\ runs' \in 0..MaxRuns
  <2>1. ASSUME NEW dest \in Versions, StartUpgrade(dest)
        PROVE  /\ Launch("upgrade", dest) /\ \A n \in Nodes : Fits("upgrade", dest, n)
               /\ runs' \in 0..MaxRuns
    BY <2>1, <1>1 DEF StartUpgrade, PrecheckUpgrade, Near
  <2>2. ASSUME NEW dest \in Versions, StartDowngrade(dest)
        PROVE  /\ Launch("downgrade", dest) /\ \A n \in Nodes : Fits("downgrade", dest, n)
               /\ runs' \in 0..MaxRuns
    BY <2>2, <1>1 DEF StartDowngrade, PrecheckDowngrade, Near
  <2>3. CASE Resume
    BY <2>3, <1>1 DEF Resume, InRange
  <2> QED BY <2>1, <2>2, <2>3 DEF User, Kinds
<1>3. PICK kind \in Kinds, dest \in Versions :
        Launch(kind, dest) /\ (\A n \in Nodes : Fits(kind, dest, n)) /\ runs' \in 0..MaxRuns
  BY <1>2
<1>4. {n \in Nodes : ~Skipped(kind, dest, n)} = Nodes
  BY <1>1, <1>3 DEF Skipped, Versions
<1>5. run' = [kind |-> kind, dest |-> dest, status |-> "running", nodes |-> Nodes,
              left |-> States(kind, Nodes), ok |-> {}]
  BY <1>3, <1>4 DEF Launch
<1>6. RunInv(run')
  BY <1>5, LaunchKeeps
<1>7. UNCHANGED <<nodeVars, cluster, objects, faults>>
  BY <1>3 DEF Launch
<1>8. InRange'
  BY <1>3, <1>5, <1>7 DEF InRange, nodeVars
<1>9. run'.ok = {} /\ Reached(run') = {}
  BY <1>5 DEF Reached
<1> QED BY <1>3, <1>6, <1>7, <1>8, <1>9

\* Every step is one of these.
LEMMA Steps ==
  ASSUME TypeOK, RunInv(run), Near, InRange, [Next]_vars
  PROVE  /\ RunInv(run')
         /\ \/ \E s \in run.left : /\ Turn(s) /\ Goes(s)
                                   /\ Quiet(s) \/ (Allowed(s) /\ Changes(s))
            \/ /\ InRange' /\ run'.ok = {} /\ Reached(run') = {}
               /\ UNCHANGED <<nodeVars, cluster>>
            \/ /\ UNCHANGED <<label, kube, kubelet, member, cordoned, drained, cluster>>
               /\ down' \subseteq down /\ run'.kind = run.kind /\ run'.dest = run.dest
               /\ run'.nodes = run.nodes /\ run'.left = run.left /\ run'.ok = run.ok
<1>1. CASE End
  <2>1. /\ run' \in RunRecord /\ run'.kind = run.kind /\ run'.dest = run.dest
        /\ run'.nodes = run.nodes /\ run'.left = run.left /\ run'.ok = run.ok
    BY <1>1 DEF End, RunInv, RunRecord
  <2>2. RunInv(run')
    BY <1>1, <2>1 DEF End, RunInv, Reached, AllNodes, InOrder, Closed,
       NodesInTurn,
       MembersInTurn
  <2> QED BY <1>1, <2>1, <2>2 DEF End, nodeVars
<1>2. ASSUME NEW s \in run.left, Turn(s), Runs(s) \/ NotRun(s) \/ Fails(s)
      PROVE  RunInv(run') /\ Goes(s) /\ (Quiet(s) \/ (Allowed(s) /\ Changes(s)))
  BY <1>2, StateStep
<1>3. CASE User \/ Resume
  BY <1>3, LaunchStep
<1>4. CASE Repair \/ UNCHANGED vars
  <2>1. run' = run /\ down' \subseteq down
    BY <1>4 DEF Repair, vars, nodeVars
  <2>2. UNCHANGED <<label, kube, kubelet, member, cordoned, drained, cluster>>
    BY <1>4 DEF Repair, vars, nodeVars
  <2> QED BY <2>1, <2>2
<1> QED BY <1>1, <1>2, <1>3, <1>4 DEF Next

LEMMA TypeStep ==
  ASSUME TypeOK, RunInv(run), Near, InRange, [Next]_vars
  PROVE  TypeOK'
<1>1. /\ run' \in RunRecord /\ run'.left \subseteq States(run'.kind, run'.nodes)
      /\ run'.ok \subseteq States(run'.kind, run'.nodes) \ run'.left
  BY Steps DEF RunInv, Reached
<1>2. /\ Bootstrap \in Nodes /\ MaxFaults \in Nat
      /\ run.dest \in Versions
  BY NodeAssumption, BoundAssumption DEF TypeOK, RunRecord
<1>3. ASSUME NEW s \in run.left, Runs(s) \/ NotRun(s) \/ Fails(s)
      PROVE  TypeOK'
  <2>1. /\ s.do \in EtcdActions => s.on \in Etcd
        /\ s.do = "install" => s.on \in Etcd
        /\ s.do \in NodeActions => s.on \in Nodes
    BY NodeAssumption DEF TypeOK, RunRecord, States, EtcdStates, NodeStates,
       Deploy, DeployActions, All,
       State, ScriptActions, EtcdActions, NodeActions, EtcdDeployed, Kinds
  <2>2. CASE NotRun(s) \/ Fails(s) \/ Plain(s) \/ WaitForApi(s) \/ CheckEtcd(s)
    BY <2>2, <1>1, <1>2 DEF NotRun, Fails, Plain, WaitForApi, CheckEtcd, Fault,
       nodeVars, TypeOK
  <2>3. CASE UpgradeBootstrap(s)
    BY <2>3, <1>1, <1>2 DEF UpgradeBootstrap, Fault, TypeOK
  <2>4. CASE Annotate(s)
    BY <2>4, <1>1, <1>2 DEF Annotate, nodeVars, TypeOK
  <2>5. CASE DeployEtcd(s)
    BY <2>5, <1>1, <1>2, <2>1 DEF DeployEtcd, Fault, TypeOK, EtcdActions
  <2>6. CASE SetVersion(s)
    BY <2>6, <1>1, <1>2, <2>1 DEF SetVersion, TypeOK, NodeActions
  <2>7. CASE Cordon(s) \/ Drain(s) \/ Uncordon(s)
    BY <2>7, <1>1, <1>2, <2>1 DEF Cordon, Drain, Uncordon, TypeOK, NodeActions
  <2>8. CASE Highstate(s)
    BY <2>8, <1>1, <1>2, <2>1 DEF Highstate, Fault, TypeOK, NodeActions
  <2>9. CASE DeployObjects(s)
    BY <2>9, <1>1, <1>2, <2>1 DEF DeployObjects, Fault, nodeVars, TypeOK
  <2> QED BY <1>3, <2>2, <2>3, <2>4, <2>5, <2>6, <2>7, <2>8, <2>9 DEF Runs
<1>4. CASE User \/ Resume
  <2>1. UNCHANGED <<nodeVars, cluster, objects, faults>> /\ runs' \in 0..MaxRuns
    BY <1>4, LaunchStep
  <2> QED BY <2>1, <1>1 DEF TypeOK, nodeVars
<1>5. CASE End \/ Repair \/ UNCHANGED vars
  BY <1>5, <1>1 DEF End, Repair, TypeOK, vars, nodeVars
<1> QED BY <1>3, <1>4, <1>5 DEF Next

-----------------------------------------------------------------------------
(* What the states that change something find. *)

\* The parts of a state.
LEMMA PartsOf ==
  ASSUME NEW kind \in Kinds, NEW s \in States(kind, Nodes)
  PROVE  /\ s = State(s.do, s.on)
         /\ s.do \in ScriptActions => s.on = 0
         /\ s.do \in EtcdActions => s.on \in Etcd
         /\ s.do \in NodeActions => s.on \in Nodes
         /\ s.do \in NodeActions \ {"api", "label", "proxy"} =>
              s.do \in DeployActions(kind, s.on)
         /\ s.do = "install" => s.on \in Etcd /\ kind = "upgrade"
<1>1. \/ \E do \in ScriptActions : s = State(do, 0)
      \/ \E do \in EtcdActions, e \in Etcd : s = State(do, e)
      \/ \E n \in Nodes : \E do \in DeployActions(kind, n) \cup {"api", "label", "proxy"} :
           s = State(do, n)
  BY DEF States, EtcdStates, NodeStates, Deploy, All, ScriptActions
<1> QED
  BY <1>1 DEF State, ScriptActions, EtcdActions, NodeActions, DeployActions,
     EtcdDeployed

LEMMA StateParts ==
  ASSUME NEW r, RunInv(r), NEW s \in r.left
  PROVE  /\ r.nodes = Nodes /\ s = State(s.do, s.on)
         /\ s.do \in ScriptActions => s.on = 0
         /\ s.do \in EtcdActions => s.on \in Etcd
         /\ s.do \in NodeActions => s.on \in Nodes
         /\ s.do \in NodeActions \ {"api", "label", "proxy"} =>
              s.do \in DeployActions(r.kind, s.on)
         /\ s.do = "install" => s.on \in Etcd /\ r.kind = "upgrade"
<1>1. r.nodes = Nodes /\ s \in States(r.kind, Nodes) /\ r.kind \in Kinds
  BY DEF RunInv, AllNodes, RunRecord
<1> QED BY <1>1, PartsOf

\* A node that is begun comes after all that its place in the run promises.
LEMMA ApiMeans ==
  ASSUME NEW r, RunInv(r), NEW n \in r.nodes, State("api", n) \in r.ok
  PROVE  /\ State("annotate", 0) \in r.ok
         /\ r.kind = "upgrade" => EtcdStates \subseteq r.ok
         /\ \A p \in r.nodes : NodeBefore(r.kind, p, n) =>
              /\ Deploy(r.kind, p) \subseteq r.ok
              /\ State("label", p) \in r.ok /\ State("highstate", p) \in r.ok
<1>1. r.kind \in Kinds /\ Closed(r) /\ NodesInTurn(r)
  BY DEF RunInv, RunRecord
<1>2. Needs(r.kind, r.nodes, State("api", n)) \subseteq r.ok
  BY <1>1 DEF Closed
<1>3. ASSUME r.kind = "upgrade"
      PROVE  State("annotate", 0) \in r.ok /\ EtcdStates \subseteq r.ok
  <2>1. EtcdStates \subseteq r.ok /\ State("proxy", n) \in r.ok
    BY <1>1, <1>2, <1>3, NodeStateNeeds DEF NodeNeeds
  <2>2. Needs(r.kind, r.nodes, State("proxy", n)) \subseteq r.ok
    BY <2>1, <1>1 DEF Closed
  <2>3. State("annotate", 0) \in r.ok
    BY <2>2, <1>1, <1>3, NodeStateNeeds DEF Launched
  <2> QED BY <2>1, <2>3
<1>4. ASSUME r.kind # "upgrade"
      PROVE  State("annotate", 0) \in r.ok
  <2>1. State("bootstrap", 0) \in r.ok
    BY <1>1, <1>2, <1>4, NodeStateNeeds DEF Launched
  <2>2. Needs(r.kind, r.nodes, State("bootstrap", 0)) \subseteq r.ok
    BY <2>1, <1>1 DEF Closed
  <2> QED BY <2>2, <1>1, <1>4, ScriptNeeds
<1>5. ASSUME NEW p \in r.nodes, NodeBefore(r.kind, p, n)
      PROVE  /\ Deploy(r.kind, p) \subseteq r.ok
             /\ State("label", p) \in r.ok /\ State("highstate", p) \in r.ok
  <2>1. Deploy(r.kind, p) \subseteq r.ok
    BY <1>1, <1>5 DEF NodesInTurn
  <2>2. "highstate" \in DeployActions(r.kind, p)
    BY DEF DeployActions
  <2>3. State("highstate", p) \in r.ok
    BY <2>1, <2>2 DEF Deploy, All
  <2> QED BY <2>1, <2>2, <2>3, NodeIsBegun
<1> QED BY <1>3, <1>4, <1>5

\* A label is set on a node that is begun.
LEMMA LabelMeans ==
  ASSUME RunInv(run), NEW s \in run.left, Allowed(s), s.do = "label"
  PROVE  s.on \in Nodes /\ s = State("label", s.on) /\ State("api", s.on) \in run.ok
<1>1. s.on \in Nodes /\ s = State("label", s.on) /\ run.kind \in Kinds
  BY StateParts DEF NodeActions, RunInv, RunRecord
<1> QED BY <1>1, NodeStateNeeds DEF Allowed

\* The deployment of a node has its label, and what its own requirements say.
LEMMA DeployMeans ==
  ASSUME RunInv(run), NEW s \in run.left, Allowed(s),
         s.do \in NodeActions \ {"api", "label", "proxy"}
  PROVE  /\ s.on \in Nodes /\ s = State(s.do, s.on)
         /\ State("label", s.on) \in run.ok /\ State("api", s.on) \in run.ok
         /\ All(DeployNeeds(run.kind, s.on)[s.do], s.on) \subseteq run.ok
<1>1. /\ s.on \in Nodes /\ s = State(s.do, s.on) /\ run.kind \in Kinds
      /\ s.do \in DeployActions(run.kind, s.on) /\ run.nodes = Nodes
  BY StateParts DEF RunInv, RunRecord
<1>2. Needs(run.kind, run.nodes, s) =
        All({"label"} \cup DeployNeeds(run.kind, s.on)[s.do], s.on)
  BY <1>1, DeployStateNeeds, Zenon
<1>3. /\ State("label", s.on) \in run.ok
      /\ All(DeployNeeds(run.kind, s.on)[s.do], s.on) \subseteq run.ok
  BY <1>2 DEF Allowed, All
<1> QED BY <1>1, <1>3, NodeIsBegun

\* A member is deployed after the check of the cluster, in a downgrade after
\* every node.
LEMMA EtcdMeans ==
  ASSUME RunInv(run), NEW s \in run.left, Allowed(s), s.do = "etcd"
  PROVE  /\ s.on \in Etcd /\ s = State("etcd", s.on)
         /\ State("check", 0) \in run.ok /\ MemberNeeds(s.on) \subseteq run.ok
         /\ run.kind # "upgrade" => Deploys(run.kind, Nodes) \subseteq run.ok
<1>1. s.on \in Etcd /\ s = State("etcd", s.on) /\ run.kind \in Kinds /\ run.nodes = Nodes
  BY StateParts DEF EtcdActions, RunInv, RunRecord
<1>2. EtcdNeeds(run.kind, run.nodes) \cup MemberNeeds(s.on) \subseteq run.ok
  BY <1>1, MemberStateNeeds DEF Allowed
<1> QED BY <1>1, <1>2 DEF EtcdNeeds, MemberNeeds

-----------------------------------------------------------------------------
(* The invariant is inductive. *)

\* The kinds of steps, once and for all.
Reaching(s) == s \in run.left /\ Turn(s) /\ Goes(s)
Launching ==
  /\ InRange' /\ run'.ok = {} /\ Reached(run') = {} /\ UNCHANGED <<nodeVars, cluster>>
Idle ==
  /\ UNCHANGED <<label, kube, kubelet, member, cordoned, drained, cluster>>
  /\ down' \subseteq down /\ run'.kind = run.kind /\ run'.dest = run.dest
  /\ run'.nodes = run.nodes /\ run'.left = run.left /\ run'.ok = run.ok

LEMMA VersionStep ==
  ASSUME TypeOK, RunInv(run), VersionInv, [Next]_vars
  PROVE  VersionInv'
<1>1. \/ \E s : Reaching(s) /\ (Quiet(s) \/ (Allowed(s) /\ Changes(s)))
      \/ Launching \/ Idle
  BY Steps DEF VersionInv, Reaching, Launching, Idle
<1>2. /\ \A n \in Nodes : label[n] \in Nat
      /\ cluster \in Nat /\ run.dest \in Nat /\ run.kind \in Kinds
      /\ label \in [Nodes -> Versions] /\ kube \in [Nodes -> Versions]
      /\ kubelet \in [Nodes -> Versions] /\ member \in [Etcd -> Versions]
      /\ AllNodes(run)
  BY DEF TypeOK, Versions, RunRecord, RunInv
<1>3. ASSUME NEW s, Reaching(s), Quiet(s) PROVE VersionInv'
  <2>1. /\ \A n \in Nodes : (State("label", n) \in run'.ok => State("label", n) \in run.ok)
                         /\ (State("highstate", n) \in run'.ok => State("highstate", n) \in run.ok)
                         /\ (State("etcd", n) \in run'.ok => State("etcd", n) \in run.ok)
        /\ State("annotate", 0) \in run'.ok => State("annotate", 0) \in run.ok
    BY <1>3 DEF Reaching, Goes, Quiet, QuietActions, State
  <2>2. Etcd \subseteq Nodes
    BY NodeAssumption
  <2> QED BY <1>3, <2>1, <2>2 DEF VersionInv, Labelled, Installed, Annotated,
    MemberDeployed,
       Near, InRange, Quiet, nodeVars, Reaching, Goes
<1>4. ASSUME NEW s, Reaching(s), Allowed(s), Changes(s) PROVE VersionInv'
  <2>1. s = State(s.do, s.on) /\ run.nodes = Nodes
    BY <1>4, StateParts DEF Reaching
  <2>2. CASE UpgradeBootstrap(s)
    BY <2>2, <2>1, <1>4, <1>2 DEF UpgradeBootstrap, State, VersionInv, Labelled,
       Installed,
       Annotated, MemberDeployed, Near, InRange, Reaching, Goes
  <2>3. CASE Annotate(s)
    BY <2>3, <2>1, <1>4, <1>2 DEF Annotate, State, VersionInv, Labelled,
       Installed,
       Annotated, MemberDeployed, Near, InRange, Reaching, Goes, nodeVars
  <2>4. CASE DeployEtcd(s)
    BY <2>4, <2>1, <1>4, <1>2 DEF DeployEtcd, State, VersionInv, Labelled,
       Installed,
       Annotated, MemberDeployed, Near, InRange, Reaching, Goes
  <2>5. CASE SetVersion(s)
    <3>1. s.on \in Nodes /\ State("annotate", 0) \in run.ok
      BY <2>5, <2>1, <1>4, LabelMeans, ApiMeans DEF SetVersion, Reaching
    <3>2. cluster = run.dest
      BY <3>1 DEF VersionInv, Annotated
    <3> QED BY <2>5, <3>1, <3>2, <2>1, <1>4, <1>2 DEF SetVersion, State,
      VersionInv, Labelled,
         Installed, Annotated, MemberDeployed, Near, InRange, Reaching, Goes
  <2>6. CASE Cordon(s) \/ Drain(s) \/ Uncordon(s)
    BY <2>6, <2>1, <1>4, <1>2 DEF Cordon, Drain, Uncordon, State, VersionInv,
       Labelled,
       Installed, Annotated, MemberDeployed, Near, InRange, Reaching, Goes
  <2>7. CASE Highstate(s)
    <3>1. s.on \in Nodes /\ State("label", s.on) \in run.ok
      BY <2>7, <1>4, DeployMeans DEF Highstate, Reaching, NodeActions
    <3>2. label[s.on] = run.dest
      BY <3>1 DEF VersionInv, Labelled
    <3> QED BY <2>7, <3>1, <3>2, <2>1, <1>4, <1>2 DEF Highstate, State,
      VersionInv, Labelled,
         Installed, Annotated, MemberDeployed, Near, InRange, Reaching, Goes
  <2> QED BY <1>4, <2>2, <2>3, <2>4, <2>5, <2>6, <2>7 DEF Changes
<1>5. CASE Launching
  BY <1>5 DEF Launching, VersionInv, Labelled, Installed, Annotated,
     MemberDeployed, Near,
     nodeVars
<1>6. CASE Idle
  BY <1>6 DEF Idle, VersionInv, Labelled, Installed, Annotated, MemberDeployed,
     Near, InRange
<1> QED BY <1>1, <1>3, <1>4, <1>5, <1>6

LEMMA SkewStep ==
  ASSUME TypeOK, RunInv(run), VersionInv, SkewInv, [Next]_vars
  PROVE  SkewInv'
<1>1. \/ \E s : Reaching(s) /\ (Quiet(s) \/ (Allowed(s) /\ Changes(s)))
      \/ Launching \/ Idle
  BY Steps DEF VersionInv, Reaching, Launching, Idle
<1>2. /\ \A n \in Nodes : label[n] \in Nat /\ kube[n] \in Nat /\ kubelet[n] \in Nat
      /\ run.dest \in Nat /\ run.kind \in Kinds
      /\ label \in [Nodes -> Versions] /\ kube \in [Nodes -> Versions]
      /\ kubelet \in [Nodes -> Versions]
      /\ ControlPlane \subseteq Nodes /\ Others \subseteq Nodes
      /\ ControlPlane \cap Others = {}
  BY NodeAssumption DEF TypeOK, Versions, RunRecord, Nodes
<1>3. CASE UNCHANGED <<label, kube, kubelet>>
  BY <1>3 DEF SkewInv
<1>4. ASSUME NEW s, Reaching(s), UpgradeBootstrap(s) PROVE SkewInv'
  BY <1>4, <1>2 DEF UpgradeBootstrap, SkewInv
<1>5. ASSUME NEW s, Reaching(s), Allowed(s), SetVersion(s) PROVE SkewInv'
  <2>1. s.on \in Nodes /\ State("api", s.on) \in run.ok /\ run.nodes = Nodes
    BY <1>5, LabelMeans, StateParts DEF SetVersion, Reaching
  <2>2. ASSUME NEW p \in Nodes, NodeBefore(run.kind, p, s.on)
        PROVE  label[p] = run.dest /\ kube[p] = run.dest /\ kubelet[p] = run.dest
    BY <2>1, <2>2, ApiMeans DEF VersionInv, Labelled, Installed
  <2>3. ASSUME NEW m \in ControlPlane, NEW w \in Others
        PROVE  IF run.kind = "upgrade" THEN NodeBefore(run.kind, m, w)
                                       ELSE NodeBefore(run.kind, w, m)
    BY <1>2 DEF NodeBefore, FirstNodes
  <2> QED BY <1>5, <1>2, <2>1, <2>2, <2>3 DEF SetVersion, SkewInv, VersionInv,
    InRange
<1>6. ASSUME NEW s, Reaching(s), Highstate(s) PROVE SkewInv'
  BY <1>6, <1>2 DEF Highstate, SkewInv
<1>7. ASSUME NEW s, Quiet(s) \/ Annotate(s) \/ DeployEtcd(s) \/ Cordon(s) \/ Drain(s) \/ Uncordon(s)
      PROVE  UNCHANGED <<label, kube, kubelet>>
  BY <1>7 DEF Quiet, Annotate, DeployEtcd, Cordon, Drain, Uncordon, nodeVars
<1> QED BY <1>1, <1>3, <1>4, <1>5, <1>6, <1>7 DEF Changes, Launching, Idle,
  nodeVars

LEMMA EtcdStep ==
  ASSUME TypeOK, RunInv(run), VersionInv, EtcdInv, [Next]_vars
  PROVE  EtcdInv'
<1>1. \/ \E s : Reaching(s) /\ (Quiet(s) \/ (Allowed(s) /\ Changes(s)))
      \/ Launching \/ Idle
  BY Steps DEF VersionInv, Reaching, Launching, Idle
<1>2. /\ \A n \in Nodes : label[n] \in Nat
      /\ \A e \in Etcd : member[e] \in Nat
      /\ run.dest \in Nat /\ run.kind \in Kinds
      /\ label \in [Nodes -> Versions] /\ member \in [Etcd -> Versions]
  BY DEF TypeOK, Versions, RunRecord
<1>3. CASE UNCHANGED <<label, member>>
  BY <1>3 DEF EtcdInv
<1>4. ASSUME NEW s, Reaching(s), Allowed(s), SetVersion(s) PROVE EtcdInv'
  <2>1. s.on \in Nodes /\ State("api", s.on) \in run.ok /\ run.nodes = Nodes
    BY <1>4, LabelMeans, StateParts DEF SetVersion, Reaching
  <2>2. run.kind = "upgrade" => \A e \in Etcd : member[e] = run.dest
    <3>1. run.kind = "upgrade" => EtcdStates \subseteq run.ok
      BY <2>1, ApiMeans
    <3>2. \A e \in Etcd : State("etcd", e) \in EtcdStates
      BY DEF EtcdStates, All, EtcdActions
    <3> QED BY <3>1, <3>2 DEF VersionInv, MemberDeployed
  <2> QED BY <1>4, <1>2, <2>1, <2>2 DEF SetVersion, EtcdInv, VersionInv, InRange
<1>5. ASSUME NEW s, Reaching(s), Allowed(s), DeployEtcd(s) PROVE EtcdInv'
  <2>1. \A n \in Nodes : label[n] <= run.dest
    <3>1. CASE run.kind = "upgrade"
      BY <3>1 DEF VersionInv, InRange
    <3>2. CASE run.kind # "upgrade"
      <4>1. s.do = "etcd"
        BY <1>5, <3>2, StateParts DEF DeployEtcd, Reaching
      <4>2. \A n \in Nodes : State("grains", n) \in run.ok
        BY <1>5, <4>1, <3>2, EtcdMeans DEF Reaching, Deploys, Deploy, All,
           DeployActions
      <4>3. \A n \in Nodes : State("label", n) \in run.ok
        BY <1>5, <4>2, StateParts, NodeIsBegun DEF Reaching, DeployActions
      <4> QED BY <4>3, <1>2 DEF VersionInv, Labelled
    <3> QED BY <3>1, <3>2
  <2> QED BY <1>5, <1>2, <2>1 DEF DeployEtcd, EtcdInv
<1>6. ASSUME NEW s, \/ Quiet(s) \/ Annotate(s) \/ UpgradeBootstrap(s) \/ Cordon(s)
                    \/ Drain(s) \/ Uncordon(s) \/ Highstate(s)
      PROVE  UNCHANGED <<label, member>>
  BY <1>6 DEF Quiet, Annotate, UpgradeBootstrap, Cordon, Drain, Uncordon,
     Highstate, nodeVars
<1> QED BY <1>1, <1>3, <1>4, <1>5, <1>6 DEF Changes, Launching, Idle, nodeVars

\* Whatever comes after a state that was reached was reached.
LEMMA UncordonComesLast ==
  ASSUME RunInv(run), NEW n \in Nodes, NEW do \in {"cordon", "drain", "highstate"},
         State(do, n) \in run.left
  PROVE  State("uncordon", n) \in run.left
<1>1. run.kind \in Kinds /\ run.nodes = Nodes /\ InOrder(run)
  BY DEF RunInv, RunRecord, AllNodes
<1>2. State("uncordon", n) \in States(run.kind, run.nodes)
  BY <1>1, StateSet DEF DeployActions
<1>3. Before(run.kind, State(do, n), State("uncordon", n))
  BY <1>1, Stages DEF Before, State, Place, NodeActions
<1> QED BY <1>1, <1>2, <1>3 DEF InOrder, Reached

LEMMA ServiceStep ==
  ASSUME TypeOK, RunInv(run), VersionInv, ServiceInv, [Next]_vars
  PROVE  ServiceInv'
<1>1. \/ \E s : Reaching(s) /\ (Quiet(s) \/ (Allowed(s) /\ Changes(s)))
      \/ Launching \/ Idle
  BY Steps DEF VersionInv, Reaching, Launching, Idle
<1>2. ASSUME NEW s, Reaching(s), UNCHANGED <<cordoned, drained>>,
             run'.ok = run.ok \/ s.do \notin {"cordon", "drain", "uncordon"}
      PROVE  ServiceInv'
  <2>1. \A n \in Nodes, do \in {"cordon", "drain", "uncordon"} :
          /\ State(do, n) \in run'.ok => State(do, n) \in run.ok
          /\ State(do, n) \in run'.left => State(do, n) \in run.left
    BY <1>2 DEF Reaching, Goes, State
  <2> QED BY <2>1, <1>2 DEF ServiceInv
<1>3. ASSUME NEW s, Reaching(s), Quiet(s) PROVE ServiceInv'
  BY <1>2, <1>3 DEF Quiet, QuietActions, nodeVars
<1>4. ASSUME NEW s, Reaching(s), Allowed(s), Cordon(s) PROVE ServiceInv'
  <2>1. s = State("cordon", s.on) /\ s.on \in Nodes /\ State("uncordon", s.on) \in run.left
    BY <1>4, StateParts, UncordonComesLast DEF Cordon, Reaching, NodeActions
  <2>2. State("uncordon", s.on) \notin run.ok
    BY <2>1 DEF RunInv, Reached
  <2>3. \A n \in Nodes :
          /\ State("uncordon", n) \in run'.ok => State("uncordon", n) \in run.ok
          /\ State("uncordon", n) \in run'.left => State("uncordon", n) \in run.left
          /\ State("drain", n) \in run'.ok => State("drain", n) \in run.ok
          /\ State("cordon", n) \in run'.ok => State("cordon", n) \in run.ok \/ n = s.on
    BY <1>4, <2>1 DEF Reaching, Goes, State, Cordon
  <2> QED BY <1>4, <2>1, <2>2, <2>3 DEF Cordon, ServiceInv
<1>5. ASSUME NEW s, Reaching(s), Drain(s) PROVE ServiceInv'
  <2>1. s = State("drain", s.on)
    BY <1>5, StateParts DEF Drain, Reaching, NodeActions
  <2>2. \A n \in Nodes :
          /\ State("uncordon", n) \in run'.ok => State("uncordon", n) \in run.ok
          /\ State("uncordon", n) \in run'.left => State("uncordon", n) \in run.left
          /\ State("cordon", n) \in run'.ok => State("cordon", n) \in run.ok
          /\ State("drain", n) \in run'.ok => State("drain", n) \in run.ok \/ n = s.on
    BY <1>5, <2>1 DEF Reaching, Goes, State, Drain
  <2> QED BY <1>5, <2>2 DEF Drain, ServiceInv
<1>6. ASSUME NEW s, Reaching(s), Uncordon(s) PROVE ServiceInv'
  <2>1. s = State("uncordon", s.on)
    BY <1>6, StateParts DEF Uncordon, Reaching, NodeActions
  <2>2. \A n \in Nodes :
          /\ State("uncordon", n) \in run'.ok => State("uncordon", n) \in run.ok \/ n = s.on
          /\ State("uncordon", n) \in run'.left => State("uncordon", n) \in run.left /\ n # s.on
          /\ State("cordon", n) \in run'.ok => State("cordon", n) \in run.ok
          /\ State("drain", n) \in run'.ok => State("drain", n) \in run.ok
    BY <1>6, <2>1 DEF Reaching, Goes, State, Uncordon
  <2> QED BY <1>6, <2>2 DEF Uncordon, ServiceInv
<1>7. ASSUME NEW s, Reaching(s),
             \/ Annotate(s) \/ UpgradeBootstrap(s) \/ DeployEtcd(s) \/ SetVersion(s) \/ Highstate(s)
      PROVE  ServiceInv'
  BY <1>7, <1>2 DEF Annotate, UpgradeBootstrap, DeployEtcd, SetVersion,
     Highstate, nodeVars
<1>8. CASE Launching
  <2>1. run'.left = {}  \/ \A n \in Nodes, do \in {"cordon", "drain", "uncordon"} : State(do, n) \notin run'.ok
    BY <1>8 DEF Launching
  <2> QED BY <2>1, <1>8 DEF Launching, ServiceInv
<1>9. CASE Idle
  BY <1>9 DEF Idle, ServiceInv
<1> QED BY <1>1, <1>3, <1>4, <1>5, <1>6, <1>7, <1>8, <1>9 DEF Changes

\* When a member is about to restart, no earlier restart of the run failed.
LEMMA MembersAreBack ==
  ASSUME RunInv(run), NEW s \in run.left, Allowed(s), s.do \in {"etcd", "install"}
  PROVE  /\ State("check", 0) \in run.ok
         /\ \A t \in Reached(run) : t.do \in {"etcd", "install"} => t \in run.ok
<1>1. /\ run.kind \in Kinds /\ run.nodes = Nodes /\ InOrder(run) /\ Closed(run)
      /\ MembersInTurn(run) /\ Etcd \subseteq Nat
  BY NodeAssumption DEF RunInv, RunRecord, AllNodes
<1>2. \A t \in Reached(run) : t \in States(run.kind, Nodes) /\ t # s /\ ~Before(run.kind, s, t)
  BY <1>1 DEF Reached, InOrder
<1>3. CASE s.do = "etcd"
  <2>1. /\ s.on \in Etcd /\ s = State("etcd", s.on) /\ State("check", 0) \in run.ok
        /\ MemberNeeds(s.on) \subseteq run.ok
    BY <1>3, EtcdMeans
  <2>2. ASSUME NEW t \in Reached(run), t.do = "etcd" PROVE t \in run.ok
    <3>1. t = State("etcd", t.on) /\ t.on \in Etcd
      BY <1>1, <1>2, <2>2, PartsOf DEF EtcdActions
    <3>2. t.on < s.on
      <4>1. t.on # s.on
        BY <3>1, <2>1, <1>2
      <4>2. ~(s.on < t.on)
        BY <4>1, <1>2, <2>2, <1>3 DEF Before, EtcdActions
      <4>3. t.on \in Nat /\ s.on \in Nat
        BY <3>1, <2>1, <1>1
      <4> QED BY <4>1, <4>2, <4>3
    <3>3. PICK m \in PreviousMember(s.on) : t.on = m \/ t.on < m
      BY <3>1, <3>2, <2>1, PreviousMemberExists
    <3>4. m \in Etcd /\ State("health", m) \in run.ok
      BY <2>1 DEF MemberNeeds, PreviousMember
    <3>5. State("etcd", m) \in run.ok
      <4>1. Needs(run.kind, run.nodes, State("health", m)) \subseteq run.ok
        BY <3>4, <1>1 DEF Closed
      <4> QED BY <4>1, <1>1, MemberStateNeeds
    <3> QED BY <3>1, <3>3, <3>4, <3>5, <1>1 DEF MembersInTurn
  <2>3. ASSUME NEW t \in Reached(run), t.do = "install" PROVE FALSE
    <3>1. run.kind = "upgrade"
      BY <1>1, <1>2, <2>3, PartsOf
    <3>2. Before(run.kind, s, t)
      BY <3>1, <1>1, <1>3, <2>3, Stages DEF Before, NodeActions
    <3> QED BY <3>2, <1>2
  <2> QED BY <2>1, <2>2, <2>3
<1>4. CASE s.do = "install"
  <2>1. s.on \in Nodes /\ State("api", s.on) \in run.ok /\ run.kind = "upgrade"
    BY <1>4, DeployMeans, StateParts DEF NodeActions
  <2>2. EtcdStates \subseteq run.ok
    BY <1>1, <2>1, ApiMeans
  <2>3. State("check", 0) \in run.ok
    BY <2>2 DEF EtcdStates
  <2>4. ASSUME NEW t \in Reached(run), t.do = "etcd" PROVE t \in run.ok
    <3>1. t = State("etcd", t.on) /\ t.on \in Etcd
      BY <1>1, <1>2, <2>4, PartsOf DEF EtcdActions
    <3>2. State("etcd", t.on) \in EtcdStates
      BY <3>1 DEF EtcdStates, All, EtcdActions
    <3> QED BY <3>1, <3>2, <2>2, Zenon
  <2>5. ASSUME NEW t \in Reached(run), t.do = "install" PROVE t \in run.ok
    <3>1. /\ t = State("install", t.on) /\ t.on \in Nodes
          /\ "install" \in DeployActions(run.kind, t.on)
      BY <1>1, <1>2, <2>5, PartsOf DEF NodeActions
    <3>2. s = State("install", s.on)
      BY <1>4, StateParts
    <3>3. t.on # s.on
      BY <3>1, <3>2, <1>2
    <3>4. ~NodeBefore(run.kind, s.on, t.on)
      BY <3>3, <1>2, <2>5, <1>4 DEF Before, EtcdActions
    <3>5. NodeBefore(run.kind, t.on, s.on)
      BY <3>1, <3>3, <3>4, <2>1, NodesInOrder
    <3>6. Deploy(run.kind, t.on) \subseteq run.ok
      BY <3>1, <3>5, <1>1, <2>1, ApiMeans
    <3>7. State("install", t.on) \in Deploy(run.kind, t.on)
      BY <3>1 DEF Deploy, All
    <3>8. State("install", t.on) \in run.ok
      BY <3>6, <3>7
    <3> QED BY <3>1, <3>8, Zenon
  <2> QED BY <2>3, <2>4, <2>5
<1> QED BY <1>3, <1>4

LEMMA QuorumStep ==
  ASSUME TypeOK, RunInv(run), VersionInv, QuorumInv, [Next]_vars
  PROVE  QuorumInv'
<1>1. /\ RunInv(run')
      /\ \/ \E s : Reaching(s) /\ (Quiet(s) \/ (Allowed(s) /\ Changes(s)))
         \/ Launching \/ Idle
  BY Steps DEF VersionInv, Reaching, Launching, Idle
<1>2. ASSUME NEW s, Reaching(s)
      PROVE  Reached(run') = Reached(run) \cup {s} /\ s \notin run.ok
  BY <1>2 DEF Reaching, Goes, Reached, RunInv
<1>3. ASSUME NEW s, Reaching(s), down' = down,
             \/ run'.ok = run.ok
             \/ s.do \notin {"etcd", "install"} /\ (s.do = "check" => down = {})
      PROVE  QuorumInv'
  BY <1>2, <1>3 DEF QuorumInv, Reaching, Goes, State
<1>4. ASSUME NEW s, Reaching(s), Allowed(s), DeployEtcd(s) PROVE QuorumInv'
  <2>1. down = {}
    BY <1>4, MembersAreBack DEF DeployEtcd, Reaching, QuorumInv
  <2>2. CASE Succeed(s) /\ UNCHANGED down
    BY <2>1, <2>2 DEF QuorumInv
  <2>3. CASE Fault(s) /\ down' \in {down, down \cup {s.on}}
    <3>1. s \in Reached(run') /\ s \notin run'.ok
      <4>1. run'.ok = run.ok
        BY <2>3 DEF Fault, Fail, RunInv, RunRecord
      <4> QED BY <4>1, <1>2, <1>4
    <3>2. s.do \in {"etcd", "install"}
      BY <1>4 DEF DeployEtcd
    <3> QED BY <2>1, <2>3, <3>1, <3>2 DEF QuorumInv
  <2> QED BY <1>4, <2>2, <2>3 DEF DeployEtcd
<1>5. ASSUME NEW s, Reaching(s), Quiet(s) PROVE QuorumInv'
  BY <1>3, <1>5 DEF Quiet, QuietActions, nodeVars
<1>6. ASSUME NEW s, Reaching(s), Changes(s), ~DeployEtcd(s) PROVE QuorumInv'
  BY <1>3, <1>6 DEF Changes, UpgradeBootstrap, Annotate, SetVersion, Cordon,
     Drain, Highstate,
     Uncordon, nodeVars
<1>7. CASE Launching
  BY <1>7 DEF Launching, QuorumInv, nodeVars
<1>8. CASE Idle
  BY <1>8 DEF Idle, QuorumInv, Reached
<1> QED BY <1>1, <1>4, <1>5, <1>6, <1>7, <1>8

-----------------------------------------------------------------------------
(* The theorems. *)

LEMMA InitIsSound == Init => IInv
<1> SUFFICES ASSUME Init PROVE IInv
  OBVIOUS
<1>1. /\ cluster \in Versions /\ cluster \in Nat /\ Versions \subseteq Nat
      /\ \A n \in Nodes : label[n] = cluster /\ kube[n] = cluster /\ kubelet[n] = cluster
      /\ \A e \in Etcd : member[e] = cluster
      /\ ControlPlane \subseteq Nodes /\ Others \subseteq Nodes
  BY DEF Init, Versions, Nodes
<1>2. /\ run \in RunRecord /\ run.left = {} /\ run.ok = {} /\ run.kind = "upgrade"
      /\ run.dest = cluster /\ run.status = "done"
  BY DEF Init, RunRecord, Kinds
<1>3. TypeOK
  BY <1>1, <1>2, BoundAssumption DEF Init, TypeOK
<1>4. RunInv(run)
  BY <1>2 DEF RunInv, AllNodes, InOrder, Closed, NodesInTurn, MembersInTurn
<1>5. VersionInv
  BY <1>1, <1>2 DEF VersionInv, Labelled, Installed, Annotated, MemberDeployed,
     Near, InRange
<1>6. SkewInv /\ EtcdInv
  BY <1>1 DEF SkewInv, EtcdInv
<1>7. ServiceInv /\ QuorumInv
  BY <1>2 DEF Init, ServiceInv, QuorumInv
<1> QED BY <1>3, <1>4, <1>5, <1>6, <1>7 DEF IInv

LEMMA StepIsSound == IInv /\ [Next]_vars => IInv'
<1> SUFFICES ASSUME IInv, [Next]_vars PROVE IInv'
  OBVIOUS
<1>1. /\ TypeOK /\ RunInv(run) /\ VersionInv /\ Near /\ InRange
      /\ SkewInv /\ EtcdInv /\ ServiceInv /\ QuorumInv
  BY DEF IInv, VersionInv
<1>2. TypeOK'
  BY <1>1, TypeStep
<1>3. RunInv(run)'
  BY <1>1, Steps
<1>4. VersionInv'
  BY <1>1, VersionStep
<1>5. SkewInv' /\ EtcdInv'
  BY <1>1, SkewStep, EtcdStep
<1>6. ServiceInv' /\ QuorumInv'
  BY <1>1, ServiceStep, QuorumStep
<1> QED BY <1>2, <1>3, <1>4, <1>5, <1>6 DEF IInv

LEMMA AlwaysSound == Spec => []IInv
BY InitIsSound, StepIsSound, PTL DEF Spec

\* The variables of scripts/upgrade.sh.in and of its orchestrations keep their
\* types, and the states that are left of a run are states of that run.
THEOREM TypeCorrect == Spec => []TypeOK
<1>1. IInv => TypeOK
  BY DEF IInv
<1> QED BY <1>1, AlwaysSound, PTL

\* upgrade/init.sls and downgrade/init.sls: whatever fails, is retried or is
\* undone, no worker has a kubelet that is newer than an API server.
THEOREM WorkersFollow == Spec => []WorkersNeverAhead
<1>1. IInv => WorkersNeverAhead
  BY NodeAssumption DEF IInv, SkewInv, WorkersNeverAhead
<1> QED BY <1>1, AlwaysSound, PTL

\* etcd.sls: no API server that is at the version of its label is newer than an
\* etcd member.
THEOREM EtcdLeads == Spec => []EtcdNeverBehind
<1>1. IInv => EtcdNeverBehind
  <2> SUFFICES ASSUME IInv, NEW m \in ControlPlane, NEW e \in Etcd, ~(label[m] < kube[m])
               PROVE  kube[m] <= member[e]
    BY DEF EtcdNeverBehind
  <2>1. label[m] \in Nat /\ kube[m] \in Nat /\ member[e] \in Nat /\ label[m] <= member[e]
    BY DEF IInv, TypeOK, Versions, EtcdInv, Nodes
  <2> QED BY <2>1
<1> QED BY <1>1, AlwaysSound, PTL

\* deploy_node.sls: of the nodes that a run cordoned, one at most is still out
\* of service.
THEOREM OneOutOfService == Spec => []OneNodeAtATime
<1>1. IInv => OneNodeAtATime
  <2> SUFFICES ASSUME IInv PROVE OneNodeAtATime
    OBVIOUS
  <2> DEFINE Out == {n \in cordoned : State("cordon", n) \in run.ok}
  <2>1. /\ RunInv(run) /\ ServiceInv /\ run.kind \in Kinds
        /\ run.nodes = Nodes \/ run.ok = {}
    BY DEF IInv, RunInv, RunRecord, AllNodes
  <2>2. Out \in SUBSET Nodes /\ IsFiniteSet(Out)
    <3>1. Out \in SUBSET Nodes
      BY DEF IInv, TypeOK
    <3> QED BY <3>1, FS_Subset, NodeAssumption
  <2>3. ASSUME NEW m \in Out, NEW n \in Out, NodeBefore(run.kind, m, n) PROVE FALSE
    <3>1. m \in Nodes /\ n \in Nodes /\ run.nodes = Nodes
      BY <2>1, <2>2
    <3>2. State("api", n) \in run.ok
      BY <3>1, <2>1, NodeIsBegun DEF DeployActions
    <3>3. Deploy(run.kind, m) \subseteq run.ok
      BY <3>1, <3>2, <2>1, <2>3, ApiMeans
    <3>4. State("uncordon", m) \in run.ok
      BY <3>3 DEF Deploy, All, DeployActions
    <3> QED BY <3>1, <3>4, <2>1 DEF ServiceInv
  <2>4. \A m, n \in Out : m = n
    BY <2>2, <2>3, NodesInOrder
  <2>5. Cardinality(Out) <= 1
    <3>1. CASE Out = {}
      BY <3>1, FS_EmptySet
    <3>2. CASE Out # {}
      <4>1. PICK n \in Out : TRUE
        BY <3>2
      <4>2. Out = {n}
        BY <4>1, <2>4
      <4>3. Cardinality({n}) = 1
        BY FS_Singleton, Zenon
      <4> QED BY <4>2, <4>3
    <3> QED BY <3>1, <3>2
  <2> QED BY <2>5 DEF OneNodeAtATime
<1> QED BY <1>1, AlwaysSound, PTL

\* etcd.sls and check_etcd_health: no run leaves two members that do not answer.
THEOREM QuorumIsKept == Spec => []QuorumKept
<1>1. IInv => QuorumKept
  <2> SUFFICES ASSUME IInv PROVE QuorumKept
    OBVIOUS
  <2>1. CASE down = {}
    BY <2>1, FS_EmptySet DEF QuorumKept
  <2>2. CASE down # {}
    <3>1. PICK e \in down : TRUE
      BY <2>2
    <3>2. down = {e}
      BY <3>1 DEF IInv, QuorumInv
    <3>3. Cardinality({e}) = 1
      BY FS_Singleton, Zenon
    <3> QED BY <3>2, <3>3 DEF QuorumKept
  <2> QED BY <2>1, <2>2
<1> QED BY <1>1, AlwaysSound, PTL

\* deploy_node.sls: the highstate of a node runs while the node is out of
\* service, and nothing else changes its components.
THEOREM DrainedWhenChanged == Spec => ChangedWhenDrained
<1> DEFINE Step == \A n \in Nodes :
      kube'[n] # kube[n] \/ (kubelet'[n] # kubelet[n] /\ n # Bootstrap) =>
        n \in cordoned /\ (n \in drained \/ Cardinality(Nodes) = 1)
<1>1. IInv /\ [Next]_vars => Step
  <2> SUFFICES ASSUME IInv, [Next]_vars PROVE Step
    OBVIOUS
  <2>1. TypeOK /\ RunInv(run) /\ VersionInv /\ ServiceInv /\ Near /\ InRange
    BY DEF IInv, VersionInv
  <2>2. \/ \E s : Reaching(s) /\ (Quiet(s) \/ (Allowed(s) /\ Changes(s)))
        \/ Launching \/ Idle
    BY <2>1, Steps DEF Reaching, Launching, Idle
  <2>3. CASE UNCHANGED <<kube, kubelet>>
    BY <2>3
  <2>4. ASSUME NEW s, Reaching(s), UpgradeBootstrap(s) PROVE Step
    BY <2>4, <2>1 DEF UpgradeBootstrap, TypeOK
  <2>5. ASSUME NEW s, Reaching(s), Allowed(s), Highstate(s) PROVE Step
    <3>1. /\ s.on \in Nodes /\ s = State("highstate", s.on)
          /\ All(HighstateNeeds, s.on) \subseteq run.ok
      <4>1. s \in run.left /\ s.do = "highstate"
        BY <2>5 DEF Reaching, Highstate
      <4>2. /\ s.on \in Nodes /\ s = State(s.do, s.on)
            /\ All(DeployNeeds(run.kind, s.on)[s.do], s.on) \subseteq run.ok
        BY <4>1, <2>1, <2>5, DeployMeans DEF NodeActions
      <4>3. DeployNeeds(run.kind, s.on)["highstate"] = HighstateNeeds
        BY DEF DeployNeeds
      <4> QED BY <4>1, <4>2, <4>3, Zenon
    <3>2. State("uncordon", s.on) \in run.left
      BY <3>1, <2>1, <2>5, UncordonComesLast DEF Reaching
    <3>3. State("cordon", s.on) \in run.ok
      BY <3>1 DEF HighstateNeeds, All
    <3>4. Cardinality(Nodes) > 1 => State("drain", s.on) \in run.ok
      BY <3>1 DEF HighstateNeeds, All
    <3>5. Cardinality(Nodes) = 1 \/ Cardinality(Nodes) > 1
      <4>1. Cardinality(Nodes) \in Nat /\ Cardinality(Nodes) # 0
        BY NodeAssumption, FS_CardinalityType, FS_EmptySet
      <4> QED BY <4>1
    <3>6. s.on \in cordoned /\ (s.on \in drained \/ Cardinality(Nodes) = 1)
      BY <3>1, <3>2, <3>3, <3>4, <3>5, <2>1 DEF ServiceInv
    <3>7. \A n \in Nodes \ {s.on} : kube'[n] = kube[n] /\ kubelet'[n] = kubelet[n]
      BY <2>5, <2>1 DEF Highstate, TypeOK
    <3> QED BY <3>6, <3>7
  <2>6. ASSUME NEW s, \/ Quiet(s) \/ Annotate(s) \/ DeployEtcd(s) \/ SetVersion(s)
                      \/ Cordon(s) \/ Drain(s) \/ Uncordon(s)
        PROVE  UNCHANGED <<kube, kubelet>>
    BY <2>6 DEF Quiet, Annotate, DeployEtcd, SetVersion, Cordon, Drain,
       Uncordon, nodeVars
  <2>7. CASE Launching \/ Idle
    BY <2>7, <2>3 DEF Launching, Idle, nodeVars
  <2> QED BY <2>2, <2>3, <2>4, <2>5, <2>6, <2>7 DEF Changes
<1> QED BY <1>1, AlwaysSound, PTL DEF Spec, ChangedWhenDrained

\* The "Skip node" of upgrade/init.sls never happens to users who follow the
\* documentation: every run is for every node.
THEOREM NoNodeSkipped == Spec => [](run.status = "running" => run.nodes = Nodes)
<1>1. IInv => (run.status = "running" => run.nodes = Nodes)
  BY DEF IInv, RunInv, AllNodes
<1> QED BY <1>1, AlwaysSound, PTL

\* The states that come before a state of a node, by their stage or by their
\* place.
LEMMA BeforeOfStages ==
  ASSUME NEW kind \in Kinds
  PROVE  /\ \A s, t : Stage[kind][s.do] < Stage[kind][t.do] => Before(kind, s, t)
         /\ \A m, n : \A a, b \in NodeActions : NodeBefore(kind, m, n) /\ m # n =>
              Before(kind, State(a, m), State(b, n))
         /\ \A n : \A a, b \in NodeActions : Place[a] < Place[b] =>
              Before(kind, State(a, n), State(b, n))
         /\ \A a, b \in EtcdActions, d, e \in Etcd : d < e =>
              Before(kind, State(a, d), State(b, e))
         /\ \A e : Before(kind, State("etcd", e), State("health", e))
<1>1. \A a, b \in EtcdActions : Stage[kind][a] = Stage[kind][b]
  BY Stages DEF EtcdActions, Kinds
<1>2. \A a, b \in NodeActions : Stage[kind][a] = Stage[kind][b] /\ a \notin EtcdActions
  BY Stages DEF EtcdActions, NodeActions
<1>3. \A a, m : State(a, m).do = a /\ State(a, m).on = m
  BY DEF State
<1>4. \A d, e \in Etcd : d < e => d # e
  BY NodeAssumption
<1>5. Place["etcd"] < Place["health"] /\ "etcd" \in EtcdActions /\ "health" \in EtcdActions
  BY DEF Place, EtcdActions
<1>6. \A s, t : Stage[kind][s.do] < Stage[kind][t.do] => Before(kind, s, t)
  BY DEF Before
<1>7. \A m, n : \A a, b \in NodeActions : NodeBefore(kind, m, n) /\ m # n =>
        Before(kind, State(a, m), State(b, n))
  BY <1>2, <1>3 DEF Before
<1>8. \A n : \A a, b \in NodeActions : Place[a] < Place[b] => Before(kind, State(a, n), State(b, n))
  BY <1>2, <1>3 DEF Before
<1>9. \A a, b \in EtcdActions, d, e \in Etcd : d < e => Before(kind, State(a, d), State(b, e))
  BY <1>1, <1>3, <1>4 DEF Before
<1>10. \A e : Before(kind, State("etcd", e), State("health", e))
  BY <1>1, <1>3, <1>5 DEF Before
<1> QED BY <1>6, <1>7, <1>8, <1>9, <1>10

\* etcd.sls, deploy_node.sls, upgrade/init.sls and downgrade/init.sls: every
\* state that another one requires is in the orchestration, and Salt comes to it
\* earlier, whatever the nodes and their roles.  (Salt refuses an orchestration
\* that requires an unknown state, or states that require each other.)
THEOREM RequirementsComeFirst ==
  ASSUME NEW kind \in Kinds, NEW nodes \in SUBSET Nodes, NEW s \in States(kind, nodes),
         NEW t \in Needs(kind, nodes, s)
  PROVE  t \in States(kind, nodes) /\ Before(kind, t, s)
<1> DEFINE Fine == t \in States(kind, nodes) /\ Before(kind, t, s)
<1> USE DEF Kinds
<1>1. \A n \in nodes : Deploy(kind, n) \subseteq NodeStates(kind, n)
                       /\ NodeStates(kind, n) \subseteq States(kind, nodes)
  BY StateSet
<1>2. /\ EtcdStates \subseteq States(kind, nodes)
      /\ \A u \in EtcdStates : u.do \in {"check"} \cup EtcdActions
      /\ \A do \in ScriptActions : State(do, 0) \in States(kind, nodes)
  BY StateSet DEF EtcdStates, All, State
<1>3. \A n : \A u \in NodeStates(kind, n) : u.do \in NodeActions
  BY DEF NodeStates, Deploy, DeployActions, All, State, NodeActions
<1>4. \A n : Deploy(kind, n) \subseteq NodeStates(kind, n)
  BY DEF NodeStates
<1>5. ASSUME NEW do \in ScriptActions, s = State(do, 0) PROVE Fine
  <2>1. s.do = do
    BY <1>5 DEF State
  <2>2. CASE do \in {"bootstrap", "annotate"}
    <3>1. t = State(IF kind = "upgrade" THEN "bootstrap" ELSE "annotate", 0)
          /\ do = IF kind = "upgrade" THEN "annotate" ELSE "bootstrap"
      BY <1>5, <2>2, ScriptNeeds
    <3> QED BY <3>1, <2>1, <1>2, Stages, BeforeOfStages DEF State, ScriptActions
  <2>3. \A u \in Launched(kind) : /\ u \in States(kind, nodes)
                                  /\ do \in {"check", "objects"} => Before(kind, u, s)
    BY <2>1, <1>2, Stages, BeforeOfStages DEF Launched, State, ScriptActions
  <2>4. \A u \in EtcdStates : do \in {"objects", "post"} => Before(kind, u, s)
    BY <2>1, <1>2, Stages, BeforeOfStages DEF EtcdActions
  <2>5. \A n \in nodes : \A u \in NodeStates(kind, n) :
          do \in {"objects", "post"} \/ (do = "check" /\ kind = "downgrade") => Before(kind, u, s)
    BY <2>1, <1>3, Stages, BeforeOfStages
  <2>6. CASE do = "check"
    <3>1. t \in EtcdNeeds(kind, nodes)
      BY <2>6, <1>5, ScriptNeeds
    <3> QED BY <3>1, <2>6, <2>3, <2>5, <1>1 DEF EtcdNeeds, Deploys
  <2>7. CASE do = "objects"
    <3>1. t \in ObjectsNeed(kind, nodes)
      BY <2>7, <1>5, ScriptNeeds
    <3> QED BY <3>1, <2>7, <2>3, <2>4, <2>5, <1>1, <1>2 DEF ObjectsNeed, Deploys
  <2>8. CASE do = "post"
    <3>1. t \in {State("objects", 0)} \cup EtcdStates \cup UNION {NodeStates(kind, m) : m \in nodes}
      BY <2>8, <1>5, ScriptNeeds
    <3>2. Before(kind, State("objects", 0), s)
      BY <2>1, <2>8, Stages, BeforeOfStages DEF State
    <3> QED BY <3>1, <3>2, <2>8, <2>4, <2>5, <1>1, <1>2 DEF ScriptActions
  <2> QED BY <2>2, <2>6, <2>7, <2>8, <1>5, ScriptNeeds DEF ScriptActions
<1>6. ASSUME NEW do \in EtcdActions, NEW e \in Etcd, s = State(do, e) PROVE Fine
  <2>1. s.do = do
    BY <1>6 DEF State
  <2>2. \A u \in EtcdNeeds(kind, nodes) : u \in States(kind, nodes) /\ Before(kind, u, s)
    <3>1. \A u \in Launched(kind) : u \in States(kind, nodes) /\ Before(kind, u, s)
      BY <2>1, <1>2, Stages, BeforeOfStages DEF Launched, State, ScriptActions,
         EtcdActions
    <3>2. kind = "downgrade" => \A n \in nodes : \A u \in NodeStates(kind, n) : Before(kind, u, s)
      BY <2>1, <1>3, Stages, BeforeOfStages DEF EtcdActions
    <3> QED BY <3>1, <3>2, <1>1 DEF EtcdNeeds, Deploys
  <2>3. CASE do = "etcd"
    <3>1. t \in EtcdNeeds(kind, nodes) \cup MemberNeeds(e)
      BY <2>3, <1>6, MemberStateNeeds
    <3>2. Before(kind, State("check", 0), s)
      BY <2>1, <2>3, Stages, BeforeOfStages DEF State
    <3>3. \A p \in PreviousMember(e) : /\ State("health", p) \in EtcdStates
                                       /\ Before(kind, State("health", p), s)
      BY <2>3, <1>6, StateSet, BeforeOfStages DEF PreviousMember, EtcdActions
    <3> QED BY <3>1, <3>2, <3>3, <2>2, <1>2 DEF MemberNeeds, ScriptActions
  <2>4. CASE do = "health"
    <3>1. t \in EtcdNeeds(kind, nodes) \cup {State("etcd", e)}
      BY <2>4, <1>6, MemberStateNeeds
    <3> QED BY <3>1, <2>2, <2>4, <1>2, <1>6, StateSet, BeforeOfStages
      DEF EtcdActions
  <2> QED BY <2>3, <2>4 DEF EtcdActions
<1>7. ASSUME NEW n \in nodes, NEW do \in {"api", "label", "proxy"}, s = State(do, n),
             s \in NodeStates(kind, n)
      PROVE  Fine
  <2>1. s.do = do /\ do \in NodeActions
    BY <1>7 DEF State, NodeActions
  <2>2. \A u \in Launched(kind) : u \in States(kind, nodes) /\ Before(kind, u, s)
    BY <2>1, <1>2, Stages, BeforeOfStages DEF Launched, State, ScriptActions
  <2>3. CASE do = "proxy"
    <3>1. t \in Launched(kind)
      BY <2>3, <1>7, NodeStateNeeds
    <3> QED BY <3>1, <2>2
  <2>4. CASE do = "label"
    <3>1. t = State("api", n)
      BY <2>4, <1>7, NodeStateNeeds
    <3>2. Before(kind, t, s)
      BY <3>1, <2>4, <1>7, BeforeOfStages DEF Place, NodeActions
    <3> QED BY <3>1, <3>2, StateSet
  <2>5. CASE do = "api"
    <3>1. t \in NodeNeeds(kind, nodes, n)
            \cup (IF kind = "upgrade" THEN {State("proxy", n)} ELSE Launched(kind))
      BY <2>5, <1>7, NodeStateNeeds
    <3>2. CASE kind = "upgrade" /\ t = State("proxy", n)
      <4>1. Before(kind, t, s)
        BY <3>2, <2>5, <1>7, BeforeOfStages DEF Place, NodeActions
      <4>2. t \in NodeStates(kind, n)
        BY <3>2 DEF NodeStates, All
      <4> QED BY <4>1, <4>2, <1>1
    <3>3. ASSUME NEW p \in Previous(kind, nodes, n), t \in Deploy(kind, p)
          PROVE  Fine
      <4>1. p \in nodes /\ NodeBefore(kind, p, n) /\ p # n
        BY NodesInOrder DEF Previous
      <4>2. t = State(t.do, p) /\ t.do \in NodeActions
        BY <3>3, <1>3, <1>4 DEF Deploy, All, State
      <4>3. \A a \in NodeActions : Before(kind, State(a, p), s)
        BY <4>1, <2>1, <1>7, BeforeOfStages
      <4>4. Before(kind, t, s)
        BY <4>2, <4>3, Zenon
      <4> QED BY <4>1, <4>4, <3>3, <1>1
    <3>4. CASE kind = "upgrade" /\ t \in EtcdStates
      <4>1. Before(kind, t, s)
        BY <3>4, <2>1, <1>2, Stages, BeforeOfStages DEF EtcdActions
      <4> QED BY <4>1, <3>4, <1>2
    <3> QED BY <3>1, <3>2, <3>3, <3>4, <2>2 DEF NodeNeeds, Deploys
  <2> QED BY <2>3, <2>4, <2>5
<1>8. ASSUME NEW n \in nodes, NEW do \in DeployActions(kind, n), s = State(do, n)
      PROVE  Fine
  <2>1. t \in All({"label"} \cup DeployNeeds(kind, n)[do], n)
    BY <1>8, DeployStateNeeds
  <2>2. PICK a \in {"label"} \cup DeployNeeds(kind, n)[do] : t = State(a, n)
    BY <2>1 DEF All
  <2>3. a \in DeployActions(kind, n) \cup {"label"} /\ Place[a] < Place[do]
    BY <2>2 DEF DeployActions, DeployNeeds, BeforeNeeds, HighstateNeeds, Place
  <2>4. a \in NodeActions /\ do \in NodeActions
    BY <2>3 DEF DeployActions, NodeActions
  <2>5. Before(kind, t, s)
    BY <2>2, <2>3, <2>4, <1>8, BeforeOfStages
  <2>6. t \in NodeStates(kind, n)
    BY <2>2, <2>3 DEF NodeStates, Deploy, All
  <2> QED BY <2>5, <2>6, <1>1
<1>9. \/ \E do \in ScriptActions : s = State(do, 0)
      \/ \E do \in EtcdActions, e \in Etcd : s = State(do, e)
      \/ \E n \in nodes : /\ s \in NodeStates(kind, n)
                          /\ \E do \in DeployActions(kind, n) \cup {"api", "label", "proxy"} :
                               s = State(do, n)
  BY DEF States, EtcdStates, NodeStates, Deploy, All, ScriptActions
<1> QED BY <1>5, <1>6, <1>7, <1>8, <1>9

=============================================================================
