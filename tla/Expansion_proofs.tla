-------------------------- MODULE Expansion_proofs --------------------------
(***************************************************************************)
(* For every set of nodes and every number of faults: a deployment that       *)
(* succeeded made its node a member that started, and no etcd is started on    *)
(* its own.  Then, what the pillar and the tools of a node give, for every     *)
(* state of their sources and every answer of the node.                       *)
(***************************************************************************)
EXTENDS Expansion, FiniteSetTheorems, TLAPS

\* The bootstrap node is a member that started, and stays one.
Shape ==
  /\ members \subseteq Hosts /\ started \subseteq members /\ Boot \in started
  /\ pod \in [Hosts -> SUBSET Hosts] /\ step \in [New -> Steps]

IInv == Shape /\ DoneIsMember /\ NeverAlone

-----------------------------------------------------------------------------
(* What the states of a deployment get. *)

\* The pillar tells all the members or none: get_etcd_member_list.
LEMMA AllOrNone == MembersPart \in {{}, members}
<1>1. World.etcd.members = members /\ World.etcd.lists = TRUE
  BY DEF World
<1>2. get_etcd_member_list(NodesPart, World) \in {Read({}), Read(members)}
  BY <1>1 DEF get_etcd_member_list
<1>3. MembersPart = UNION get_etcd_member_list(NodesPart, World).value
  BY DEF MembersPart, _load_members
<1>4. Read({}).value = {{}} /\ Read(members).value = {members}
  BY DEF Read
<1>5. UNION {{}} = {} /\ UNION {members} = members
  OBVIOUS
<1> QED BY <1>2, <1>3, <1>4, <1>5

\* A manifest that is rendered names the bootstrap node, which started.
LEMMA ClusterHasBoot ==
  ASSUME Shape, NEW n \in New, NEW cluster \in InitialCluster(n)
  PROVE  cluster \in SUBSET Hosts /\ Boot \in cluster \ {n}
<1>1. Named # {} /\ cluster = Named \cup {n}
  BY DEF InitialCluster
<1>2. MembersPart = members
  BY <1>1, AllOrNone DEF Named
<1>3. Boot # n
  BY HostsAssumption
<1> QED BY <1>1, <1>2, <1>3 DEF Named, Shape, Hosts

-----------------------------------------------------------------------------
(* One lemma for the steps that move a deployment, one for the manifest. *)

\* A deployment that does not go past the health check, or is past it already.
LEMMA Moves ==
  ASSUME IInv, NEW n \in New, NEW to \in Steps, Goes(n, to),
         to \in {"before", "highstate", "done"} => n \in started,
         UNCHANGED <<started, pod>>,
         members \subseteq members', members' \subseteq Hosts
  PROVE  IInv'
<1>1. Shape'
  BY DEF IInv, Shape, Goes
<1>2. DoneIsMember'
  BY DEF IInv, Shape, DoneIsMember, Goes
<1>3. NeverAlone'
  BY DEF IInv, NeverAlone
<1> QED BY <1>1, <1>2, <1>3 DEF IInv

\* The same, with a manifest that is rendered.
LEMMA Renders ==
  ASSUME IInv, NEW n \in New, NEW to \in Steps, Goes(n, to),
         to \in {"before", "highstate", "done"} => n \in started,
         NEW cluster \in InitialCluster(n), Manifest(n, cluster),
         UNCHANGED <<members, started>>
  PROVE  IInv'
<1>1. cluster \in SUBSET Hosts /\ Boot \in cluster \ {n}
  BY ClusterHasBoot DEF IInv
<1>2. pod' = [pod EXCEPT ![n] = cluster] /\ n \in Hosts
  BY DEF Manifest, Hosts
<1>3. Shape'
  BY <1>1, <1>2 DEF IInv, Shape, Goes
<1>4. DoneIsMember'
  BY DEF IInv, Shape, DoneIsMember, Goes
<1>5. NeverAlone'
  BY <1>1, <1>2 DEF IInv, Shape, NeverAlone
<1> QED BY <1>3, <1>4, <1>5 DEF IInv

-----------------------------------------------------------------------------
LEMMA InitInv == Init => IInv
<1> SUFFICES ASSUME Init PROVE IInv
  OBVIOUS
<1>1. Shape
  BY DEF Init, Shape, Hosts, Steps
<1>2. DoneIsMember
  BY DEF Init, DoneIsMember
<1>3. NeverAlone
  BY HostsAssumption DEF Init, NeverAlone, Hosts
<1> QED BY <1>1, <1>2, <1>3 DEF IInv

LEMMA NextInv == IInv /\ [Next]_vars => IInv'
<1> SUFFICES ASSUME IInv, [Next]_vars PROVE IInv'
  OBVIOUS
<1> USE DEF etcd
<1>shape. Shape
  BY DEF IInv
<1>1. ASSUME NEW n \in New, Render(n) PROVE IInv'
  <2>1. PICK to \in {"mine", "deploy"} : Goes(n, to)
    BY <1>1 DEF Render
  <2> QED BY <1>1, <2>1, <1>shape, Moves DEF Render, Steps, Shape
<1>2. ASSUME NEW n \in New, DeployMinion(n) PROVE IInv'
  <2>1. PICK to \in {"mine", "failed"} : Goes(n, to)
    BY <1>2 DEF DeployMinion, At, Succeeds, Fails, After
  <2> QED BY <1>2, <2>1, <1>shape, Moves DEF DeployMinion, Steps, Shape
<1>3. ASSUME NEW n \in New, RefreshMine(n) PROVE IInv'
  <2>1. Goes(n, "check")
    BY <1>3 DEF RefreshMine, At, Succeeds, After
  <2> QED BY <1>3, <2>1, <1>shape, Moves DEF RefreshMine, Steps, Shape
<1>4. ASSUME NEW n \in New, Check(n) PROVE IInv'
  <2>1. PICK to \in {"install", "highstate", "failed"} :
          Goes(n, to) /\ (to = "highstate" => At(n, "before"))
    BY <1>4 DEF Check, At, Succeeds, Fails, After
  <2>2. to = "highstate" => n \in started
    BY <2>1 DEF IInv, DoneIsMember, At
  <2> QED BY <1>4, <2>1, <2>2, <1>shape, Moves DEF Check, Steps, Shape
<1>5. ASSUME NEW n \in New, Install(n) PROVE IInv'
  <2>1. CASE InitialCluster(n) = {}
    BY <1>5, <2>1, <1>shape, Moves DEF Install, Fails, Steps, Shape
  <2>2. CASE InitialCluster(n) # {}
    <3>1. PICK cluster \in InitialCluster(n) : Manifest(n, cluster)
      BY <1>5, <2>2 DEF Install
    <3>2. Goes(n, "exists")
      BY <1>5, <2>2 DEF Install, At, Succeeds, After
    <3> QED BY <1>5, <3>1, <3>2, Renders DEF Install, Steps
  <2> QED BY <2>1, <2>2
<1>6. ASSUME NEW n \in New, Exists(n) PROVE IInv'
  <2>1. PICK to \in {"add", "health", "failed"} : Goes(n, to)
    BY <1>6 DEF Exists, At, Succeeds, Fails, After
  <2> QED BY <1>6, <2>1, <1>shape, Moves DEF Exists, Steps, Shape
<1>7. ASSUME NEW n \in New, add_etcd_node(n) PROVE IInv'
  <2>1. PICK to \in {"health", "failed"} : Goes(n, to)
    BY <1>7 DEF add_etcd_node, At, Succeeds, Fails, After
  <2>2. members \subseteq members' /\ members' \subseteq Hosts
    BY <1>7, <1>shape DEF add_etcd_node, Shape, Hosts
  <2> QED BY <1>7, <2>1, <2>2, Moves DEF add_etcd_node, Steps
<1>8. ASSUME NEW n \in New, check_etcd_health(n) PROVE IInv'
  <2>1. CASE Healthy(n)
    <3>1. n \in started
      BY <2>1 DEF Healthy, Running
    <3>2. Goes(n, "before")
      BY <1>8, <2>1 DEF check_etcd_health, At, Succeeds, After
    <3> QED BY <1>8, <3>1, <3>2, <1>shape, Moves DEF check_etcd_health, Steps, Shape
  <2>2. CASE ~Healthy(n)
    <3>1. Goes(n, "failed")
      BY <1>8, <2>2 DEF check_etcd_health, Fails
    <3> QED BY <1>8, <3>1, <1>shape, Moves DEF check_etcd_health, Steps, Shape
  <2> QED BY <2>1, <2>2
<1>9. ASSUME NEW n \in New, Highstate(n) PROVE IInv'
  <2>1. n \in started
    BY <1>9 DEF IInv, DoneIsMember, Highstate, At
  <2>2. CASE Fails(n) /\ UNCHANGED pod
    BY <1>9, <2>2, <1>shape, Moves DEF Highstate, Fails, Steps, Shape
  <2>3. CASE ~(Fails(n) /\ UNCHANGED pod)
    <3>1. PICK cluster \in InitialCluster(n) : Manifest(n, cluster)
      BY <1>9, <2>3 DEF Highstate
    <3>2. PICK to \in {"done", "failed"} : Goes(n, to)
      BY <1>9, <2>3 DEF Highstate, At, Succeeds, Fails, After
    <3> QED BY <1>9, <2>1, <3>1, <3>2, Renders DEF Highstate, Steps
  <2> QED BY <2>2, <2>3
<1>10. ASSUME NEW n \in New, Killed(n) PROVE IInv'
  BY <1>10, <1>shape, Moves DEF Killed, Fails, Steps, Shape
<1>11. ASSUME NEW n \in New, Join(n) PROVE IInv'
  BY <1>11 DEF Join, IInv, Shape, DoneIsMember, NeverAlone
<1>12. ASSUME UNCHANGED <<members, started, pod, step>> PROVE IInv'
  BY <1>12 DEF IInv, Shape, DoneIsMember, NeverAlone
<1>13. ASSUME NEW h \in Hosts, Stops(h) \/ Restarts(h) PROVE IInv'
  BY <1>13, <1>12 DEF Stops, Restarts
<1>14. ASSUME ApiFails \/ ApiRecovers PROVE IInv'
  BY <1>14, <1>12 DEF ApiFails, ApiRecovers
<1>15. CASE UNCHANGED vars
  BY <1>15, <1>12 DEF vars
<1> QED
  BY <1>1, <1>2, <1>3, <1>4, <1>5, <1>6, <1>7, <1>8, <1>9, <1>10, <1>11, <1>13, <1>14, <1>15
  DEF Next, Deploys

LEMMA Invariance == Spec => []IInv
BY InitInv, NextInv, PTL DEF Spec

\* deploy_node.sls and register_etcd.sls: however the deployments of any number
\* of nodes are mixed, killed and started again, one that is past the health
\* check has made its node a member that started.
THEOREM DoneMembersStarted == Spec => []DoneIsMember
<1>1. IInv => DoneIsMember
  BY DEF IInv
<1> QED BY <1>1, Invariance, PTL

\* kubernetes/etcd/installed.sls: a manifest always names another member that
\* started, although the pillar tells no members and no error when it finds no
\* endpoint that answers.
THEOREM NoEtcdAlone == Spec => []NeverAlone
<1>1. IInv => NeverAlone
  BY DEF IInv
<1> QED BY <1>1, Invariance, PTL

-----------------------------------------------------------------------------
(* What the states get from the pillar, whatever its sources are. *)

LEMMA PartsOfThePillar ==
  ASSUME NEW w, NEW minion
  PROVE  LET ca     == UNION {{"bootstrap"} : c \in ext_pillar_metalk8s(w).ca.value}
             nodes  == Nodes(w, ca)
             vols   == list_volumes(minion, w)
             ends   == ext_pillar_endpoints(w)
             keys   == ext_pillar_private(minion, nodes, w)
             p      == Compiled(minion, w)
         IN /\ p.config = ext_pillar_metalk8s(w) /\ p.top = p.config.top
            /\ p.nodes.value = nodes.value /\ p.volumes = vols /\ p.endpoints = ends
            /\ p.private = keys.keys
            /\ p.errors = p.config.metalk8s \cup keys.errors \cup nodes.errors
                            \cup vols.errors \cup ends.errors
<1> DEFINE ca     == UNION {{"bootstrap"} : c \in ext_pillar_metalk8s(w).ca.value}
           nodes  == Nodes(w, ca)
           vols   == list_volumes(minion, w)
           ends   == ext_pillar_endpoints(w)
           keys   == ext_pillar_private(minion, nodes, w)
           p      == Compiled(minion, w)
<1>1. \A e, part : promote_errors(errors_to_dict(e), part).errors = e \cup part.errors
  BY DEF promote_errors, errors_to_dict
<1>2. \A part, q, r : promote_errors(promote_errors(part, q), r)
                        = [part EXCEPT !.errors = (@ \cup q.errors) \cup r.errors]
  BY DEF promote_errors
<1>3. nodes = [value |-> nodes.value, errors |-> nodes.errors]
  BY DEF Nodes, errors_to_dict, Read
<1> QED
  BY <1>1, <1>2, <1>3 DEF Compiled, promote_errors, errors_to_dict

\* A part that could not be read leaves an error.
LEMMA PartsTellTheirErrors ==
  ASSUME NEW w, NEW minion, NEW ca
  PROVE  /\ Nodes(w, ca).value = {} => Nodes(w, ca).errors # {}
         /\ list_volumes(minion, w).value = {} => list_volumes(minion, w).errors # {}
         /\ \A s \in Services : ~check_pillar_keys({s}, ext_pillar_endpoints(w)) =>
                                  ext_pillar_endpoints(w).errors # {}
<1>1. Nodes(w, ca).value = {} => Nodes(w, ca).errors # {}
  BY DEF Nodes, errors_to_dict, Read
<1>2. list_volumes(minion, w).value = {} => list_volumes(minion, w).errors # {}
  BY DEF list_volumes, errors_to_dict, Read
<1>3. ASSUME NEW s \in Services, ~check_pillar_keys({s}, ext_pillar_endpoints(w))
      PROVE  ext_pillar_endpoints(w).errors # {}
  <2> DEFINE of == [t \in Services |-> service_endpoints(t, w)]
  <2>1. CASE ~w.kubeconfig
    BY <2>1 DEF ext_pillar_endpoints
  <2>2. CASE w.kubeconfig
    <3>1. ext_pillar_endpoints(w) = [of |-> of, errors |-> UNION {of[t].errors : t \in Services}]
      BY <2>2 DEF ext_pillar_endpoints
    <3>2. of[s].value = {}
      BY <1>3, <3>1 DEF check_pillar_keys
    <3>3. of[s].errors = {s}
      BY <3>2 DEF service_endpoints, Read, errors_to_dict
    <3> QED
      BY <3>1, <3>3
  <2> QED
    BY <2>1, <2>2
<1> QED
  BY <1>1, <1>2, <1>3

\* A master without its keys has an error.
LEMMA KeysTellTheirErrors ==
  ASSUME NEW w, NEW minion \in DOMAIN w.labels, NEW ca,
         "master" \in w.labels[minion].roles, Nodes(w, ca).value # {},
         ext_pillar_private(minion, Nodes(w, ca), w).keys # {"sa", "apiserver"}
  PROVE  ext_pillar_private(minion, Nodes(w, ca), w).errors # {}
<1> DEFINE of  == [n \in DOMAIN w.labels |-> node_info(n, w.labels[n], ca)]
           sa  == _read_private_key("sa", w)
           api == _read_private_key("apiserver", w)
<1>1. Nodes(w, ca).value = {of}
  BY DEF Nodes, errors_to_dict, Read
<1>2. minion \in DOMAIN of /\ "master" \in of[minion].roles
  BY DEF node_info
<1>3. ext_pillar_private(minion, Nodes(w, ca), w)
        = [keys |-> sa.value \cup api.value,
           errors |-> IF api.errors # {} THEN api.errors ELSE sa.errors]
  BY <1>1, <1>2 DEF ext_pillar_private
<1>4. /\ sa = Read("sa") \/ sa = errors_to_dict({"sa"})
      /\ api = Read("apiserver") \/ api = errors_to_dict({"apiserver"})
  BY DEF _read_private_key
<1> QED
  BY <1>3, <1>4 DEF Read, errors_to_dict

\* A part of the configuration without a value leaves an error at the top.
LEMMA ConfigTellsItsErrors ==
  ASSUME NEW w, NEW part \in {"archives", "ca", "networks"},
         ext_pillar_metalk8s(w)[part].value = {}
  PROVE  ext_pillar_metalk8s(w).top # {}
<1> DEFINE config   == _load_config(w.file)
           archives == _load_iso_path(w.file)
           ca       == _load_ca(w.file)
           networks == _load_networks(w.file)
<1>1. /\ archives.errors = {} => archives.value # {}
      /\ ca.value = {} => ca.errors # {}
      /\ networks.value = {} => networks.errors # {}
  BY DEF _load_iso_path, _load_ca, _load_networks, Section, errors_to_dict, Read
<1>2. CASE config.errors # {} \/ archives.errors # {}
  BY <1>2 DEF ext_pillar_metalk8s
<1>3. CASE config.errors = {} /\ archives.errors = {}
  <2>1. ext_pillar_metalk8s(w) =
          [archives |-> archives, ca |-> ca, networks |-> networks,
           metalk8s |-> ca.errors, top |-> ca.errors \cup networks.errors]
    BY <1>3 DEF ext_pillar_metalk8s
  <2> HIDE DEF archives, ca, networks
  <2> QED
    BY <1>1, <1>3, <2>1
<1> QED
  BY <1>2, <1>3

\* A source that cannot be read never goes unnoticed: what it leaves out of the
\* pillar of a node is accounted for by an error there, for any configuration, cluster
\* and keys.
THEOREM PillarNeverHidesErrors ==
  ASSUME NEW w, NEW minion \in DOMAIN w.labels
  PROVE  ErrorsAreTold(minion, Compiled(minion, w), w)
<1> DEFINE ca    == UNION {{"bootstrap"} : c \in ext_pillar_metalk8s(w).ca.value}
           nodes == Nodes(w, ca)
           vols  == list_volumes(minion, w)
           ends  == ext_pillar_endpoints(w)
           keys  == ext_pillar_private(minion, nodes, w)
           p     == Compiled(minion, w)
<1>1. /\ p.config = ext_pillar_metalk8s(w) /\ p.top = p.config.top
      /\ p.nodes.value = nodes.value /\ p.volumes = vols /\ p.endpoints = ends
      /\ p.private = keys.keys
      /\ p.errors = p.config.metalk8s \cup keys.errors \cup nodes.errors
                      \cup vols.errors \cup ends.errors
  BY PartsOfThePillar
<1> HIDE DEF p, ca
<1>2. /\ nodes.value = {} => nodes.errors # {}
      /\ vols.value = {} => vols.errors # {}
      /\ \A s \in Services : ~check_pillar_keys({s}, ends) => ends.errors # {}
  BY PartsTellTheirErrors
<1>3. "master" \in w.labels[minion].roles /\ nodes.value # {}
        /\ keys.keys # {"sa", "apiserver"} => keys.errors # {}
  BY KeysTellTheirErrors
<1>4. ASSUME NEW part \in {"archives", "ca", "networks"}, p.config[part].value = {}
      PROVE  p.top # {}
  BY <1>1, <1>4, ConfigTellsItsErrors
<1> HIDE DEF nodes, vols, ends, keys
<1>5. ErrorsAreTold(minion, p, w)
  BY <1>1, <1>2, <1>3, <1>4 DEF ErrorsAreTold
<1> QED
  BY <1>5 DEF p

\* The pillar of a minion holds the volumes of its node and no others, and
\* private keys only for a control plane node.
THEOREM PillarBelongsToTheMinion ==
  ASSUME NEW w, NEW minion, NEW p, p = Compiled(minion, w)
  PROVE  /\ \A vs \in p.volumes.value :
              \A v \in vs : \E u \in w.volumes : u.node = minion /\ u.name = v.name
         /\ p.private # {} => /\ w.kubeconfig /\ w.api /\ minion \in DOMAIN w.labels
                              /\ "master" \in w.labels[minion].roles
<1> DEFINE ca    == UNION {{"bootstrap"} : c \in ext_pillar_metalk8s(w).ca.value}
           nodes == Nodes(w, ca)
           keys  == ext_pillar_private(minion, nodes, w)
<1>1. p.volumes = list_volumes(minion, w) /\ p.private = keys.keys
  BY PartsOfThePillar
<1>2. \A vs \in list_volumes(minion, w).value :
        \A v \in vs : \E u \in w.volumes : u.node = minion /\ u.name = v.name
  BY DEF list_volumes, Read, errors_to_dict
<1>3. ASSUME keys.keys # {}
      PROVE  /\ w.kubeconfig /\ w.api /\ minion \in DOMAIN w.labels
             /\ "master" \in w.labels[minion].roles
  <2> DEFINE of == [n \in DOMAIN w.labels |-> node_info(n, w.labels[n], ca)]
  <2>1. nodes.value # {} /\ \A f \in nodes.value : minion \in DOMAIN f /\ "master" \in f[minion].roles
    BY <1>3 DEF ext_pillar_private
  <2>2. w.kubeconfig /\ w.api /\ nodes.value = {of}
    BY <2>1 DEF Nodes, Read, errors_to_dict
  <2>3. minion \in DOMAIN w.labels /\ "master" \in of[minion].roles
    BY <2>1, <2>2
  <2>4. of[minion].roles = w.labels[minion].roles \cup (IF {minion} = ca THEN {"ca"} ELSE {})
    BY <2>3 DEF node_info
  <2> QED
    BY <2>2, <2>3, <2>4
<1> QED
  BY <1>1, <1>2, <1>3

-----------------------------------------------------------------------------
(* The tools of a node, whatever its commands answer. *)

\* kubeconfig.managed, for any file that it finds: when it succeeds, the file is
\* valid for who reads it next; one that was valid, and one whose validation
\* raises, is not touched; one that it made is not made again, with a new key, as
\* long as its certificate has the time left that the validation asks for,
\* whether the CA still signs or not.
THEOREM KubeConfigsAreMadeOnce ==
  ASSUME NEW file, NEW cas, cas # {}, NEW signs \in BOOLEAN, NEW again \in BOOLEAN,
         NEW server, NEW cn, NEW lifetime \in Nat, lifetime >= MinLeft,
         NEW elapsed \in Nat, lifetime - elapsed >= MinLeft
  PROVE  LET r     == managed(file, cas, signs, server, cn, lifetime)
             later == Aged(r.file, elapsed)
             Is(f, verdict) == \A ca \in cas : _validateKubeConfig(f, ca, server, cn) = verdict
         IN /\ r.result => \E ca \in cas : _validateKubeConfig(r.file, ca, server, cn) = "valid"
            /\ ~r.result \/ Is(file, "valid") => r.file = file
            /\ Is(file, "raises") => ~r.result
            /\ r.file # file =>
                 managed(later, cas, again, server, cn, lifetime) = [result |-> TRUE, file |-> later]
<1> DEFINE ca == CHOOSE c \in cas : TRUE
           valid == _validateKubeConfig(file, ca, server, cn)
           made  == [there |-> TRUE, mode |-> 600, parses |-> TRUE, clusters |-> "good",
                     ca |-> ca, server |-> server, users |-> "good", cert |-> "readable",
                     cn |-> cn, left |-> lifetime, signer |-> ca, key |-> "matches"]
           r     == managed(file, cas, signs, server, cn, lifetime)
<1>1. ca \in cas
  OBVIOUS
<1>2. \A f, s : _validateKubeConfig(f, ca, server, cn) = "valid" =>
        managed(f, cas, s, server, cn, lifetime) = [result |-> TRUE, file |-> f]
  BY Zenon DEF managed
<1>3. valid = "invalid" /\ signs => r = [result |-> TRUE, file |-> made]
  BY Zenon DEF managed
<1>4. valid # "valid" /\ ~(valid = "invalid" /\ signs) => r = [result |-> FALSE, file |-> file]
  BY Zenon DEF managed
<1>5. _validateKubeConfig(made, ca, server, cn) = "valid"
  BY DEF _validateKubeConfig
<1>6. _validateKubeConfig(Aged(made, elapsed), ca, server, cn) = "valid"
  <2> DEFINE new == Aged(made, elapsed)
  <2>1. new.left = lifetime - elapsed /\ new.left >= MinLeft
    BY DEF Aged
  <2>2. /\ new.there = TRUE /\ new.mode = 600 /\ new.parses = TRUE /\ new.clusters = "good"
        /\ new.ca = ca /\ new.server = server /\ new.users = "good"
        /\ new.cert = "readable" /\ new.cn = cn /\ new.signer = ca /\ new.key = "matches"
    BY DEF Aged
  <2> HIDE DEF new
  <2>3. _validateKubeConfig(new, ca, server, cn) = "valid"
    BY <2>1, <2>2 DEF _validateKubeConfig
  <2> QED BY <2>3 DEF new
<1> HIDE DEF ca, r, made
<1>7. CASE valid = "valid"
  <2>1. r = [result |-> TRUE, file |-> file]
    BY <1>2, <1>7 DEF r
  <2> QED BY <1>1, <1>7, <2>1 DEF r
<1>8. CASE valid = "invalid" /\ signs
  <2>1. r.result = TRUE /\ r.file = made
    BY <1>3, <1>8
  <2>2. _validateKubeConfig(made, ca, server, cn) = "valid"
    BY <1>5
  <2>3. managed(Aged(made, elapsed), cas, again, server, cn, lifetime)
          = [result |-> TRUE, file |-> Aged(made, elapsed)]
    BY <1>2, <1>6
  <2> QED BY <1>1, <1>8, <2>1, <2>2, <2>3 DEF r
<1>9. CASE valid # "valid" /\ ~(valid = "invalid" /\ signs)
  <2>1. r.result = FALSE /\ r.file = file
    BY <1>4, <1>9
  <2> QED BY <1>1, <1>9, <2>1 DEF r
<1> QED
  BY <1>7, <1>8, <1>9

\* cri.image_managed: when it succeeds the image is on the node, or was there;
\* no other image comes or goes, and a test changes nothing.
THEOREM ManagedImageIsThere ==
  ASSUME NEW Images, NEW image \in Images, NEW archive \in BOOLEAN, NEW test \in BOOLEAN,
         NEW c \in [images : SUBSET Images, lists : BOOLEAN, loads : BOOLEAN, retcode : Nat]
  PROVE  LET r == image_managed(image, archive, test, c)
         IN /\ r.result = "ok" => image \in r.images
            /\ c.images \subseteq r.images /\ r.images \subseteq c.images \cup {image}
            /\ test => r.images = c.images
<1> DEFINE r == image_managed(image, archive, test, c)
<1>1. CASE available(image, c)
  <2>1. r = [result |-> "ok", images |-> c.images] /\ image \in c.images
    BY <1>1 DEF image_managed, available, list_images
  <2> QED BY <2>1
<1>2. CASE ~available(image, c) /\ test
  <2>1. r = [result |-> "test", images |-> c.images]
    BY <1>2 DEF image_managed
  <2> QED BY <2>1
<1>3. CASE ~available(image, c) /\ ~test
  <2> DEFINE done  == IF archive THEN load_cri_image(image, c) ELSE pull_image(image, c)
             after == [c EXCEPT !.images = done.images]
             ok    == done.retcode = 0 /\ (archive => available(image, after))
  <2>1. r = [result |-> IF ok THEN "ok" ELSE "failed", images |-> after.images]
    BY <1>3 DEF image_managed
  <2>2. after.images = done.images /\ after.lists = c.lists
    OBVIOUS
  <2>3. c.images \subseteq done.images /\ done.images \subseteq c.images \cup {image}
    BY DEF load_cri_image, pull_image
  <2>4. ok => image \in done.images
    <3>1. CASE archive
      BY <2>2, <3>1 DEF available, list_images
    <3>2. CASE ~archive
      BY <3>2 DEF pull_image
    <3> QED BY <3>1, <3>2
  <2> HIDE DEF done, after, ok
  <2> QED BY <1>3, <2>1, <2>2, <2>3, <2>4
<1> QED
  BY <1>1, <1>2, <1>3

\* metalk8s_package_manager: what is installed with a package of the release are the
\* packages of the node that require it, in the versions of the release, so
\* that none is left behind; and nothing that the node does not have.
THEOREM DependentsFollow ==
  ASSUME NEW info, NEW repo, NEW name, NEW version, version # "any",
         DOMAIN info # {}, NEW pkgs \in installed(name, version, info, repo)
  PROVE  /\ name \in DOMAIN info /\ info[name] = version
         /\ name \in DOMAIN pkgs /\ pkgs[name] = version
         /\ DOMAIN pkgs \subseteq {name} \cup repo.installed
         /\ \A p \in DOMAIN info \cap repo.installed :
              [of |-> name, by |-> p, version |-> info[p]] \in repo.requires =>
                p \in DOMAIN pkgs /\ pkgs[p] = info[p]
<1> DEFINE deps == _list_dependents(name, info, repo)
           salt == IF name \in repo.saltPackages THEN {"salt"} ELSE {}
           kept == {p \in {name} \cup salt \cup deps : p = name \/ p \in repo.installed}
           all  == [p \in kept |-> IF p \in deps THEN info[p] ELSE version]
<1>1. pkgs \in list_pkg_dependents(name, version, info, repo)
  BY DEF installed
<1>2. name \in DOMAIN info
  BY <1>1 DEF list_pkg_dependents
<1>3. list_pkg_dependents(name, version, info, repo)
        = IF info[name] # version \/ ~repo.answers THEN {} ELSE {all}
  BY <1>2 DEF list_pkg_dependents
<1>4. info[name] = version /\ pkgs = all
  BY <1>1, <1>3
<1>5. \A p \in DOMAIN info : [of |-> name, by |-> p, version |-> info[p]] \in repo.requires
                               => p \in deps
  BY DEF _list_dependents
<1> HIDE DEF deps, salt
<1> QED
  BY <1>2, <1>4, <1>5
=============================================================================
