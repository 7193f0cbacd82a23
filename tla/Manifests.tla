------------------------------ MODULE Manifests ------------------------------
(***************************************************************************)
(* From the description of a Kubernetes object to a call of the API:         *)
(* _utils/kubernetes_utils.py (the kinds, the names of attributes),          *)
(* _modules/metalk8s_kubernetes.py (where the manifest comes from, the       *)
(* request that is sent) and the renderer of manifests into states.  All of  *)
(* it is without state.  Conversion has the conversion of a manifest.        *)
(***************************************************************************)
EXTENDS Naturals, Sequences, SequencesExt

(***************************************************************************)
(* Kinds.                                                                    *)
(***************************************************************************)
In(version, kinds) == {<<version, k>> : k \in kinds}

NamespacedKinds ==
  In("v1", {"ConfigMap", "Endpoints", "Pod", "PodEviction", "Secret", "Service",
            "ServiceAccount", "ReplicationController"})
  \cup In("apps/v1", {"DaemonSet", "Deployment", "ReplicaSet", "StatefulSet"})
  \cup In("apps/v1beta2", {"DaemonSet", "Deployment"})
  \cup In("extensions/v1beta1", {"DaemonSet", "Deployment", "Ingress", "ReplicaSet"})
  \cup In("batch/v1beta1", {"CronJob"})
  \cup In("networking.k8s.io/v1beta1", {"Ingress"})
  \cup UNION {In(v, {"Role", "RoleBinding"}) :
                v \in {"rbac.authorization.k8s.io/v1", "rbac.authorization.k8s.io/v1beta1"}}

ClusterKinds ==
  In("v1", {"Namespace", "Node"})
  \cup UNION {In(v, {"PodSecurityPolicy"}) : v \in {"extensions/v1beta1", "policy/v1beta1"}}
  \cup In("apiextensions.k8s.io/v1beta1", {"CustomResourceDefinition"})
  \cup UNION {In(v, {"APIService"}) :
                v \in {"apiregistration.k8s.io/v1", "apiregistration.k8s.io/v1beta1"}}
  \cup UNION {In(v, {"ClusterRole", "ClusterRoleBinding"}) :
                v \in {"rbac.authorization.k8s.io/v1", "rbac.authorization.k8s.io/v1beta1"}}
  \cup In("storage.k8s.io/v1", {"StorageClass"})

CustomNamespaced ==
  In("monitoring.coreos.com/v1",
     {"Alertmanager", "Prometheus", "PrometheusRule", "ServiceMonitor"})
CustomCluster == In("storage.metalk8s.scality.com/v1alpha1", {"Volume"})

KNOWN_CUSTOM_KINDS == CustomNamespaced \cup CustomCluster
KNOWN_STD_KINDS == NamespacedKinds \cup ClusterKinds

CRUD_METHODS == {"create", "retrieve", "update", "delete", "replace", "list"}

\* The calls that the library has for a kind; "everywhere" lists all namespaces.
ApiClient(methods, everywhere) ==
  [methods |-> methods, everywhere |-> everywhere /\ "list" \in methods]

KindInfo(scope, methods) ==
  [custom |-> FALSE, scope |-> scope, client |-> ApiClient(methods, scope = "namespaced")]

\* No call of the library lists the custom objects of all namespaces.
CustomApiClient == ApiClient(CRUD_METHODS, FALSE)

CRKindInfo(scope) == [custom |-> TRUE, scope |-> scope, client |-> CustomApiClient]

\* The custom kinds come first; an unknown kind raises.
Known(key) == key \in KNOWN_CUSTOM_KINDS \cup KNOWN_STD_KINDS
get_kind_info(key) ==
  CASE key \in CustomNamespaced -> CRKindInfo("namespaced")
    [] key \in CustomCluster -> CRKindInfo("cluster")
    [] key = <<"v1", "PodEviction">> -> KindInfo("namespaced", {"create"})
    [] key \in NamespacedKinds \ {<<"v1", "PodEviction">>} -> KindInfo("namespaced", CRUD_METHODS)
    [] key \in ClusterKinds -> KindInfo("cluster", CRUD_METHODS)

(***************************************************************************)
(* Attributes.                                                               *)
(***************************************************************************)
\* Names of attributes: as in YAML, and as in Python.
_convert_attribute_name == [name |-> "name", hostPort |-> "host_port", externalIPs |-> "external_i_ps",
                            JSONPath |-> "json_path", since |-> "since", ratio |-> "ratio",
                            ready |-> "ready", inner |-> "inner", inners |-> "inners",
                            labels |-> "labels", limits |-> "limits"]

\* The name may be the one of YAML or that of Python.
Attribute(key) ==
  IF key \in DOMAIN _convert_attribute_name THEN _convert_attribute_name[key] ELSE key

\* The field behind an attribute of a custom object: that of the very name, or
\* one whose name becomes it; without any, an exception.
_DictWrapper(fields, name) ==
  IF name \in fields THEN {name} ELSE {k \in fields : Attribute(k) = name}

(***************************************************************************)
(* The request of one call.                                                  *)
(***************************************************************************)
Described == {"retrieve", "delete", "update"}

\* Where the manifest comes from; "name" is that of an object or of a file.
Source(action, args) ==
  CASE "manifest" \in args /\ "name" \in args -> "error"
    [] "manifest" \in args -> "manifest"
    [] /\ "manifest" \notin args /\ action \in Described
       /\ {"name", "kind", "apiVersion"} \subseteq args
       /\ action = "update" => "patch" \in args -> "description"
    [] /\ "manifest" \notin args /\ "name" \in args
       /\ args \cap {"kind", "apiVersion", "patch"} = {} -> "file"
    [] OTHER -> "error"

\* What is sent: old is the object that was read before a replacement.
Request(action, args, key, old) ==
  LET info == get_kind_info(key)
  IN  [name      |-> action # "create",
       namespace |-> info.scope = "namespaced",
       label     |-> action \in {"create", "replace"},
       body      |-> CASE action = "delete" -> "foreground"
                       [] action = "update" /\ "patch" \in args -> "patch"
                       [] action = "update" /\ "patch" \notin args -> "rest of manifest"
                       [] action = "retrieve" -> "none"
                       [] OTHER -> IF info.custom THEN "dict" ELSE "model",
       version   |-> action = "replace" /\ old.version,
       address   |-> action = "replace" /\ key = <<"v1", "Service">> /\ old.version]

\* "metadata" are the fields that the manifest has there, if it is not made of
\* the arguments.
Sent(action, args, key, metadata) ==
  LET info == get_kind_info(key)
      needed == (IF action = "create" THEN {} ELSE {"name"})
                \cup (IF info.scope = "namespaced" THEN {"namespace"} ELSE {})
  IN  /\ Source(action, args) # "error"
      /\ Known(key)
      /\ action \in info.client.methods
      /\ Source(action, args) # "description" =>
           \A a \in needed : _DictWrapper(metadata, a) # {}

list_objects(key, all_namespaces) ==
  LET info == get_kind_info(key)
  IN  [sent |-> /\ Known(key)
                /\ IF all_namespaces THEN info.client.everywhere ELSE "list" \in info.client.methods,
       namespace |-> ~all_namespaces /\ info.scope = "namespaced"]

(***************************************************************************)
(* The file and the context of the connection: from the arguments, then from *)
(* the pillar, then from the configuration of the process.                   *)
(***************************************************************************)
First(s) == IF s = <<>> THEN "none" ELSE Head(s)
get_kubeconfig(arguments, pillar, config) ==
  First(SelectSeq(<<arguments, pillar, config>>, LAMBDA x : x # "none"))

(***************************************************************************)
(* The renderer: one state per object, named after it.  Two objects of the   *)
(* same name become one state, the last one at the place of the first.       *)
(***************************************************************************)
_step_name(m) == <<m.absent, m.key, m.namespace, m.name>>

render(source) ==
  LET last(n) == CHOOSE i \in DOMAIN source :
                   /\ _step_name(source[i]) = n
                   /\ \A j \in DOMAIN source : _step_name(source[j]) = n => j <= i
      first(i) == \A j \in 1..(i - 1) : _step_name(source[j]) # _step_name(source[i])
      firsts == SetToSortSeq({i \in DOMAIN source : first(i)}, LAMBDA i, j : i < j)
  IN  [i \in DOMAIN firsts |-> source[last(_step_name(source[firsts[i]]))]]

(***************************************************************************)
(* The states object_present, object_absent and object_updated make two      *)
(* calls with the same arguments: when both are accepted, the object that is *)
(* written is the one that was read.                                         *)
(***************************************************************************)
ASSUME WrittenIsRead ==
  \A args \in SUBSET {"manifest", "name", "kind", "apiVersion", "patch"},
    metadata \in SUBSET {"name", "namespace"},
    key \in KNOWN_STD_KINDS \cup KNOWN_CUSTOM_KINDS, write \in {"create", "replace", "delete", "update"} :
    Sent("retrieve", args, key, metadata) /\ Sent(write, args, key, metadata) =>
      /\ Source("retrieve", args) = Source(write, args)
      /\ Request("retrieve", args, key, [version |-> FALSE]).namespace
           = Request(write, args, key, [version |-> TRUE]).namespace

(***************************************************************************)
(* Every object of a source has a state of its name, that of its last text.  *)
(***************************************************************************)
ASSUME LaterObjectWins ==
  LET objects == [absent : {FALSE}, key : {<<"v1", "Node">>}, namespace : {"none"},
                  name : {"x", "y"}, body : {1, 2}]
  IN  \A a, b, c \in objects, m \in objects :
        LET states == render(<<a, b, c>>)
        IN  m \in {a, b, c} => \E i \in DOMAIN states :
              _step_name(states[i]) = _step_name(m) /\ (m = c => states[i] = c)
=============================================================================
