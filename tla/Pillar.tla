-------------------------------- MODULE Pillar --------------------------------
(***************************************************************************)
(* The pillar of a minion, as the external pillars of MetalK8s compile it    *)
(* (salt/_pillar), and those who read it (_modules/metalk8s.py, the roster). *)
(* A source that cannot be read never stops the compilation: its part of the *)
(* pillar holds "_errors" instead of a value, and most of these errors are   *)
(* promoted to the part around it.                                           *)
(*                                                                         *)
(* A part is a record of its value (a set of at most one element) and of its *)
(* errors.  What is read is a record w:                                      *)
(*   file       bootstrap.yaml                                               *)
(*   kubeconfig whether the file is there                                    *)
(*   api        whether the API server answers                               *)
(*   cluster    the annotation of kube-system with the version, or "none"    *)
(*   labels     roles and version of each node                               *)
(*   volumes    the Volumes, each with its node and StorageClass             *)
(*   classes    the StorageClasses                                           *)
(*   services   "ready", "empty" or "absent" for each Endpoints              *)
(*   keys       "present", "missing" or "unreadable" for each private key    *)
(*   mine       the minions whose address is known                           *)
(*   etcd       for each etcd host, whether it answers; the members, and     *)
(*              whether they can be listed                                   *)
(***************************************************************************)
LOCAL INSTANCE Naturals
LOCAL INSTANCE FiniteSets
LOCAL INSTANCE Sequences

Read(v) == [value |-> {v}, errors |-> {}]
errors_to_dict(e) == [value |-> {}, errors |-> e]

\* The errors of a part and those of what it contains.
promote_errors(part, inner) == [part EXCEPT !.errors = @ \cup inner.errors]

Missing(keys, found) == keys \ found
assert_equals(found, expected) == Missing(expected, found)
assert_keys(found, keys) == Missing(keys, found)

-----------------------------------------------------------------------------
(* metalk8s: the configuration of the bootstrap node. *)

_load_config(f) ==
  LET wrong == assert_equals(f.equal, {"apiVersion", "kind"})
                 \cup assert_keys(f.keys, {"archives"})
  IN IF ~f.readable \/ f.keys = {} THEN errors_to_dict({"config"})
     ELSE IF wrong # {} THEN errors_to_dict(wrong) ELSE Read(f)

\* A mapping of the configuration that must have some keys.
Section(f, key, keys) ==
  LET wrong == assert_keys(f[key], keys)
  IN IF key \notin f.keys \/ key \notin f.mappings THEN errors_to_dict({key})
     ELSE IF wrong # {} THEN errors_to_dict(wrong) ELSE Read(f[key])

_load_networks(f) == Section(f, "networks", {"controlPlane", "workloadPlane"})
_load_ca(f) == Section(f, "ca", {"minion"})

\* The message about another type of archives cannot be formatted: it raises.
_load_iso_path(f) == IF f.archives = "other" THEN errors_to_dict({"raises"}) ELSE Read(f.archives)

\* A pillar that raises leaves nothing but an error of Salt, at the top.
ext_pillar_metalk8s(w) ==
  LET config == _load_config(w.file)
      None   == errors_to_dict({})
      archives == _load_iso_path(w.file)
      ca       == _load_ca(w.file)
      networks == _load_networks(w.file)
  IN CASE config.errors # {} ->
            [archives |-> None, ca |-> None, networks |-> None,
             metalk8s |-> config.errors, top |-> config.errors]
       [] config.errors = {} /\ archives.errors # {} ->
            [archives |-> None, ca |-> None, networks |-> None, metalk8s |-> {}, top |-> {"raises"}]
       [] OTHER ->
            [archives |-> archives, ca |-> ca, networks |-> networks,
             metalk8s |-> ca.errors, top |-> ca.errors \cup networks.errors]

-----------------------------------------------------------------------------
(* metalk8s_endpoints, metalk8s_nodes, metalk8s_private, metalk8s_etcd. *)

Services == {"salt-master", "repositories"}

service_endpoints(service, w) ==
  IF w.api /\ w.services[service] = "ready" THEN Read("ip and ports")
                                            ELSE errors_to_dict({service})

\* With the errors that its services promote to it.
ext_pillar_endpoints(w) ==
  IF ~w.kubeconfig THEN [of |-> [s \in {} |-> {}], errors |-> {"kubeconfig"}]
  ELSE LET of == [s \in Services |-> service_endpoints(s, w)]
       IN [of |-> of, errors |-> UNION {of[s].errors : s \in Services}]

node_info(node, label, ca_minion) ==
  [roles |-> label.roles \cup (IF {node} = ca_minion THEN {"ca"} ELSE {}), version |-> label.version]

Nodes(w, ca_minion) ==
  CASE ~w.kubeconfig -> errors_to_dict({"kubeconfig"})
    [] w.kubeconfig /\ ~w.api -> errors_to_dict({"nodes"})
    [] OTHER -> Read([n \in DOMAIN w.labels |-> node_info(n, w.labels[n], ca_minion)])

get_cluster_version(w) ==
  CASE ~w.kubeconfig -> errors_to_dict({"kubeconfig"})
    [] w.kubeconfig /\ (~w.api \/ w.cluster = "none") -> errors_to_dict({"cluster"})
    [] OTHER -> Read(w.cluster)

\* A StorageClass that is not there is left as its name.
get_storage_classes(w, class) == IF class \in w.classes THEN {class} ELSE {}

list_volumes(minion, w) ==
  CASE ~w.kubeconfig -> errors_to_dict({"kubeconfig"})
    [] w.kubeconfig /\ ~w.api -> errors_to_dict({"volumes"})
    [] OTHER -> Read({[name |-> v.name, class |-> get_storage_classes(w, v.class)]
                        : v \in {u \in w.volumes : u.node = minion}})

_read_private_key(key, w) ==
  IF w.keys[key] = "present" THEN Read(key) ELSE errors_to_dict({key})

\* The second key that cannot be read replaces the error of the first.
ext_pillar_private(minion, nodes, w) ==
  LET sa  == _read_private_key("sa", w)
      api == _read_private_key("apiserver", w)
  IN IF \A of \in nodes.value : minion \in DOMAIN of /\ "master" \in of[minion].roles
     THEN [keys |-> IF nodes.value = {} THEN {} ELSE sa.value \cup api.value,
           errors |-> CASE nodes.value = {} -> {}
                        [] nodes.value # {} /\ api.errors # {} -> api.errors
                        [] OTHER -> sa.errors]
     ELSE [keys |-> {}, errors |-> {}]

minions_by_role(role, nodes) ==
  IF nodes.errors # {} THEN [raises |-> TRUE, hosts |-> {}]
  ELSE [raises |-> FALSE, hosts |-> {n \in UNION {DOMAIN of : of \in nodes.value} :
                                       \E of \in nodes.value : role \in of[n].roles}]

\* The endpoints that answer: the first one is taken, none is an exception.
_get_endpoint_up(nodes, w) == {h \in minions_by_role("etcd", nodes).hosts : h \in w.mine /\ w.etcd.up[h]}

\* Every failure to find an endpoint is an empty list, and not an error; one to
\* list the members raises.
get_etcd_member_list(nodes, w) ==
  CASE _get_endpoint_up(nodes, w) = {} -> Read({})
    [] _get_endpoint_up(nodes, w) # {} /\ ~w.etcd.lists -> errors_to_dict({"members"})
    [] OTHER -> Read(w.etcd.members)

\* An exception is an empty list too, beside errors that nothing promotes.
_load_members(nodes, w) ==
  LET list == get_etcd_member_list(nodes, w)
  IN [members |-> UNION list.value, errors |-> list.errors]

\* Looking for the hosts takes the errors of the nodes out of the pillar.
Compiled(minion, w) ==
  LET config == ext_pillar_metalk8s(w)
      ca     == UNION {{"bootstrap"} : c \in config.ca.value}
      nodes  == Nodes(w, ca)
      vols   == list_volumes(minion, w)
      ends   == ext_pillar_endpoints(w)
      keys   == ext_pillar_private(minion, nodes, w)
  IN [config |-> config, endpoints |-> ends, volumes |-> vols, private |-> keys.keys,
      nodes |-> [nodes EXCEPT !.errors = {}], cluster_version |-> get_cluster_version(w),
      etcd |-> _load_members(nodes, w),
      errors |-> promote_errors(promote_errors(promote_errors(
                   errors_to_dict(config.metalk8s \cup keys.errors), nodes), vols), ends).errors,
      top |-> config.top]

-----------------------------------------------------------------------------
(* Who reads it. *)

\* endpoints.<service>.<key>; a key is there with its service.
check_pillar_keys(services, endpoints) ==
  \A s \in services : s \in DOMAIN endpoints.of /\ endpoints.of[s].value # {}

\* An archive of a version replaces the one that the list has before.
Added(found, archive) ==
  LET iso == archive.kind = "iso"
  IN [v \in DOMAIN found \cup {archive.version} |->
        IF v = archive.version
        THEN [iso |-> iso, path |-> IF iso THEN "mounted" ELSE archive.path]
        ELSE found[v]]

\* A string is a list of one.  What is neither a directory nor a file is skipped;
\* the first archive whose product file cannot be read raises, and with it the
\* whole call: the empty set.
get_archives(archives) ==
  LET items == archives.items
      found[n \in 0..Len(items)] ==
        CASE n = 0 -> {<<>>}
          [] n > 0 /\ items[n].kind = "nothing" -> found[n - 1]
          [] n > 0 /\ items[n].kind # "nothing" ->
               IF items[n].product THEN {Added(f, items[n]) : f \in found[n - 1]} ELSE {}
  IN IF archives.is = "other" THEN {} ELSE found[Len(items)]

\* The minions that salt-ssh may deploy.
targets(tgt, w) == IF w.api THEN {n \in DOMAIN w.labels : tgt \in {"*", n}} ELSE {}

\* Nine attempts of the ten: the last value that was seen decides, and nobody
\* may be running a state at the end.
wait_minions(pings, running) ==
  LET Reached(p) == p # {} /\ \A m \in p : m.answers
  IN (\E i \in 1..Len(pings) : Reached(pings[i])) /\ (\E i \in 1..Len(running) : running[i] = {})

-----------------------------------------------------------------------------
(* What the pillar promises to those who read it, for every state of its     *)
(* sources.                                                                  *)

Names == {"bootstrap", "node"}
GoodFile == [readable |-> TRUE, keys |-> {"archives", "networks", "ca"},
             equal |-> {"apiVersion", "kind"}, mappings |-> {"networks", "ca"},
             networks |-> {"controlPlane", "workloadPlane"}, ca |-> {"minion"}, archives |-> "list"]

Files ==
  {GoodFile, [GoodFile EXCEPT !.readable = FALSE]}
   \cup {[GoodFile EXCEPT !.keys = k, !.equal = e] : k \in SUBSET GoodFile.keys, e \in SUBSET GoodFile.equal}
   \cup {[GoodFile EXCEPT !.mappings = m, !.archives = a] : m \in SUBSET GoodFile.mappings, a \in {"list", "other"}}
   \cup {[GoodFile EXCEPT !.networks = k, !.ca = c] : k \in SUBSET GoodFile.networks, c \in SUBSET GoodFile.ca}

Worlds ==
  {[file |-> f, kubeconfig |-> k, api |-> a, cluster |-> c,
    labels |-> [n \in Names |-> [roles |-> IF n = "bootstrap" THEN {"master", "etcd"} ELSE r, version |-> "2"]],
    volumes |-> {[name |-> "v", node |-> "node", class |-> "c"]}, classes |-> {},
    services |-> [s \in Services |-> IF s = "repositories" THEN "ready" ELSE e],
    keys |-> [x \in {"sa", "apiserver"} |-> IF x = "sa" THEN s1 ELSE "present"],
    mine |-> m, etcd |-> [up |-> [n \in Names |-> n = "bootstrap" /\ u], lists |-> u, members |-> {"bootstrap"}]]
   : f \in Files, k \in BOOLEAN, a \in BOOLEAN, c \in {"none", "2"}, r \in {{}, {"master"}},
     e \in {"ready", "empty", "absent"}, s1 \in {"present", "missing", "unreadable"},
     m \in {{}, Names}, u \in BOOLEAN}

\* A part without a value is accounted for by errors of the pillar, at the place
\* where states look for them or above it.  The version of the cluster and the
\* list of etcd members are the exceptions: they are left out.
ErrorsAreTold(minion, p, w) ==
  /\ p.nodes.value = {} => p.errors # {}
  /\ p.volumes.value = {} => p.errors # {}
  /\ (\E s \in Services : ~check_pillar_keys({s}, p.endpoints)) => p.errors # {}
  /\ ("master" \in w.labels[minion].roles /\ p.nodes.value # {} /\ p.private # {"sa", "apiserver"})
       => p.errors # {}
  /\ (\E part \in {"archives", "ca", "networks"} : p.config[part].value = {}) => p.top # {}

ASSUME PillarTellsItsErrors == \A w \in Worlds : ErrorsAreTold("node", Compiled("node", w), w)

\* Nothing of another node: its volumes, and private keys for who is no master.
ASSUME PillarIsOfTheMinion ==
  \A w \in Worlds :
    /\ \A v \in Compiled("bootstrap", w).volumes.value : v = {}
    /\ "master" \notin w.labels["node"].roles => Compiled("node", w).private = {}

\* With a good list, each version that it has is there once, as its last archive
\* says, and no other; one archive that cannot be read takes all of them away.
Kinds == [kind : {"directory", "iso"}, version : {1, 2}, path : {"a", "b"}, product : {TRUE}]
Others == {[kind |-> k, version |-> 1, path |-> "a", product |-> FALSE] : k \in {"nothing", "iso"}}
ASSUME ArchivesAreFound ==
  \A n \in 0..3, is \in {"list", "other"} : \A a \in [1..n -> Kinds \cup Others] :
    LET used == {i \in 1..n : a[i].kind # "nothing"}
        all  == get_archives([is |-> is, items |-> a])
    IN /\ all = {} <=> is = "other" \/ \E i \in used : ~a[i].product
       /\ \A found \in all :
            /\ DOMAIN found = {a[i].version : i \in used}
            /\ \A i \in used :
                 (\A j \in used : j > i => a[j].version # a[i].version) =>
                   /\ found[a[i].version].iso <=> a[i].kind = "iso"
                   /\ a[i].kind = "directory" => found[a[i].version].path = a[i].path
=============================================================================
