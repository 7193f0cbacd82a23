------------------------------ MODULE NodeTools ------------------------------
(***************************************************************************)
(* What the states of a node rely on: images (cri, containerd), kubeconfig   *)
(* files, packages and the packages that depend on them, retries, manifests  *)
(* of static pods, addresses of services.  Each is a function from what the  *)
(* commands of the node answer to the result of the state.                   *)
(***************************************************************************)
LOCAL INSTANCE Naturals
LOCAL INSTANCE Sequences

-----------------------------------------------------------------------------
(* Images.  c is the cache of the node: images it holds, whether crictl can   *)
(* list them, and what an import or a pull would do.                          *)

list_images(c) == IF c.lists THEN {c.images} ELSE {}
available(image, c) == \E images \in list_images(c) : image \in images

\* ctr may say that it loaded an image and not have loaded it.
load_cri_image(image, c) ==
  [retcode |-> c.retcode, images |-> c.images \cup (IF c.loads THEN {image} ELSE {})]
pull_image(image, c) ==
  [retcode |-> c.retcode, images |-> c.images \cup (IF c.retcode = 0 THEN {image} ELSE {})]

image_managed(image, archive, test, c) ==
  LET done  == IF archive THEN load_cri_image(image, c) ELSE pull_image(image, c)
      after == [c EXCEPT !.images = done.images]
      ok    == done.retcode = 0 /\ (archive => available(image, after))
  IN CASE available(image, c)            -> [result |-> "ok", images |-> c.images]
       [] ~available(image, c) /\ test   -> [result |-> "test", images |-> c.images]
       [] OTHER -> [result |-> IF ok THEN "ok" ELSE "failed", images |-> after.images]

Caches == [images : SUBSET {"a", "b"}, lists : BOOLEAN, loads : BOOLEAN, retcode : {0, 1}]

\* An image that is managed is there, or could not be looked for; the others stay.
ASSUME ImageIsThere ==
  \A c \in Caches, archive, test \in BOOLEAN :
    LET r == image_managed("a", archive, test, c)
    IN /\ c.images \subseteq r.images
       /\ r.result = "ok" => "a" \in r.images
       /\ test => r.images = c.images

\* A poll of crictl ps and a sleep, from 0 to the timeout in steps of delay.
wait_container(answers, timeout, delay) ==
  LET from[t \in 0..(timeout + delay)] ==
        CASE t >= timeout -> [found |-> FALSE, slept |-> t]
          [] t < timeout /\ answers[t \div delay + 1] -> [found |-> TRUE, slept |-> t]
          [] t < timeout /\ ~answers[t \div delay + 1] -> from[t + delay]
  IN from[0]

\* The container is found when it answers a poll that begins before the timeout;
\* the wait ends by then if it is, and less than a delay later if it is not.
ASSUME WaitKeepsTheDeadline ==
  \A timeout \in 0..6, delay \in 1..4, answers \in [1..6 -> BOOLEAN] :
    LET w == wait_container(answers, timeout, delay)
    IN /\ w.found <=> \E i \in 1..6 : (i - 1) * delay < timeout /\ answers[i]
       /\ w.slept < timeout + delay
       /\ w.found => w.slept < timeout

component_is_running(pods) == pods.retcode = 0 /\ pods.ready # {}

\* cri.execute: the first container of that name, if there is one.
execute(container, retcode) == IF container = "none" THEN "failed"
                               ELSE IF retcode = 0 THEN "output" ELSE "failed"

-----------------------------------------------------------------------------
(* Retries. *)

\* metalk8s.module_run: it is tried again, after a sleep, until an attempt
\* succeeds or none is left.  An exception is a failure.
module_run(results, attempts) ==
  LET after[n \in 0..attempts] ==
        IF n = 0 THEN [ok |-> FALSE, runs |-> 0, sleeps |-> 0]
        ELSE LET last == after[n - 1]
                 ok   == results[n] = "ok"
             IN IF last.ok THEN last
                ELSE [ok |-> ok, runs |-> n,
                      sleeps |-> last.sleeps + (IF n < attempts /\ ~ok THEN 1 ELSE 0)]
  IN after[attempts]

\* The API server is asked at least once.
wait_apiserver(pings, retry) == module_run(pings, IF retry = 0 THEN 1 ELSE retry).ok

\* It stops at the first success, fails only if every attempt did, and sleeps
\* between two attempts and never after the last one.
ASSUME RetriesEndWithSuccess ==
  \A attempts \in 0..4, results \in [1..4 -> {"ok", "failed", "raises"}] :
    LET r == module_run(results, attempts)
        good == {i \in 1..attempts : results[i] = "ok"}
    IN /\ r.ok <=> good # {}
       /\ r.ok => r.runs \in good /\ \A i \in good : r.runs <= i
       /\ ~r.ok => r.runs = attempts
       /\ r.sleeps = IF r.runs = 0 THEN 0 ELSE r.runs - 1

\* static_pod_managed: the kubelet restarts a pod when its manifest changes.  The
\* manifest is its template, filled with a context, the version of MetalK8s and
\* a digest of the sums of the files, one after the other and without names; the
\* optional files that are there come last.  A file that is missing raises.
static_pod_managed(source, context, version, files, optional, disk) ==
  LET there(f) == disk[f] # "none"
      used == files \o SelectSeq(optional, there)
  IN IF \E i \in DOMAIN files : ~there(files[i]) THEN {}
     ELSE {[source |-> source, context |-> context, version |-> version,
            digest |-> [i \in DOMAIN used |-> disk[used[i]]]]}

\* As long as the same optional files are there, a manifest changes exactly when
\* one of its files does, or its template, its context or the version.  (An
\* optional file that takes the place of another one with the same content does
\* not change it.)
ASSUME ManifestFollowsFiles ==
  LET Disks == [{"crt", "opt1", "opt2"} -> {"none", "old", "new"}]
      M(x, disk) == static_pod_managed(x[1], x[2], x[3], <<"crt">>, <<"opt1", "opt2">>, disk)
      Inputs == {<<1, 1, 1>>, <<2, 1, 1>>, <<1, 2, 1>>, <<1, 1, 2>>}
  IN \A d, e \in Disks, x, y \in Inputs :
       /\ M(x, d) = {} <=> d["crt"] = "none"
       /\ (\A f \in {"crt", "opt1", "opt2"} : d[f] = "none" <=> e[f] = "none") /\ d["crt"] # "none"
            => (M(x, d) = M(y, e) <=> (x = y /\ d = e))

-----------------------------------------------------------------------------
(* kubeconfig files.  "clusters" and "users" are the two sections that are    *)
(* read: "good", "missing" (a key or an entry is not there, or is no base64),  *)
(* or "wrong", of another type; a file that is empty or no mapping has wrong   *)
(* clusters.  "left" is the time until its certificate expires.                *)

MinLeft == 30

\* Only missing keys are caught: another type, or a certificate or a key that
\* cannot be read, raises, unless a difference was found before.
_validateKubeConfig(file, ca, server, cn) ==
  LET opened  == file.there /\ file.mode = 600 /\ file.parses
      cluster == opened /\ file.clusters = "good" /\ file.ca = ca /\ file.server = server
      user    == cluster /\ file.users = "good"
      signed  == user /\ file.cert = "readable" /\ file.cn = cn
                      /\ file.left >= MinLeft /\ file.signer = ca
  IN CASE \/ opened /\ file.clusters = "wrong"
          \/ cluster /\ file.users = "wrong"
          \/ user /\ file.cert = "unreadable"
          \/ signed /\ file.key = "unreadable" -> "raises"
       [] signed /\ file.key = "matches" -> "valid"
       [] OTHER -> "invalid"

\* A valid file stays as it is, and one whose validation raises stays too: the
\* state fails.  Another one is replaced by one with a new key, if the CA signs.
managed(file, mine, signs, server, cn, lifetime) ==
  IF mine = {} THEN [result |-> FALSE, file |-> file]
  ELSE LET ca    == CHOOSE c \in mine : TRUE
           valid == _validateKubeConfig(file, ca, server, cn)
           new   == [there |-> TRUE, mode |-> 600, parses |-> TRUE, clusters |-> "good",
                     ca |-> ca, server |-> server, users |-> "good", cert |-> "readable",
                     cn |-> cn, left |-> lifetime, signer |-> ca, key |-> "matches"]
       IN CASE valid = "valid" -> [result |-> TRUE, file |-> file]
            [] valid = "invalid" /\ signs -> [result |-> TRUE, file |-> new]
            [] OTHER -> [result |-> FALSE, file |-> file]

\* The file when some time has passed.
Aged(file, t) == [file EXCEPT !.left = @ - t]

KubeConfigs ==
  [there : BOOLEAN, mode : {600, 644}, parses : BOOLEAN, clusters : {"good", "missing", "wrong"},
   ca : {"old", "ca"}, server : {"old", "api"}, users : {"good", "missing", "wrong"},
   cert : {"readable", "unreadable"}, cn : {"old", "cn"}, left : {MinLeft - 1, MinLeft},
   signer : {"old", "ca"}, key : {"matches", "other", "unreadable"}]

\* A state that succeeds leaves a file that is valid for who reads it next, and
\* that it makes only once while there is time left, which a certificate for no
\* more than this time never has; a state that fails leaves what it found.
ASSUME KubeConfigSettles ==
  \A f \in KubeConfigs, signs \in BOOLEAN, lifetime \in {MinLeft, MinLeft + 1} :
    LET Run(file) == managed(file, {"ca"}, signs, "api", "cn", lifetime)
        r == Run(f)
        later == Aged(r.file, 1)
    IN /\ r.result => _validateKubeConfig(r.file, "ca", "api", "cn") = "valid"
       /\ ~r.result => r.file = f /\ Run(f) = r
       /\ r.file # f => (Run(later).file = later <=> lifetime > MinLeft)
       /\ ~managed(f, {}, signs, "api", "cn", lifetime).result

-----------------------------------------------------------------------------
(* Packages.  info gives the version of each package of the release; repo the *)
(* packages that require another, with their versions; "fails" is an error.   *)

\* Those that are not in the version of the release are left out.
_list_dependents(name, info, repo) ==
  {p \in DOMAIN info : [of |-> name, by |-> p, version |-> info[p]] \in repo.requires}

\* For yum.  Nothing is returned when the release has another version, and when
\* a query fails: None, or an exception, for update() does not take a None.
list_pkg_dependents(name, version, info, repo) ==
  LET deps == _list_dependents(name, info, repo)
      salt == IF name \in repo.saltPackages THEN {"salt"} ELSE {}
      kept == {p \in {name} \cup salt \cup deps : p = name \/ p \in repo.installed}
  IN CASE DOMAIN info # {} /\ name \notin DOMAIN info -> {}
       [] (DOMAIN info = {} \/ name \in DOMAIN info) /\ version = "any" -> {[p \in {name} |-> "any"]}
       [] OTHER -> IF (DOMAIN info # {} /\ info[name] # version) \/ ~repo.answers THEN {}
                   ELSE {[p \in kept |-> IF p \in deps THEN info[p] ELSE version]}

\* For apt: no dependents, and nothing to query.
list_pkg_dependents_apt(name, version, info) ==
  IF DOMAIN info # {} /\ (name \notin DOMAIN info \/ version \notin {"any", info[name]})
  THEN {} ELSE {[p \in {name} |-> version]}

\* What pkg.installed is asked for: nothing is a state that fails.
installed(name, version, info, repo) ==
  IF version = "any" THEN {[p \in {name} |-> "any"]} ELSE list_pkg_dependents(name, version, info, repo)

\* Every package, in its version, and what they depend on.
check_pkg_availability(info, repo) ==
  /\ \A p \in DOMAIN info : info[p] \in repo.candidates[p]
  /\ repo.resolves

\* The packages that change together are in the versions of the release: the one
\* that is named, and those on the node that require it.
ASSUME PackagesChangeTogether ==
  LET info == [p \in {"kubelet", "kubeadm", "salt-minion"} |-> "2"]
      Requires == SUBSET [of : {"kubelet"}, by : {"kubeadm", "other"}, version : {"1", "2"}]
  IN \A name \in {"kubelet", "salt-minion"}, q \in Requires,
        on \in SUBSET {"kubelet", "kubeadm", "other", "salt"} :
       LET repo == [requires |-> q, installed |-> on, answers |-> TRUE, saltPackages |-> {"salt-minion"}]
       IN \A pkgs \in installed(name, "2", info, repo) :
            /\ name \in DOMAIN pkgs /\ DOMAIN pkgs \subseteq {name} \cup on
            /\ \A p \in DOMAIN pkgs : pkgs[p] = "2"
            /\ \A p \in on \cap DOMAIN info :
                 [of |-> name, by |-> p, version |-> "2"] \in q => p \in DOMAIN pkgs

-----------------------------------------------------------------------------
(* Addresses and dashboards. *)

\* The usable addresses of a network are those between its first and its last.
_pick_nth_service_ip(n, prefix) ==
  IF n + 1 < 2 ^ (32 - prefix) - 1 THEN {n + 1} ELSE {}
get_kubernetes_service_ip(prefix) == _pick_nth_service_ip(0, prefix)
get_cluster_dns_ip(prefix) == _pick_nth_service_ip(9, prefix)

\* The addresses are two different ones as soon as there are both, which takes a
\* network of sixteen addresses.
ASSUME AddressesDiffer ==
  \A prefix \in 16..32 :
    /\ get_cluster_dns_ip(prefix) # {} <=> prefix <= 28
    /\ get_cluster_dns_ip(prefix) # {} => get_kubernetes_service_ip(prefix) # {}
    /\ get_kubernetes_service_ip(prefix) \cap get_cluster_dns_ip(prefix) = {}

\* Each argument that is given replaces what the dashboard says.
load_dashboard(dashboard, title, tags, variable) ==
  [editable |-> FALSE,
   title |-> IF title = "none" THEN dashboard.title ELSE title,
   tags  |-> IF tags = "none" THEN dashboard.tags ELSE tags,
   variables |-> (IF variable = "none" THEN <<>> ELSE <<variable>>) \o dashboard.variables]
=============================================================================
