# MetalK8s in TLA+

MetalK8s installs and runs Kubernetes on physical servers. A Salt master on the *bootstrap* node
drives the Salt minion of every other node; a storage operator in the cluster turns `Volume`
objects into formatted devices and `PersistentVolume`s, also through Salt; scripts upgrade and
downgrade the cluster node by node; a web UI starts deployments and follows their jobs.

This directory holds specifications of the parts in which steps of several actors interleave, TLC
configurations that check them on small instances, and proofs that TLAPS checks for all instances.
Paths below are relative to the root of the repository (`storage-operator/`, `salt/`, `scripts/`, `ui/`).
`PROJECT.json` says which lines every definition stands for.

    tlc -workers 2 -config VolumeFaults.cfg VolumeController    # one run of the table below
    tlapm VolumeController_proofs.tla                           # one of the eight proof modules

## 1. Inventory

### Parts that keep state and interact

**Volume controller** (`storage-operator/pkg/controller/volume/volume_controller.go`).
State: none of its own that survives it. It reads `Volume`s and `PersistentVolume`s from two informer
caches, writes them to the API server, which refuses an update made from an outdated copy, and keeps the ID
of the last Salt job in `Volume.status.job`. Operations: one call of `Reconcile` per request taken
from the work queue (deploy, check health, finalize). Interactions: API server, Salt API client, the
controllers of Kubernetes that bind and release PersistentVolumes, users.
Hard: every remote call is a point where the operator may die, its answer may be lost, or a user
may act; the caches are late, and not equally; jobs are polled, forgotten by a restarted master,
refused when the minion is busy.
Correct when: nothing is left on a node once a Volume is gone; storage is destroyed only for a
Volume that was deleted and a PersistentVolume no claim uses; a Volume outlives its PersistentVolume;
every Volume ends available, failed or gone.

**Storage of volumes on a node** (`salt/_modules/metalk8s_volumes.py`, `salt/_states/metalk8s_volumes.py`).
State: sparse files, loop devices, filesystems, links of udev by UUID, and the minion's view
(pillar) of which volumes exist. Operations: the states `present`, `formatted`, `provisioned`,
`removed`, and the run when the minion starts that attaches all files again. Hard: a run is killed between two
system calls; the node reboots; two Volumes name one device; a device already carries data.
Correct when: no data that is not ours is overwritten, what is reported prepared is, and what is
reported removed is gone.

**Salt API client** (`storage-operator/pkg/salt/client.go`, `token.go`). State: a token and its
expiry. Operations: authenticate, POST, and the retry after a 401. Hard: two clocks, a server that
forgets its tokens, requests and responses that are lost. Correct when: a command runs at most once
per call and exactly once when the call is answered.

**Drain of a node** (`salt/_modules/metalk8s_drain.py`, `metalk8s_cordon.py`). State: what it listed
and what it waits for. Operations: cordon, list, filter, evict (retried when a disruption budget
refuses), wait, time out. Hard: pods end, and are made again under the same name, between the
listing, the eviction and the wait. Correct when: success means that the node is empty, and nothing
is evicted unless all may be.

**Upgrade and downgrade** (`scripts/upgrade.sh.in`, `scripts/downgrade.sh.in`,
`salt/metalk8s/orchestrate/{upgrade,downgrade,etcd,deploy_node}`). State: version labels of the nodes,
versions of their components, kubelets and etcd members, cordons, the cluster's version
annotation, the deployed objects. Operations: the script and each state of the orchestrations. Hard:
a state that fails does not stop those that do not require it; scripts are started again from what
the last one left, or in the other direction. Correct when: the order of versions that Kubernetes
needs holds at every moment, one node at a time is out of service, and only a drained one changes.

**Solutions** (`salt/_modules/metalk8s_solutions.py`, `metalk8s_solutions_k8s.py`, `salt/_pillar/metalk8s_solutions.py`,
`scripts/solutions.sh`, `salt/metalk8s/orchestrate/solutions`). State: a configuration file that is read, changed
and written in place, mounted archives, what the salt-master container sees of them, the ConfigMap
that says which version is active, CRDs, environments and their objects. Operations: the eight
commands of the script, each a sequence of a change of the file and of orchestrations. Hard: a command
is killed between two of them; pillars are compiled before what they are used for; no lock; an
object that is being deleted can be replaced and is collected all the same. Correct when: what is
active is one version, and mounted; what a command reports is so; an operator has its rights before it runs.

**States of Kubernetes objects** (`salt/_states/metalk8s_kubernetes.py`, `salt/_modules/metalk8s_kubernetes.py`,
`salt/_utils/kubernetes_utils.py`). `object_present` reads, then creates or replaces;
`object_updated` patches. Hard: other writers in between; manifests that are converted into the
models of a library by the text of their types.

**Expansion** (`salt/metalk8s/orchestrate/deploy_node.sls`, `register_etcd.sls`,
`salt/_runners/metalk8s_saltutil.py`, `salt/_modules/metalk8s_etcd.py`, `salt/_states/metalk8s_etcd.py`). State: the members of etcd, the
manifest of each node, the mine, the accepted minions. Operations: the states of the deployment of a
node with the role etcd, from salt-ssh to the highstate. Hard: two deployments at a time render
their list of members before the other one has joined; a member that is added and has not started
counts for the majority, and without a majority no pillar can be compiled; the list of members is
empty when it cannot be read. Correct when: a deployment that succeeded made its node a member,
nobody starts a cluster of one's own, and what was killed half way is repaired by starting it again.

**Authentication of Salt API** (`salt/_auth/kubernetes_rbac.py`, `master-99-metalk8s.conf.j2`). State: none; a
decision from the answers of the Kubernetes API. Hard: these answers may fail in several ways, and
the client of the operator retries. Correct when: only who Kubernetes vouches for gets a token.

**External pillars** (`salt/_pillar`, `salt/_utils/pillar_utils.py`, `salt/_roster/kubernetes_nodes.py`). State: none; data read from the configuration,
the API, etcd and files at every compilation. Hard: every source may fail, and its readers must learn it.
Correct when: an error is promoted to where the pillar is checked, and a minion gets the keys of its roles only.

**Package, container and kubeconfig states** (`salt/_modules/metalk8s_package_manager_*.py`, `cri.py`, `containerd.py`,
`metalk8s_network.py`, `salt/_states/kubeconfig.py`, `metalk8s.py`). State: none; wrappers of commands of
one node. Hard: commands that say they succeeded; files that expire; polls and their deadlines.

**Jobs of the UI** (`ui/src/ducks/app/salt.js`, `nodes.js`, `volumes.js`). State: jobs in the page
and in the browser's storage. Hard: the events of a job arrive before the job is known, or between
the look-up of saved jobs (`salt.js:133`) and the subscription to events (`salt.js:137`);
`takeLatest` drops the saga of an earlier deployment.

### Parts without concurrency of their own

**Backup, restore, bootstrap**: sequential scripts run by hand. **Salt formulas**
(`salt/metalk8s/kubernetes`, `roles`, `addons`): declarative content. **The rest of the UI**:
rendering. **Build chain, charts, images, packages, CI, tests, docs**: not part of a running cluster.

## 2. The modules and the plan

| module | models | state |
|---|---|---|
| `VolumeLifecycle` | what a Volume promises (abstract specification) | done |
| `VolumeController` | the reconciliation loop and what it talks to | done |
| `VolumeController_proofs` | its theorems | all safety, the refinement |
| `SaltCall` | what the loop relies on when it calls Salt (abstract specification) | done |
| `SaltClient` | how the client implements it | done |
| `SaltClient_proofs` | its theorems | types, safety, refinement |
| `SaltAuth` | who may log in to Salt API | done |
| `SaltLogin` | the client with the authentication | done |
| `SaltLogin_proofs` | its theorems | safety, refinement, the action property |
| `VolumeStorage` | what Salt does to files and devices | done |
| `VolumeStorage_proofs` | its theorems | all safety |
| `Probe` | how it learns what a device holds, and the commands it builds | done |
| `Drain`, `Drain_proofs` | the drain of one node; its two safety invariants for any pods | done |
| `RollingUpgrade` | upgrade and downgrade of all nodes | done |
| `RollingUpgrade_proofs` | its theorems | all safety |
| `KubernetesObjects` | the states of Kubernetes objects beside other writers | done |
| `Manifests` | kinds, requests, the renderer | done |
| `Conversion` | conversion of manifests into models (recursive) | done |
| `Solutions` | the eight commands of `solutions.sh` and what they launch | done |
| `Solutions_proofs` | its theorems | all safety |
| `MCSolutions` | `Solutions` and `Conversion` for TLC | done |
| `Pillar` | what a minion is told, and the errors it is told instead | done |
| `NodeTools` | images, containers, packages, kubeconfigs, retries, addresses | done |
| `Expansion`, `Expansion_proofs` | nodes that join the cluster; its two safety invariants | done |

They fit together by contracts: `SaltClient` implements `SaltCall`, and the four outcomes of a call in
`SaltCall` are the actions `PrepareVolume`/`UnprepareVolume`, `CallFails`, `AnswerLost` and `Crash` of
`VolumeController`. The variable `disk` of `VolumeController` is what a job reports; `VolumeStorage` says what is on
the node when it reports it. A `Drain` that succeeds is the step `Drain` of `RollingUpgrade`.

Others are composed: `SaltLogin` is `SaltClient` with the answers of `SaltAuth`; `VolumeStorage` asks
`Probe` what is on a device; `Solutions` runs its states through `KubernetesObjects` and sends what
`Manifests` asks for; `Expansion` decides by the pillar that `Pillar` compiles from the
state of the cluster, and by the manifests of `NodeTools` whether a pod is restarted.

`Probe`, `SaltAuth`, `Manifests`, `Conversion`, `Pillar` and `NodeTools` have no variables: they are the functions of code that
keeps no state. The facts about them are `ASSUME`s, which TLC evaluates over all bounded
inputs before the runs of the modules that extend them.

What is left, in this order:

1. *Jobs of the UI*: a page that saves jobs, looks them up, subscribes to events and starts deployments;
   that every job whose end the master knows is eventually shown.
2. *Expansion during an upgrade*: `Expansion` and `RollingUpgrade` over one etcd cluster.

Every safety property of the runs but one has a theorem; the properties without one are named at the end of section 5, with the reason.

## 3. How the models correspond to the code

### VolumeController

The controller is created with its default of one worker, which handles one request at a time. `ctl` is the reconciliation in
progress: the next remote call (`ctl.step`), the copies of the Volume and the PersistentVolume it
read, and the status to write. All code between two remote calls is one action with the call that
ends it: `Fetch` is the read at the top of `Reconcile` and the dispatch, `Lookup` the read of the
PersistentVolume and the dispatch to deploying, checking or finalizing, `Save` the status update,
`Protect`, `DropPv`, `DropVolume` the three updates of finalizers, `PrepareVolume` and
`UnprepareVolume` the start of a job, `Poll` its look-up, `Size` the size query, `CreatePv` and `DeletePv` the
creation and the deletion of the PersistentVolume, `FailPv` the second half of
`setFailedVolumeStatus`.

- `vol`, `pv` are the objects in the API server; uid 0 is "none". An update is refused unless the
  copy it was made from equals the object: the resource version.
- `vcache`, `pvcache` are the informer caches. With `LagVolume` (`LagPv`) they follow by
  `SyncVolume` (`SyncPv`), at any time; otherwise at once.
- `jobs`, `inbox` are the jobs of the Salt master and those published to the minion. `Start` refuses a job
  when another one runs, as Salt does with state runs; `known` is whether the master's cache has it.
- `disk` is what the jobs made of the storage: `raw`, `dirty` (half prepared or half removed), `ready`, or `left` when a
  removal reported success without having found the link by UUID, so that the sparse file is still there (finding 2). That is
  possible for a volume of `unlinked`: one whose run was interrupted (`JobFails`, `MinionRestart`) on a `dirty` storage.
- Faults: `Crash` of the operator, `CallFails`/`PollFails`/`SizeFails` before an effect, `AnswerLost` after it,
  `LoseMessage`/`MinionRestart` lose a job, `MasterRestart` forgets all, `JobFails`, `PvFails`.
- Users: create, delete, claim and release a volume; with `Users` also create invalid volumes, make
  a PersistentVolume by hand under the name of one, or delete one that is ours.

The size query relies on the link of udev by UUID that `VolumeStorage` models call by call; it is one remote call here, which
fails when the storage is not ready and may fail for a volume of `unlinked`.

`VolumeLifecycle` keeps only the object (`none`, `live`, `deleting`), the offer (`none`, `open`,
`closed`) and the storage, and says which may change together. The refinement mapping is `Lifecycle`;
its storage is what the runs report (`Reported`), which takes `left` for `raw`: `NothingLeftBehind` says what that hides.

### VolumeStorage

`run.step` is the next system call of the state run in progress; `PresentStep`, `Truncate`,
`Formatted`, `Mkfs`, `Provisioned`, `Removed`, `Unlink` are the calls in the order of the states, and `StartupStep` is
the attach of one file when the minion starts. `content` is what a file or a device holds: nothing,
an unfinished file, blank, a partition table, a foreign filesystem, or the filesystem with the UUID of
a volume; `loop` and `link` are the loop device of a file and whether udev made its link by UUID.
`pillar` is what the minion sees of the Volume object. `Killed` stops a run where it is, and a run stopped in
`mkfs` leaves any of the contents `Torn` lists; `Reboot` also takes the loop devices away. What a
content is to the probe of the first bytes is a device of `Probe`. Size and
mount options are constants of a volume. The fault `class` is a StorageClass that cannot be read,
which fails a preparation between `present` and `formatted`.

### Probe

`configure` and `probe` make the calls of libblkid in their order, each of which may fail; the values that the flags of the
superblock and of the partition table ask for (`_get_flags`); sizes with their units; the `mkfs` command of each
filesystem; `is_formatted` and `Format` on top. External: libblkid.

### SaltClient, SaltAuth, SaltLogin

`Call`, `Login`, `Send`, `Relogin`, `Resend`, `Return` are the steps of one call through
`doRequest`, `authenticate` and the retry; `Tick` and `Restart` belong to the server. The client's
clock differs from the server's by a constant `skew`. `ran` counts how often the server ran the
command. When the retried request gets no response the client closes the body of a nil response
(`client.go:314-316`) and the operator panics: the outcome `panic`, which `SaltCall` calls `crashed`.

`auth` and `groups` of `SaltAuth` are those of `kubernetes_rbac.py`: a token that is reviewed, or a password
that is tried on `/version`; exceptions are a result. `SaltLogin` gives a token only if `auth` says yes
(`GiveToken`), and otherwise fails the call (`RefuseLogin`); `KubeFails` and `KubeRecovers` change what Kubernetes answers.

### Drain

`Cordon`, `List` (with all filters: mirror pods, DaemonSets, local storage, unreplicated pods), `Evict`
one after the other, a refused one being retried before the next, `StartWait`, `Wait`, `Timeout`. A
pod is a name and a uid; `Recreate` is its controller, which makes a pod of the same name wherever it
may run; `BudgetAllows` is the disruption budget. Options and kinds of pods are chosen in `Init`,
all combinations of them. External: the eviction API, controllers, kubelet.

### RollingUpgrade

The Jinja templates are rendered when the orchestration starts. `States` is the set of states that
rendering gives for a set of nodes, `Before` the order in which Salt comes to them (`Stage`: the commands of the
scripts; then etcd members by name, nodes by `NodeBefore`, and the `Place` of a state among those of its
node) and `Needs` what each requires. `run` is the script in progress: what is `left`, and what was `ok`. `Turn` is the state
that comes next, `Allowed` that its requirements succeeded. `NotRun` skips a state whose requirements failed; the actions after it
are what the states do; `Fails` is a state that fails without an effect, and the actions that can fail half way
(`DeployEtcd`, `Highstate`, `DeployObjects`, `UpgradeBootstrap`) say so themselves. `StartUpgrade` and
`StartDowngrade` are the scripts with their prechecks, `Resume` the same script started again after a
failure. Versions are minor versions 1..MaxVersion. Users are assumed to follow the documentation in
one thing: they upgrade to a version above the cluster's and downgrade to one below.

External: Salt's rule for requirements, the etcd quorum, the drain's success (see `Drain`).

### KubernetesObjects, Manifests, Conversion

`Look` is the read of a state, `Put` the creation or the replacement that follows and that a newer
resource version refuses, `Patch` the update without one, `Collect` the end of a foreground
deletion. `Manifests` gives the kinds that are known and their methods, the request that each method sends,
and what the renderer makes of several manifests; `Conversion` the conversion of a manifest
by the types of the models (`_cast_value`, `convert_manifest_to_object`), in a module of its own because it is recursive. External: the API server and the models of the library, whose
constructors refuse an object without a required attribute (`Built`).
`ConversionIsComplete`, the property `ManifestsConverted` of `MCSolutions`, compares the result leaf by leaf with the manifest: it is refused
exactly when a leaf or a missing attribute says so, and otherwise has each value, converted, at its place and no other.
Two keys of a manifest for one attribute, where the last one counts, and keys that are no strings are left out.

### Solutions

`job[a]` is the command of an administrator and its place in it (`pc`); the commands are lists of the
steps `ReadConfig`, `Truncate`, `Dump` (the configuration file, opened and then written), `Compile` (a pillar, from
which later steps work), `Mount`, `ConfigureMaster`, the ConfigMap, the CRDs, the flags, the environment and the
objects of the operator in the order of the requirements. `Kill` ends a command anywhere; each
step fails by the faults `call`, `list`, `mount` or `master`. There is one Solution with two
versions and one environment: several of either meet only in the file, which is read and
written as a whole. External: the content of the archives.

### Pillar, NodeTools

A part of the pillar is a value or errors; `Compiled` is the whole pillar of a minion from what its
sources are (the record described in the module), `check_pillar_keys`, `node_info`, `minions_by_role`, `targets` those who
read it, and `get_archives` the loop over the archives, which one bad archive ends with an exception. `NodeTools` gives, for what the commands of a node answer, the result of the states:
`image_managed`, `wait_container`, `managed` (kubeconfig), `list_pkg_dependents`, `module_run`,
`static_pod_managed`, `get_cluster_dns_ip` and others. Loops with a deadline or attempts (`wait_container`, `module_run`) are
recursive functions over what each round finds. `_validateKubeConfig` is true, false or an exception, by the
order in which the code reads the sections of the file; `left` is the time a certificate still has. The digest of a static pod is the
sequence of the sums of its files, without names. Texts are left out.

### Expansion

`step[n]` is the state of the orchestration of node n that runs next; the actions from `Render` to
`Highstate` are the states in their order. `World` is what the pillars are compiled from at that
moment: the API server answers while etcd has a majority and it is not `silent` by itself.
`pod[n]` is the initial cluster in the manifest; a member starts (`Join`) when its list is the one
its peers have, as etcd demands, and a pod whose manifest changed is restarted. `Killed` ends an
orchestration and `Render` starts it again. External: etcd (`Addable`, `Join`) and the kubelet.

## 4. What the runs check

Every property is about the interleavings of its module; its comment says in words what it means.

| run | module, cfg | properties | bounds | shows |
|---|---|---|---|---|
| `volume_faults` | VolumeController, VolumeFaults | `TypeOK` `StorageBehindPv` `VolumeOutlivesPv` `NothingLeftBehind` `DoneMeansQuiet` `DestroyedOnlyWhenUnused` `LifecycleSpec` | 1 volume, 3 jobs, any 2 faults | safety and the refinement of the lifecycle under every pair of faults |
| `volume_late_caches` | VolumeController, VolumeLate | `NothingLeftBehind` `ForeignPvUntouched` | 1 name used twice, 2 jobs, 1 crash, both caches late | what holds however late the caches are |
| `volume_liveness` | VolumeController, VolumeLiveness | `DeletedIsCollected` `PendingSettles` `HealthIsReported` | 1 volume, 2 jobs, any 1 fault but a lost job | what must happen in the end |
| `volume_late_pv` | VolumeController, VolumeLatePv | `DestroyedOnlyWhenUnused` | 1 volume, late PV cache | **violated**, finding 1 |
| `storage` | VolumeStorage, VolumeStorage | `OneVolumePerDevice` `LoopHasFile` `PreparedIsReady` `ContentKept` `DeletedIsForgotten` | 1 file, 2 volumes on 1 device, any 2 faults | data is safe and removals end, wherever a run is stopped |
| `storage_leak` | VolumeStorage, VolumeStorageLeak | `RemovedLeavesNothing` | 1 file, 1 fault | **violated**, finding 2 |
| `salt_client` | SaltLogin, SaltClient | `RefusedOnlyIfShaken` `CallSpec` `CallsRecover` `TokenIsVouched` | lifetime 2, time 4, skew 2, 3 faults | the client implements `SaltCall`, recovers, and no failure of Kubernetes lets a login pass |
| `drain` | Drain, Drain | `DrainedMeansEmpty` `AllOrNothing` `DrainEnds` | 2 pods of any kinds, names used twice, all options, 1 always available, 1 failed call, users | what success and refusal of a drain mean, and that it ends |
| `rolling_upgrade` | RollingUpgrade, RollingUpgrade | `WorkersNeverAhead` `EtcdNeverBehind` `OneNodeAtATime` `QuorumKept` `ChangedWhenDrained` `Converges` | 2 control plane nodes, 1 worker, 3 etcd members, 3 versions, 2 scripts, 2 faults | order of versions, at every step of runs that fail and are undone |
| `upgrade_skips_minor` | RollingUpgrade, RollingUpgradeMinor | `OneMinorAtATime` | 2 nodes, 3 versions, 2 scripts, 1 fault | **violated**, finding 3 |
| `solutions` | MCSolutions, MCSolutions | `OneActiveVersion` `ActiveIsMounted` `ImportedStays` `SuccessIsReal` `OperatorBehindRights` `ManifestsConverted` | 2 administrators, 2 versions, 5 commands (3 once two overlapped), 1 fault | what a command that succeeded, or was killed, leaves |
| `expansion` | Expansion, Expansion | `DoneIsMember` `NeverAlone` `QuorumComesBack` `EveryoneJoins` | bootstrap and 2 new nodes, 2 faults | two nodes that join at once, killed and started again |

Facts that TLC evaluates over bounded inputs before a run: with `storage`, of `Probe`, that only a blank device is
formatted, that what was formatted is recognised, and that sizes are exact; with `salt_client`, that the operator has
the permissions it uses; with `solutions`, of `Manifests`, that the states write the object that they read and that the later of
two objects counts, and of `Solutions`, that the kinds of a Solution have all methods; with `expansion`, of `Pillar`, that every error is told and a minion gets its
own keys only, and that archives are all found or none; of `NodeTools`, that a managed image is there, that the wait for a container keeps its
deadline, that retries end with the first success, that a manifest changes exactly when its files do while the same optional ones are there,
that a kubeconfig is made once and a file whose validation raises stays, that the packages of a release change together and that addresses differ.
The errors and the owner of a pillar, images, kubeconfigs and packages are also proved, for all inputs (section 5); so is what the proofs need of `Probe`.
The loops of `NodeTools` and `Pillar` are recursive and only evaluated.

Why the bounds are enough to be interesting:

- One volume with three jobs: a lost answer leaves an orphan job, its replacement is refused or overtakes it, and a third one
  unprepares. Two faults are what it takes to lose a job and the knowledge of it.
- Volumes of one node interact only through the one worker and the one minion: another volume is
  a job that makes the minion refuse ours, which orphan jobs do here, and the theorems hold for any number.
- Late caches need a name that is used twice (`MaxUid = 2`): the copy of the first volume is met by
  the second. A late cache of Volumes makes `DoneMeansQuiet` false (a step is taken twice and starts a
  second job; harmless, as the others hold), and liveness with late caches is not claimed.
- Storage: two volumes on one device are all that can conflict; the file of a sparse volume is
  its own.
- Drain: two pods under a budget of one that is always available are the smallest case where an
  eviction must wait for a replacement; a name used twice is what a wait by name would get wrong. The theorems
  hold for any number.
- Solutions: an upgrade of a Solution needs two versions; activation, import and removal are three commands, and two more
  reach an environment. What overlaps is bounded by three, two overlapping commands and what a third finds.
- Expansion: with two new nodes the cluster goes from one member to three, through the size two
  that needs both. A third would only repeat the step from two.
- Upgrade: two control plane nodes are needed for "a control plane node is behind", a node without
  that role for "ahead of it", three etcd members for a quorum that one loss keeps; three versions and
  two scripts for an upgrade that is taken back or continued while half done. What more scripts bring
  is in the theorems, which hold for any number of them.

Deadlock is off where the system may come to rest: all volumes gone, the drain ended, the scripts
done.

### Fairness

- `VolumeController`: weak fairness of the worker (a controller loop that always goes on), of the minion's start
  and completion of each job, of the caches, and of the controllers of Kubernetes that make a
  PersistentVolume available and remove its protection; strong fairness of `Fetch(v)`, as the
  work queue is first in, first out and every request comes up although others are added. Nothing
  is assumed of users or faults. Lost jobs are excluded from `volume_liveness`: the code polls a lost job for ever.
- `VolumeStorage`: weak fairness of the run, of udev and of the disappearance of the object; strong fairness of
  `StartRemove`, since the operator requeues a volume whose removal failed and its job is accepted
  again and again between startup runs.
- `SaltLogin`: weak fairness of the client, whose requests have a deadline, and of the recovery of the API
  server of Kubernetes. Not of the Salt server: it need not restart and time need not pass.
- `Expansion`: weak fairness of each orchestration, which an administrator starts again when it failed,
  of each member that can start, of the kubelets that restart pods, and of the recovery of the API server.
- `Drain`: weak fairness of the drain's loop, the kubelets and the controllers.
- `RollingUpgrade`: weak fairness of the Salt master, of administrators who start a failed script
  again and repair a dead etcd member; no program does either, so `Converges` says that nothing a
  failure leaves behind stands in the way of such an administrator.

## 5. What is proved

All theorems are about every value of the constants, within the assumptions that the modules declare. The
safety theorems follow one pattern: an inductive invariant, an induction over the actions with one lemma each,
and the step from that invariant to the property. Every inductive invariant was an invariant of TLC runs
before it was proved.

In `VolumeController_proofs`, for any number of volumes, jobs, creations and faults:

- `TypeCorrect`: `Spec => []TypeOK`. By one lemma per group of actions. It is more than a declaration of
  types: every copy, queue entry and step stays within what the next action expects.
- `VolumeOutlives`: `~LagPv /\ Spec => []VolumeOutlivesPv`: a Volume is never collected while a
  PersistentVolume it owns exists, however late the cache of Volumes is. The invariant alone is not
  inductive, because a reconciliation writes from what it read some calls ago. `OutlivesInv` adds
  what a copy still tells: one with our finalizer that was not being finalized is of
  the current Volume (`Held`); finalization is never given up (`Onward`); and for each value of
  `ctl.step`, what was seen before that call (`StepInv`). The assumption is needed: with a late cache of
  PersistentVolumes the operator removes the finalizer of a Volume whose PersistentVolume it does not see yet.
- `NothingIsLeft`: `Spec => []NothingLeftBehind`, however late both caches are; a file that a removal leaves because the link was
  missing is the property's one exception (`LeftInv`: only a volume of `unlinked` has one). `EmptyInv` speaks of the current Volume
  only: without our finalizer nothing is on the node and no job will prepare it (`Empty`); a Terminating status names a job that is
  behind every job that prepares (`Behind`), or is `DONE` of an empty storage (`Settled`); a status that an outdated copy led to is refused (`Outdated`).
  TLC checked it on 2,598,655 states (one crash) and 2,964,159 (a crash or a lost answer), both caches late.
- `ForeignIsUntouched`: `Spec => ForeignPvUntouched`, an action property, again for any caches. The deletion by name and the update of
  a copy need one fact (`OwnedInv`): a copy of a PersistentVolume that is ours is of the existing one
  until the copy shows that it is being deleted, for only the operator lets it go and only after it has seen that; `MineInv` carries it through the calls.
- `StorageIsBehindPv` and the action property `DestroyedWhenUnused`, each from `~LagPv /\ Spec`: however late the cache of Volumes is.
  The inductive invariant is `StateInv`: `TypeOK`, `OutlivesInv` and `EmptyInv` with `WorkInv`. What makes it more than the property is that the operator may
  work on a copy of a Volume that is several writes behind, or of a former Volume of the same name, and publish a job from it. `WorkInv` says what stays true all the same:
  - `ObjectsInv`: what any copy of the current Volume says of the storage (`Says`: it was prepared; a reclaim is done) stays true while that Volume
    exists, although it was written over; a Pending status names the last job published for the volume (`Tracks`), so that orphans
    whose answer was lost run before it; a PersistentVolume has its storage while it is in use (`Backed`).
  - `ActiveInv`: a job without a result prepares only while there is no PersistentVolume, and unprepares only a volume that is deleted and
    whose PersistentVolume nobody uses (`Reclaims`), or it is `Harmless`: an outdated copy of a
    former Volume asked for it, nothing is on the node, and it comes in the inbox before all that prepares the current one.
  - `SeenInv` and `NextInv`: what the reconciliation in progress saw, and what it may count on at its next call. A status
    it is about to write is right if its copy is still the object (`Fresh`), and is refused by the API server otherwise.

  TLC checked it with the cache of Volumes late on 5,265,247 states (the constants of `volume_faults`) and 2,056,820 (a name used
  twice, a crash, a lost answer or a lost job), and with caches up to date on 1,095,124 (two volumes, lost answers).
- `ImplementsLifecycle`: `~LagPv /\ Spec => LifecycleSpec`: the controller implements `VolumeLifecycle`, again however late the
  cache of Volumes is. Each action maps to a step of the abstract life or leaves it alone; `StateInv` gives the guards of the abstract steps.
- `DoneIsQuiet`: `~LagVolume /\ Spec => []DoneMeansQuiet`, however late the cache of PersistentVolumes is. Instead of `WorkInv` it takes, with
  `TypeOK` and `EmptyInv`, `QuietInv`, which says that a status that names a job names the last one published for the volume, so that with its end there is none
  left (`LastInv`), and that the reconciliation in progress works on the status the Volume has (`RecentInv`: only a deletion may have come since). The status of a failed
  volume keeps the name of its job; that is the last one until the volume is deleted, when another is started to reclaim it. TLC checked it on 668,833
  states (a name used twice, 2 jobs, 1 fault) and 14,720,368 (3 jobs, any 2 faults, all users), with the cache of PersistentVolumes late.

Both assumptions are needed. With a late cache of PersistentVolumes TLC finds `StorageBehindPv`, `DestroyedOnlyWhenUnused` and the refinement
violated (run `volume_late_pv`, finding 1). With a late cache of Volumes it finds `DoneMeansQuiet` violated: from an outdated copy the
operator reclaims a storage once more, while the status already says `DONE`.

In `VolumeStorage_proofs`, for any volumes, files and devices, and any kills, restarts and failing commands:

- `TypeCorrect`, `LoopsHaveFiles`, `DevicesAreNotShared`, and the action properties `ContentIsKept` and
  `PreparedMeansReady`. The inductive invariant says what the run in progress relies on between two of its
  steps (`StepInv`: what it is about to format is blank, what it is about to unlink is detached and being deleted),
  and that a raw volume that was prepared keeps its filesystem (`PreparedHolds`), which is why no other one can be prepared on the same device. They
  rest on lemmas about `Probe` (`ProbeWorks`, `Probes`): libblkid tells a blank place from any other, and a filesystem is recognised
  by the UUID of its volume. These are proved, not evaluated.

In `RollingUpgrade_proofs`, for any nodes, roles, versions, scripts, retries and failures:

- `WorkersFollow`, `EtcdLeads`, `OneOutOfService`, `QuorumIsKept` and the action property
  `DrainedWhenChanged`, with `TypeCorrect`. The inductive invariant relates what is left of the run to the versions.
  `RunInv`: what is left comes after what was reached (`InOrder`), what succeeded had all it requires (`Closed`), and a node or
  member that was begun has all earlier ones deployed (`NodesInTurn`, `MembersInTurn`), although the requirements name the previous one only.
  `VersionInv`: a label, a node, a member and the annotation have the destination's version if the state that writes them
  succeeded, and labels are within one version of the cluster and of the destination. `SkewInv` and `EtcdInv` strengthen the two version properties by the labels, which are what the next highstate installs; `ServiceInv` and `QuorumInv` say
  which node may be cordoned and which member may be down. TLC checked it on the run's 465,180 states and, with three scripts on two
  nodes, on 278,707 (two members) and 198,070 (one).
- `NoNodeSkipped`: the prechecks' `SkipNode` never happens to users who follow the documentation:
  every run is for all nodes.
- `RequirementsComeFirst`: what a state requires is in the same orchestration and earlier, in both
  directions. Salt accepts every rendering and no requirement waits for a later state.

In `Solutions_proofs`, for any administrators, versions and commands:

- `OneActive`: at most one version is active, whatever overlaps. `OneInv` says it of the object, of the
  pillars and of what a command holds.
- `ActiveStaysMounted`, `ImportedRemains` and `SuccessMeansDone`: of commands that do not overlap, each failing or killed anywhere. What was imported
  stays configured as long as the file can be read: a command killed between truncating and writing it (`metalk8s_solutions.py:44-47`) loses what it held.
  `IInv` says nothing once `overlapped` holds (two administrators do lose each other's change of the file);
  before that at most one command runs (`Alone`), the file, the mounts and the ConfigMap agree up to
  the command in progress (`World`), and the command has seen and done what its place says (`Sound`, one part per phase).
- `OperatorHasRights`, the action property `OperatorBehindRights`, from the same invariant: the four objects that the
  Deployment requires were written before it by the same command (`EnvStep`).

In `SaltClient_proofs`, for any lifetime of tokens, skew, bound of the clock and number of faults:

- `TypeCorrect`, and `RefusedOnlyShaken`: a call is refused only if time passed or the server
  restarted during it. The inductive invariant `IInv` says that a token fresh from `authenticate` is
  one that the server accepts as long as nothing happened since.
- `ImplementsSaltCall`: `Spec => CallSpec`. Every step of the client is a step of `SaltCall` or
  leaves it alone; `IInv` gives that nothing ran before a request was accepted.

In `SaltLogin_proofs`, for the client with the authentication: `LoginRefusesOnlyShaken`,
`LoginImplementsSaltCall` and `TokensAreVouched`. Every step is one of the client alone or one of two
others (`ByItself`: a refused login, Kubernetes failing), so that the invariant and the refinement are those of
`SaltClient_proofs` with two cases more; that a given token is vouched for follows from `auth` and the form of the operator's credentials.

In `Drain_proofs`, for any pods, kinds, budget and failed calls:

- `DrainedIsEmpty`: `Spec => []DrainedMeansEmpty`. Inductive with `AllWaitedFor`: from the listing on, every
  pod on a cordoned node that is to leave it is waited for under the uid it has now. What controllers and
  users do keeps it because a pod made again on a cordoned node is one of a DaemonSet (`Keeps`).
- `AllOrNothingIsEvicted`: `Spec => []AllOrNothing`, by the same lemmas and the filters of `List`.

In `Expansion_proofs`, for any set of new nodes and number of faults:

- `DoneMembersStarted`: `Spec => []DoneIsMember`: only `check_etcd_health` goes past the health check, the attempt that decides sees the
  cluster as it is, and a member that started stays one.
- `NoEtcdAlone`: `Spec => []NeverAlone`: the pillar tells all the members or none (`AllOrNone`), so
  that a list that is not empty names the bootstrap node, which started.
- What the pillar gives, for any configuration, cluster, keys and etcd: `PillarNeverHidesErrors` (a part that is missing has its
  error, by following the promotions of `errors_to_dict` part by part) and `PillarBelongsToTheMinion`.
- What the tools of a node give, whatever the node answers: `ManagedImageIsThere`, `DependentsFollow`, and `KubeConfigsAreMadeOnce`, which
  needs certificates for 30 days or more: a file that the state made stays while 30 days are left, one that was valid or that raises is not touched.

Assumptions on constants are those the modules declare: natural bounds, booleans, fault kinds, finite sets of
nodes and of versions, at least one volume, version, control plane node and etcd member, a bootstrap node that is one of the nodes (`RollingUpgrade`) or is
not new (`Expansion`), job IDs that are not the markers `""` and `"DONE"`, and a `None` that is no object.
In the modules with proofs, facts about functions that are only evaluated (`ASSUME`s about `Pillar`, `NodeTools`, `Probe` and
`Manifests`) are not used. Facts about finite sets (a last element, a greatest version) are proved from minimal elements,
`WFMin` of the library.

Only model-checked:

- Liveness, out of the prover's reach: `DeletedIsCollected`, `PendingSettles`, `HealthIsReported`, `DeletedIsForgotten`,
  `CallsRecover`, `DrainEnds`, `Converges`, `QuorumComesBack`, `EveryoneJoins`.
- `ManifestsConverted`: the conversion is recursive over the manifest.

## 6. What the checks found

1. *Storage reclaimed under a PersistentVolume that is in use* (`volume_late_pv`).
   `finalizeVolume` takes "no such object in the cache" for "no such object"
   (`volume_controller.go:716`), but the two caches are fed by two watches: after the creation of a
   PersistentVolume, the update and the deletion of its Volume may be seen first. The comment at
   lines 148-150 says that the storage is reclaimed once the PersistentVolume is unused.
2. *A file left behind* (`storage_leak`). `clean_up` opens the link by UUID; without one, `ENOENT` is
   swallowed before `os.remove` (`metalk8s_volumes.py:314`), and `removed` reports success. `NothingLeftBehind` of
   `VolumeController` has this case as its exception.
3. *A minor version skipped* (`upgrade_skips_minor`). The label is written before the node is
   deployed, and the precheck believes labels (`upgrade/precheck.sls:21`), so a node whose
   deployment failed can go from version 1 to 3 on the next upgrade. A downgrade has the same flaw.
   It also breaks the order of etcd, in three scripts, which the attempt to prove `EtcdNeverBehind` without its exception
   showed: a downgrade from 3 to 2 that stops after the label of an API server, a downgrade to 1 that stops early, and an
   upgrade to 2, which deploys etcd first, leave etcd at 2 under an API server at 3. `EtcdNeverBehind` therefore excepts
   nodes whose components are newer than their label.

Seen while modelling, with no run of their own:

- The panic in `client.go:314-316` after a retry without response.
- A volume whose job the minion lost stays Pending for ever: the master never knows of its end.
- After a preparation is killed between the creation and the resize of the file, the next one fails with `EEXIST`
  (`metalk8s_volumes.py:273`).
- The drain evicts by name: a pod made again under a listed name on another node is evicted there.
- Bare pods need no `force`, contrary to the docstring (`metalk8s_drain.py:197-198`, line 215).
- The kubelet of the bootstrap node is changed first, without cordon and drain, by `upgrade_bootstrap`
  (`docs/developer/architecture/requirements.rst:46-47` says always); `WorkersNeverAhead` and
  `ChangedWhenDrained` leave this kubelet out.
- An upgrade to a version below the cluster's would downgrade etcd first.
- `run_quiet` switches `set -e` off (`scripts/common.sh:215`), so a multi-command step goes on after
  a failure; each step is its last command in the model.
- Drain: a pod whose controller is of a kind that `kubernetes_utils.py` does not know makes every
  drain fail, whatever the options; uncordoning reads the taints of the node and writes them back.
- Kubernetes objects: a namespaced custom kind cannot be listed in all namespaces; `configure` does not reset
  the API object that `ApiClient.api` keeps; a retrieval without `metadata.namespace` ends in an `AttributeError`;
  two manifests of one object are silently one.
- Solutions: a pillar with errors is written into the ConfigMap as if it were a configuration, and no later listing
  succeeds; flags are written although the CRDs failed (`deploy-components.sls:139`); a CRD that is replaced while it
  is being deleted is collected later; two administrators lose each other's change of the
  file; an environment whose creation was killed before its label cannot be repaired by the command.
- Authentication: `_check_auth_args` raises a name that is not imported; `_groups_basic` tests for the
  opposite of a 403 and leaves its result unbound otherwise.
- Pillar and expansion: `get_etcd_member_list` returns an empty list without an error when it finds no endpoint, and when the listing itself
  fails nothing promotes the error; the errors of the cluster's version are not promoted; one bad archive makes `get_archives` raise for all of them; `wait_minions` makes one attempt less than it is
  asked for; `list_pkg_dependents` passes `None` to `update` when a query fails; a member that has not
  started has no URL and ends the health check in an `IndexError`; the second member takes the majority away until it starts.

- Node tools: an empty kubeconfig, one that is no mapping, or one with a certificate that cannot be read makes the validation raise
  (`kubeconfig.py:46-51` and 75 catch less), so that the state fails until the file is removed by hand; a certificate made for 30 days or
  less is made again at every run; an optional file that takes the place of another with the same content leaves the digest of a
  static pod as it was (`_states/metalk8s.py:51-61`).

## 7. What is not modelled

- The parts that section 1 names without concurrency of their own, and those the plan has left.
- In the drain: grace periods and taints. Guarantees are given for a node nobody uncordons meanwhile.
- In the upgrade: what `pre.sls` and `post.sls` do besides succeeding or not, the local proxy's version, and the
  minion's own reconfiguration.
- In the volumes: a node that is removed from the cluster (its volumes can never be finalized: the
  look-up of the node fails first), an invalid volume that is requeued in a loop with no effect, an edited
  size.
- In the client: the contents of requests and responses beyond their status.
- In Solutions: what the archives contain, the registry's configuration, more than one Solution.
- In the states of Kubernetes objects: the wait for the end of a deletion, test mode, and a
  validation that nothing calls.
- In the expansion: what the highstate installs besides etcd, nodes without that role, and the
  expansion during an upgrade.
- In the tools of a node: texts, and the listing of an orchestration.
- Type invariants exist in every module with variables; the runs check that of `VolumeController`, where the theorem is
  about it too. Those of the others were checked when the modules were written and
  restate declarations only.
