------------------------------ MODULE Solutions ------------------------------
(***************************************************************************)
(* Solutions: the commands of scripts/solutions.sh, the functions of the     *)
(* Salt module they call, the orchestrations they start and the states these *)
(* apply, over one Solution of several versions (archive v holds version v)  *)
(* and one Environment of one namespace.                                     *)
(*                                                                           *)
(* A command is a sequence of steps; any of them can fail or be the last one *)
(* its process takes.  Two administrators may work at the same time.         *)
(*                                                                           *)
(* Left out: the options of the commands, the registry configuration, the    *)
(* description of an Environment, and what one object_present of the         *)
(* Environment reads before it writes: what it writes does not depend on it, *)
(* so that another writer can only make it fail, as a failed call does.      *)
(***************************************************************************)
EXTENDS KubernetesObjects, Manifests, FiniteSets, FiniteSetsExt

CONSTANTS Versions,     \* the versions of the Solution, numbered by age
          Faults,       \* what may go wrong
          MaxCommands,  \* bound on the commands that are run
          MaxTogether,  \* bound on them once two have run at the same time
          MaxFaults     \* bound on what goes wrong

ASSUME VersionsAssumption ==
  Versions \subseteq Nat \ {0} /\ IsFiniteSet(Versions) /\ Versions # {}

FaultKinds == {"kill", "call", "list", "mount", "master"}
ASSUME FaultsAssumption == Faults \subseteq FaultKinds

\* Versions are numbers, so that 0 can stand for the absence of one.
Nothing == 0
Latest == 1 + Max(Versions)

Operator == {"account", "role", "binding", "opConfig", "operator"}
Parts == Operator \cup {"ui"}
SolutionObjects == Parts \cup {"configMap", "crd"}

ASSUME SolutionObjectsAssumption == Objects = SolutionObjects

KindOf ==
  [account |-> <<"v1", "ServiceAccount">>,
   role |-> <<"rbac.authorization.k8s.io/v1", "Role">>,
   binding |-> <<"rbac.authorization.k8s.io/v1", "RoleBinding">>,
   opConfig |-> <<"v1", "ConfigMap">>, configMap |-> <<"v1", "ConfigMap">>,
   operator |-> <<"apps/v1", "Deployment">>, ui |-> <<"apps/v1", "Deployment">>,
   crd |-> <<"apiextensions.k8s.io/v1beta1", "CustomResourceDefinition">>]

ASSUME KindsAreKnown ==
  \A o \in Objects : Known(KindOf[o]) /\ get_kind_info(KindOf[o]).client.methods = CRUD_METHODS

VARIABLES
  config,     \* /etc/metalk8s/solutions.yaml
  mounted,    \* archives mounted on the bootstrap node
  exposed,    \* archives the salt-master container can read
  env,        \* the Environment: its namespace, label and ConfigMap
  job,        \* what each administrator's command is doing
  commands,   \* commands started so far
  faults,     \* faults so far
  overlapped, \* two commands have run at the same time
  collected,  \* the garbage collector has removed CRDs
  imported    \* archives whose import succeeded and whose removal was not asked

adminVars == <<commands, overlapped, collected>>
vars == <<config, mounted, exposed, env, job, commands, faults, overlapped,
          collected, imported, api, seen>>

Idle == [cmd |-> "none", arg |-> Nothing, pc |-> "idle", cfg |-> None,
         pillar |-> None, ok |-> TRUE, tried |-> {}, done |-> {}]

EmptyConfig == [state |-> "good", archives |-> {}, active |-> Nothing]

\* "data" is None without the ConfigMap metalk8s-environment.
NoEnv == [ns |-> FALSE, label |-> FALSE, data |-> None]

Init ==
  /\ config = [EmptyConfig EXCEPT !.state = "missing"]
  /\ mounted = {} /\ exposed = {}
  /\ env = NoEnv
  /\ job = [a \in Writers |-> Idle]
  /\ commands = 0 /\ faults = 0
  /\ overlapped = FALSE /\ collected = FALSE
  /\ imported = {}
  /\ ApiInit

(***************************************************************************)
(* What the ConfigMap metalk8s-solutions says.  "flags" is FALSE when the    *)
(* versions were written without the key "active", "errors" is TRUE when the *)
(* list of errors of the pillar was written as if it were a Solution.        *)
(***************************************************************************)
Listed == IF Exists("configMap") THEN Body("configMap").listed ELSE {}
Readable == Exists("configMap") =>
              /\ ~Body("configMap").errors
              /\ Body("configMap").flags \/ Body("configMap").listed = {}
list_active == IF Exists("configMap") THEN Body("configMap").active ELSE {}

list_environments == [known |-> env.ns /\ env.label, data |-> env.data]

(***************************************************************************)
(* The external pillar, when the listings in "failing" fail.  A file that is *)
(* missing or of the wrong kind is an error of "config"; a torn one raises   *)
(* an exception that nothing catches and there is no pillar at all.          *)
(***************************************************************************)
_load_solutions(failing) ==
  LET errors == "active" \in failing \/ "available" \in failing \/ ~Readable
  IN  [config |-> config,
       available |-> IF "available" \in failing THEN {} ELSE mounted,
       availableErrors |-> errors,
       active |-> IF errors THEN {} ELSE list_active \cap mounted,
       environment |-> list_environments,
       environmentErrors |-> "environments" \in failing]

Listings == {"available", "active", "environments"}
ConfigGood(p) == p.config.state = "good"
Broken(p) == p.config.state = "torn"
Errors(p) == ~ConfigGood(p) \/ p.availableErrors \/ p.environmentErrors

Desired(p) ==
  IF p.config.active = Latest /\ p.available # {} THEN Max(p.available)
  ELSE p.config.active

(***************************************************************************)
(* Steps.                                                                    *)
(***************************************************************************)
Fault(kind) == kind \in Faults /\ faults < MaxFaults /\ faults' = faults + 1
NoFault == UNCHANGED faults

\* A command that has ended leaves its exit status only, until the next starts.
Settled(j) ==
  CASE j.pc = "failure" -> Idle
    [] j.pc = "success" -> [Idle EXCEPT !.cmd = j.cmd, !.arg = j.arg, !.pc = "success"]
    [] OTHER -> j

Become(a, j) == job' = [job EXCEPT ![a] = Settled(j)]
Goto(a, pc) == Become(a, [job[a] EXCEPT !.pc = pc])

At(a, pc) == job[a].pc = pc
Succeeded(a, cmd) == At(a, "success") /\ job[a].cmd = cmd

Running(a) == job[a].pc \notin {"idle", "success"}

Start(a, cmd, arg) ==
  /\ ~Running(a)
  /\ job' = [b \in Writers |->
                IF b = a THEN [Idle EXCEPT !.cmd = cmd, !.arg = arg, !.pc = "start"]
                ELSE IF Running(b) THEN job[b] ELSE Idle]
  /\ commands' = commands + 1
  /\ overlapped' = (overlapped \/ \E b \in Writers \ {a} : Running(b))
  /\ commands < IF overlapped' THEN MaxTogether ELSE MaxCommands
  /\ imported' = IF cmd = "unimport" THEN imported \ {arg} ELSE imported
  /\ UNCHANGED <<config, mounted, exposed, env, faults, collected, api, seen>>

import_solution(a) == \E v \in Versions : Start(a, "import", v)
unimport_solution(a) == \E v \in Versions : Start(a, "unimport", v)
activate_command(a) == \E v \in Versions \cup {Latest} : Start(a, "activate", v)
deactivate_command(a) == Start(a, "deactivate", Nothing)
create_environment(a) == Start(a, "createEnv", Nothing)
delete_environment(a) == Start(a, "deleteEnv", Nothing)
add_solution(a) == \E v \in Versions : Start(a, "add", v)
delete_solution(a) == Start(a, "delete", Nothing)

Fail(a) == Goto(a, "failure") /\ UNCHANGED <<config, mounted, exposed, env, imported>>

(***************************************************************************)
(* The configuration file: read, changed in memory, truncated, written.      *)
(***************************************************************************)
\* Mutant: an import forgets the archives of the others.
configure_only(c, archive, removed) ==
  [c EXCEPT !.archives = IF removed THEN @ \ {archive} ELSE {archive}]

configure_archive(c, archive, removed) ==
  [c EXCEPT !.archives = IF removed THEN @ \ {archive} ELSE @ \cup {archive}]

CanActivate(v) ==
  /\ mounted # {}
  /\ v # Latest => v \in mounted

ReadConfig(a) ==
  LET j == job[a]
      create == j.cmd \in {"import", "unimport"}
      read == IF config.state = "missing" /\ create THEN EmptyConfig ELSE config
      new == CASE j.cmd = "import" -> configure_archive(read, j.arg, FALSE)
               [] j.cmd = "unimport" -> configure_archive(read, j.arg, TRUE)
               [] j.cmd = "activate" -> [read EXCEPT !.active = j.arg]
               [] j.cmd = "deactivate" -> [read EXCEPT !.active = Nothing]
  IN  /\ At(a, "start")
      /\ j.cmd \in {"import", "unimport", "activate", "deactivate"}
      /\ NoFault
      /\ IF /\ read.state = "good"
            /\ j.cmd = "activate" => CanActivate(j.arg)
         THEN /\ Become(a, [j EXCEPT !.cfg = new, !.pc = "truncate"])
              /\ config' = read
              /\ UNCHANGED <<mounted, exposed, env, imported>>
         ELSE Fail(a)
      /\ UNCHANGED <<adminVars, api, seen>>

Truncate(a) ==
  /\ At(a, "truncate")
  /\ config' = [config EXCEPT !.state = "torn"]
  /\ Goto(a, "dump")
  /\ UNCHANGED <<mounted, exposed, env, faults, imported, adminVars, api, seen>>

Dump(a) ==
  /\ At(a, "dump")
  /\ config' = job[a].cfg
  /\ Become(a, [job[a] EXCEPT !.cfg = None,
                   !.pc = IF job[a].cmd \in {"import", "unimport"} THEN "import" ELSE "deploy"])
  /\ UNCHANGED <<mounted, exposed, env, faults, imported, adminVars, api, seen>>

\* Every orchestration starts by compiling the pillar.
Compile(a, from, to) ==
  /\ At(a, from)
  /\ \E failing \in SUBSET Listings :
       LET p == _load_solutions(failing)
       IN  /\ IF failing = {} THEN NoFault ELSE Fault("list")
           /\ IF Broken(p) THEN Goto(a, "failure")
              ELSE Become(a, [job[a] EXCEPT !.pc = to, !.pillar = p])
  /\ UNCHANGED <<config, mounted, exposed, env, imported, adminVars, api, seen>>

(***************************************************************************)
(* import-components: mount what is configured, unmount what is not and is   *)
(* not active, write the ConfigMap, reconfigure the salt-master container.   *)
(***************************************************************************)
CompileImport(a) == Compile(a, "import", "mount")
CompilePublish(a) == Compile(a, "publish", "look")

Unwanted(p) == p.available \ p.config.archives

\* Mutant: active versions are removed as well.
RemovableActive(p) == Unwanted(p)

Removable(p) == Unwanted(p) \ p.active

Mount(a) ==
  LET p == job[a].pillar
      wanted == p.config.archives
  IN  /\ At(a, "mount")
      /\ \/ /\ ConfigGood(p) /\ ~p.availableErrors
            /\ NoFault
            /\ mounted' = (mounted \cup wanted) \ Removable(p)
            /\ Goto(a, IF Unwanted(p) \cap p.active = {} THEN "publish" ELSE "failure")
         \/ /\ ConfigGood(p) /\ ~p.availableErrors
            /\ Fault("mount")
            /\ \E some \in SUBSET wanted, gone \in SUBSET Removable(p) :
                 mounted' = (mounted \cup some) \ gone
            /\ Goto(a, "failure")
         \/ /\ ~ConfigGood(p) \/ p.availableErrors
            /\ NoFault
            /\ Goto(a, "failure")
            /\ UNCHANGED mounted
      /\ UNCHANGED <<config, exposed, env, imported, adminVars, api, seen>>

\* The static pod of the master gets a volume per available archive.
ConfigureMaster(a) ==
  /\ At(a, "master")
  /\ \/ /\ Readable /\ config.state # "torn"
        /\ NoFault
        /\ exposed' = mounted
        /\ Goto(a, "success")
        /\ imported' = IF job[a].cmd = "import" THEN imported \cup {job[a].arg} ELSE imported
     \/ /\ \/ ~Readable \/ config.state = "torn"
           \/ "master" \in Faults
        /\ IF Readable /\ config.state # "torn" THEN Fault("master") ELSE NoFault
        /\ Goto(a, "failure")
        /\ UNCHANGED <<exposed, imported>>
  /\ UNCHANGED <<config, mounted, env, adminVars, api, seen>>

(***************************************************************************)
(* addons/solutions/deployed/configmap.sls: the whole ConfigMap is put from  *)
(* the pillar, its errors included.                                          *)
(***************************************************************************)
FromPillar(p) ==
  [listed |-> p.available, active |-> p.active,
   flags |-> ~p.availableErrors, errors |-> p.availableErrors]

AfterPut(a, ok) ==
  LET deploying == job[a].cmd \in {"activate", "deactivate"}
      next == IF ~deploying THEN (IF ok THEN "master" ELSE "failure")
              ELSE IF Errors(job[a].pillar) THEN "failure" ELSE "crd"
  IN  Become(a, [job[a] EXCEPT !.pc = next, !.ok = @ /\ ok])

LookConfigMap(a) ==
  /\ At(a, "look")
  /\ \/ NoFault /\ Look(a, "configMap") /\ Goto(a, "put")
     \/ Fault("call") /\ Forget(a) /\ AfterPut(a, FALSE)
  /\ UNCHANGED <<config, mounted, exposed, env, imported, adminVars>>

PutConfigMap(a) ==
  /\ At(a, "put")
  /\ \/ NoFault /\ Put(a, FromPillar(job[a].pillar)) /\ AfterPut(a, TRUE)
     \/ NoFault /\ ~Accepted(a) /\ Forget(a) /\ AfterPut(a, FALSE)
     \/ Fault("call") /\ Forget(a) /\ AfterPut(a, FALSE)
  /\ UNCHANGED <<config, mounted, exposed, env, imported, adminVars>>

(***************************************************************************)
(* deploy-components: the CRDs of the desired version are put, or those of   *)
(* the active version removed; the file is read in the master container.     *)
(* Whatever became of them, the ConfigMap then gets its flags.               *)
(***************************************************************************)
CompileDeploy(a) == Compile(a, "deploy", "look")

Flagging(a, ok) == Become(a, [job[a] EXCEPT !.pc = "flags", !.ok = @ /\ ok])

\* The version whose CRDs are to be put or removed, if it is available.
CrdVersion(p) ==
  IF Desired(p) # Nothing THEN Desired(p)
  ELSE IF p.active = {} THEN Nothing ELSE Min(p.active)

Manipulated(p) == CrdVersion(p) \in p.available \cap exposed

LookCrd(a) ==
  LET p == job[a].pillar
  IN  /\ At(a, "crd")
      /\ \/ /\ NoFault
            /\ Manipulated(p)
            /\ Look(a, "crd")
            /\ Goto(a, "crdWrite")
         \/ /\ NoFault
            /\ ~Manipulated(p)
            /\ Forget(a)
            /\ Flagging(a, CrdVersion(p) = Nothing)
         \/ Fault("call") /\ Forget(a) /\ Flagging(a, FALSE)
      /\ UNCHANGED <<config, mounted, exposed, env, imported, adminVars>>

WriteCrd(a) ==
  LET present == Desired(job[a].pillar) # Nothing
  IN  /\ At(a, "crdWrite")
      /\ \/ NoFault /\ present /\ Put(a, CrdVersion(job[a].pillar)) /\ Flagging(a, TRUE)
         \/ NoFault /\ present /\ ~Accepted(a) /\ Forget(a) /\ Flagging(a, FALSE)
         \/ NoFault /\ ~present /\ Delete(a) /\ Flagging(a, TRUE)
         \/ Fault("call") /\ Forget(a) /\ Flagging(a, FALSE)
      /\ UNCHANGED <<config, mounted, exposed, env, imported, adminVars>>

\* Mutant: the flag of the version that was active is not cleared.
FlagsAdded(p) == list_active \cup ({Desired(p)} \cap p.available)

\* No version is flagged when none is wanted or the wanted one is not available.
Flags(p) == {Desired(p)} \cap p.available

\* Mutant: a failed state is swallowed.
EndedAnyway(a, ok) == "success"

Ended(a, ok) == IF job[a].ok /\ ok THEN "success" ELSE "failure"

UpdateFlags(a) ==
  LET p == job[a].pillar
      body == [Body("configMap") EXCEPT !.listed = p.available, !.flags = TRUE,
                                        !.active = Flags(p)]
  IN  /\ At(a, "flags")
      /\ \/ /\ NoFault
            /\ p.available # {}
            /\ Patch(a, "configMap", body)
            /\ Goto(a, Ended(a, TRUE))
         \/ /\ NoFault
            /\ p.available = {} \/ ~Exists("configMap")
            /\ Forget(a)
            /\ Goto(a, Ended(a, p.available = {}))
         \/ Fault("call") /\ Forget(a) /\ Goto(a, "failure")
      /\ UNCHANGED <<config, mounted, exposed, env, imported, adminVars>>

(***************************************************************************)
(* Environments.                                                             *)
(***************************************************************************)
CreateNamespace(a) ==
  /\ At(a, "start") /\ job[a].cmd = "createEnv"
  /\ \/ /\ NoFault
        /\ ~env.ns
        /\ env' = [env EXCEPT !.ns = TRUE]
        /\ Goto(a, "label")
     \/ /\ IF env.ns THEN NoFault ELSE Fault("call")
        /\ Goto(a, "failure")
        /\ UNCHANGED env
  /\ UNCHANGED <<config, mounted, exposed, imported, adminVars, api, seen>>

LabelNamespace(a) ==
  /\ At(a, "label")
  /\ \/ /\ NoFault
        /\ env.ns
        /\ env' = [env EXCEPT !.label = TRUE]
        /\ Goto(a, "configmap")
     \/ /\ IF ~env.ns THEN NoFault ELSE Fault("call")
        /\ Goto(a, "failure")
        /\ UNCHANGED env
  /\ UNCHANGED <<config, mounted, exposed, imported, adminVars, api, seen>>

CreateConfigMap(a) ==
  LET accepted == env.ns /\ env.data = None
  IN  /\ At(a, "configmap")
      /\ \/ /\ NoFault
            /\ accepted
            /\ env' = [env EXCEPT !.data = Nothing]
            /\ Goto(a, "success")
         \/ /\ IF ~accepted THEN NoFault ELSE Fault("call")
            /\ Goto(a, "failure")
            /\ UNCHANGED env
      /\ UNCHANGED <<config, mounted, exposed, imported, adminVars, api, seen>>

\* kubectl waits until the namespace and all it holds are gone.
DeleteNamespace(a) ==
  /\ At(a, "start") /\ job[a].cmd = "deleteEnv"
  /\ \/ /\ NoFault
        /\ env.ns /\ env.label
        /\ env' = NoEnv
        /\ api' = [o \in Objects |-> IF o \in Parts THEN None ELSE api[o]]
        /\ Goto(a, "success")
     \/ /\ IF ~(env.ns /\ env.label) THEN NoFault ELSE Fault("call")
        /\ Goto(a, "failure")
        /\ UNCHANGED <<env, api>>
  /\ UNCHANGED <<config, mounted, exposed, imported, adminVars, seen>>

\* check_namespace, and for an addition check_solution_exists.
check_solution(a) ==
  /\ env.ns /\ env.label
  /\ IF job[a].cmd = "add" THEN job[a].arg \in Listed
                            ELSE env.data \notin {None, Nothing}

CheckEnvironment(a) ==
  /\ At(a, "start") /\ job[a].cmd \in {"add", "delete"}
  /\ NoFault
  /\ Goto(a, IF check_solution(a) THEN "configure" ELSE "failure")
  /\ UNCHANGED <<config, mounted, exposed, env, imported, adminVars, api, seen>>

PatchEnvironment(a) ==
  LET present == env.ns /\ env.data # None /\ (job[a].cmd = "delete" => env.data # Nothing)
  IN  /\ At(a, "configure")
      /\ \/ /\ NoFault
            /\ present
            /\ env' = [env EXCEPT !.data = job[a].arg]
            /\ Goto(a, "prepare")
         \/ /\ IF ~present THEN NoFault ELSE Fault("call")
            /\ Goto(a, "failure")
            /\ UNCHANGED env
      /\ UNCHANGED <<config, mounted, exposed, imported, adminVars, api, seen>>

(***************************************************************************)
(* prepare-environment: the objects of the operator and of the UI for the    *)
(* version the ConfigMap of the namespace names, each after those it needs.  *)
(***************************************************************************)
CompilePrepare(a) == Compile(a, "prepare", "check")

CheckPillar(a) ==
  LET p == job[a].pillar
      version == p.environment.data
  IN  /\ At(a, "check")
      /\ NoFault
      /\ Goto(a, IF p.environmentErrors \/ ~p.environment.known THEN "failure"
                 ELSE IF version \in {None, Nothing} THEN "success"
                 ELSE IF version \in p.available THEN "apply" ELSE "failure")
      /\ UNCHANGED <<config, mounted, exposed, env, imported, adminVars, api, seen>>

\* Mutant: the binding does not wait for the role.
NeedsAccount(o) ==
  CASE o = "binding" -> {"account"}
    [] o = "operator" -> {"binding", "opConfig"}
    [] OTHER -> {}

Needs(o) ==
  CASE o = "binding" -> {"account", "role"}
    [] o = "operator" -> {"binding", "opConfig"}
    [] OTHER -> {}

PartOrder == <<"account", "role", "binding", "opConfig", "operator", "ui">>

Apply(a, o) ==
  LET j == job[a]
      tried == j.tried \cup {o}
      Applied(ok) ==
        Become(a, [j EXCEPT
                     !.tried = tried,
                     !.done = IF ok THEN @ \cup {o} ELSE @,
                     !.pc = IF tried # Parts THEN @
                            ELSE IF ok /\ j.done = Parts \ {o} THEN "success" ELSE "failure"])
  IN  /\ At(a, "apply")
      /\ o = PartOrder[Cardinality(j.tried) + 1]
      /\ \/ /\ NoFault
            /\ Needs(o) \subseteq j.done /\ env.ns
            /\ api' = [api EXCEPT ![o] = [body |-> j.pillar.environment.data, going |-> FALSE]]
            /\ Applied(TRUE)
         \/ /\ IF Needs(o) \subseteq j.done /\ env.ns THEN Fault("call") ELSE NoFault
            /\ Applied(FALSE)
            /\ UNCHANGED api
      /\ UNCHANGED <<config, mounted, exposed, env, imported, adminVars, seen>>

(***************************************************************************)
(* The process of a command is killed: nothing of what it did is undone.     *)
(***************************************************************************)
Kill(a) ==
  /\ Running(a)
  /\ Fault("kill")
  /\ Forget(a)
  /\ Goto(a, "failure")
  /\ UNCHANGED <<config, mounted, exposed, env, imported, adminVars>>

GarbageCollect ==
  /\ \E o \in Objects : Collect(o)
  /\ collected' = TRUE
  /\ UNCHANGED <<config, mounted, exposed, env, job, faults, commands, overlapped, imported>>

Command(a) ==
  \/ import_solution(a) \/ unimport_solution(a)
  \/ activate_command(a) \/ deactivate_command(a)
  \/ create_environment(a) \/ delete_environment(a)
  \/ add_solution(a) \/ delete_solution(a)

Step(a) ==
  \/ ReadConfig(a) \/ Truncate(a) \/ Dump(a)
  \/ CompileImport(a) \/ Mount(a) \/ CompilePublish(a) \/ ConfigureMaster(a)
  \/ LookConfigMap(a) \/ PutConfigMap(a)
  \/ CompileDeploy(a) \/ LookCrd(a) \/ WriteCrd(a) \/ UpdateFlags(a)
  \/ CreateNamespace(a) \/ LabelNamespace(a) \/ CreateConfigMap(a)
  \/ DeleteNamespace(a) \/ CheckEnvironment(a) \/ PatchEnvironment(a)
  \/ CompilePrepare(a) \/ CheckPillar(a) \/ \E o \in Parts : Apply(a, o)

Next == GarbageCollect \/ \E a \in Writers : Command(a) \/ Step(a) \/ Kill(a)

Spec == Init /\ [][Next]_vars

-----------------------------------------------------------------------------

Config == [state : {"missing", "torn", "good"}, archives : SUBSET Versions,
           active : Versions \cup {Nothing, Latest}]
Environment == [ns : BOOLEAN, label : BOOLEAN, data : Versions \cup {Nothing, None}]
Pillar == [config : Config, available : SUBSET Versions, availableErrors : BOOLEAN,
           active : SUBSET Versions, environmentErrors : BOOLEAN,
           environment : [known : BOOLEAN, data : Versions \cup {Nothing, None}]]

ConfigCommands == {"import", "unimport", "activate", "deactivate"}
Commands == ConfigCommands \cup {"createEnv", "deleteEnv", "add", "delete"}
Points == {"idle", "start", "truncate", "dump", "import", "mount", "publish", "look", "put",
           "master", "deploy", "crd", "crdWrite", "flags", "label", "configmap",
           "configure", "prepare", "check", "apply", "success"}
Job == [cmd : Commands \cup {"none"}, arg : Versions \cup {Nothing, Latest}, pc : Points,
        cfg : Config \cup {None}, pillar : Pillar \cup {None}, ok : BOOLEAN,
        tried : SUBSET Parts, done : SUBSET Parts]

\* What the API server holds of an object, and what a writer has read.
Published == [listed : SUBSET Versions, active : SUBSET Versions, flags : BOOLEAN, errors : BOOLEAN]
Stored(o) == [body : IF o = "configMap" THEN Published ELSE Versions, going : BOOLEAN]
Reading == [of : Objects, was : BOOLEAN, fresh : BOOLEAN]

ASSUME NoneAssumption ==
  None \notin Versions \cup {Nothing} \cup Reading \cup UNION {Stored(o) : o \in Objects}

\* Where a command is, it has what its next step uses.
JobFits(a) ==
  LET j == job[a]
      p == j.pillar
  IN  /\ j.cmd \in {"import", "unimport", "add"} => j.arg \in Versions
      /\ j.cmd = "activate" => j.arg \in Versions \cup {Latest}
      /\ j.cmd \in {"deactivate", "delete"} => j.arg = Nothing
      /\ j.pc = "idle" <=> j.cmd = "none"
      /\ j.pc \in {"truncate", "dump"} => j.cmd \in ConfigCommands /\ j.cfg \in Config
      /\ j.pc \in {"look", "put"} => j.cmd \in ConfigCommands
      /\ j.pc \in {"import", "mount", "publish", "master"} => j.cmd \in {"import", "unimport"}
      /\ j.pc \in {"deploy", "crd", "crdWrite", "flags"} => j.cmd \in {"activate", "deactivate"}
      /\ j.pc \in {"label", "configmap"} => j.cmd = "createEnv"
      /\ j.pc \in {"configure", "prepare", "check", "apply"} => j.cmd \in {"add", "delete"}
      /\ j.pc \in {"mount", "look", "put", "crd", "crdWrite", "flags", "check", "apply"} =>
           p \in Pillar
      /\ j.pc = "put" => seen[a] # None /\ seen[a].of = "configMap"
      /\ j.pc = "crdWrite" =>
           seen[a] # None /\ seen[a].of = "crd" /\ CrdVersion(p) \in p.available
      /\ j.pc = "apply" => p.environment.data \in Versions
      /\ j.pc \in {"start", "configure", "prepare", "check"} => j.done = {}

ObjectsOK ==
  /\ DOMAIN api = Objects /\ \A o \in Objects : api[o] \in {None} \cup Stored(o)
  /\ \A o \in Objects \ {"crd"} : Exists(o) => ~api[o].going
  /\ seen \in [Writers -> {None} \cup Reading]

TypeOK ==
  /\ config \in Config /\ env \in Environment
  /\ mounted \subseteq Versions /\ exposed \subseteq Versions /\ imported \subseteq Versions
  /\ commands \in Nat /\ faults \in Nat /\ overlapped \in BOOLEAN /\ collected \in BOOLEAN
  /\ ObjectsOK
  /\ job \in [Writers -> Job] /\ \A a \in Writers : JobFits(a)

(***************************************************************************)
(* docs/operation/solutions.rst: only one version is active at any time.     *)
(* This survives two administrators, kills and failed calls: every writer    *)
(* writes the flags of all the versions at once.                             *)
(***************************************************************************)
OneActiveVersion == Cardinality(list_active) <= 1

(***************************************************************************)
(* With one command at a time, killed or failing as it may, the archive of   *)
(* the active version stays mounted: it is unmounted only if it is neither   *)
(* configured nor active according to the ConfigMap that the activation      *)
(* writes last and the deactivation clears last.                             *)
(***************************************************************************)
ActiveIsMounted == ~overlapped => list_active \subseteq mounted

(***************************************************************************)
(* With one command at a time, an archive whose import succeeded remains     *)
(* configured, as long as the file can be read, and mounted, whatever fails  *)
(* in the commands about other archives.                                     *)
(***************************************************************************)
ImportedStays ==
  ~overlapped =>
    /\ imported \subseteq mounted
    /\ config.state = "good" => imported \subseteq config.archives

(***************************************************************************)
(* With one command at a time, a command that exits with success has done    *)
(* what it is for: no failed state or call on the way is swallowed.  CRDs    *)
(* that were put while an earlier deactivation was still removing them go.   *)
(***************************************************************************)
SuccessIsReal ==
  \A a \in Writers : ~overlapped =>
    /\ Succeeded(a, "import") => job[a].arg \in mounted \cap exposed \cap Listed
    /\ Succeeded(a, "unimport") => job[a].arg \notin mounted \cup exposed \cup Listed
    /\ Succeeded(a, "activate") =>
         /\ list_active = {IF job[a].arg = Latest THEN Max(mounted) ELSE job[a].arg}
         /\ ~collected => Exists("crd") /\ Body("crd") \in list_active
    /\ Succeeded(a, "deactivate") => list_active = {}
    /\ Succeeded(a, "add") =>
         \A o \in Parts : Exists(o) /\ Body(o) = job[a].arg

(***************************************************************************)
(* With one command at a time, the Deployment of an operator is put at a     *)
(* version only behind its account, role, binding and configuration at that  *)
(* version, whichever of the earlier calls failed.                           *)
(***************************************************************************)
OperatorBehindRights ==
  [][\A v \in Versions :
       /\ ~overlapped
       /\ api'["operator"] # None /\ api'["operator"] # api["operator"]
       /\ api'["operator"].body = v
       => \A o \in Operator \ {"operator"} : Exists(o) /\ Body(o) = v]_vars
=============================================================================
