-------------------------------- MODULE Drain --------------------------------
(***************************************************************************)
(* The drain of a node (salt/_modules/metalk8s_drain.py), as the salt      *)
(* master runs it when it deploys, upgrades or downgrades a node: cordon,  *)
(* list the pods of the node, decide whether all of them may go, evict     *)
(* them one after the other, wait until they are gone, and uncordon when   *)
(* the node has been deployed.  Meanwhile users delete pods, the kubelet   *)
(* ends them, and their controllers make new ones under the same names (as *)
(* a StatefulSet does) wherever the scheduler finds room.                  *)
(*                                                                         *)
(* Left out: test mode, grace periods, and the taints that uncordoning     *)
(* reads and writes back.                                                  *)
(***************************************************************************)
EXTENDS Naturals, FiniteSets

CONSTANTS
  Pods,             \* names of pods
  Kinds,            \* kinds of pods that run on the node
  MaxUid,           \* how many pods of one name there are at most
  MinAvailable,     \* disruption budget of the managed pods
  Users,            \* what users do meanwhile
  MaxFaults         \* how many API calls fail at most

\* A pod is "managed" by a controller or of a DaemonSet, an "orphan" of
\* either (the controller is gone), "alien" when its controller is of a kind
\* that get_kind_info does not know (a Job, a custom resource), a "mirror" of a
\* static pod or "bare".
AllKinds ==
  {"managed", "orphan", "daemon", "daemonOrphan", "alien", "mirror", "bare"}
ASSUME KindAssumption == Kinds \subseteq AllKinds
ASSUME BoundAssumption ==
  MaxUid \in Nat \ {0} /\ MinAvailable \in Nat /\ MaxFaults \in Nat
ASSUME UserAssumption == Users \subseteq {"delete", "uncordon"}

VARIABLES
  opt,        \* options of the drain; `timeout' tells whether there is one
  kind,       \* kind of each pod, and whether it has local storage
  pod,        \* the pods in the API server, by name; uid 0 if there is none
  born,       \* uid of the last pod of each name
  cordoned,   \* whether the node is unschedulable
  step,       \* where the drain is
  todo,       \* listed pods (name and uid) that are still to be evicted
  pending,    \* evicted pods that are waited for
  current,    \* the pod whose eviction is being retried, if any
  faults

fixed == <<opt, kind>>
vars == <<opt, kind, pod, born, cordoned, step, todo, pending, current, faults>>
drain == <<step, todo, pending, current>>

Options == [force : BOOLEAN, ignore_daemonset : BOOLEAN,
            delete_local_data : BOOLEAN, timeout : BOOLEAN]

Ended == {"prepared", "failed", "finished"}
Steps == {"look", "mark", "cordon", "list", "evict", "wait", "done", "uncordon"}
           \cup Ended

Pod == [uid : 0..MaxUid, here : BOOLEAN, deleting : BOOLEAN, ended : BOOLEAN]
Ref == [name : Pods, uid : 1..MaxUid]

TypeOK ==
  /\ opt \in Options
  /\ kind \in [Pods -> [of : Kinds, local : BOOLEAN]]
  /\ pod \in [Pods -> Pod] /\ born \in [Pods -> 0..MaxUid]
  /\ cordoned \in BOOLEAN
  /\ step \in Steps
  /\ todo \subseteq Ref /\ pending \subseteq Ref
  /\ current \subseteq Pods /\ Cardinality(current) <= 1
  /\ faults \in 0..MaxFaults

There(p) == pod[p].uid # 0
OnNode   == {p \in Pods : There(p) /\ pod[p].here}

-----------------------------------------------------------------------------
(* The filters: which pods forbid the drain, which ones it leaves alone.   *)

HasLocalStorage(p) == kind[p].local

\* The controller that the metadata of the pod names, and whether it exists.
ControllerOf(p) ==
  CASE kind[p].of \in {"daemon", "daemonOrphan"} -> "DaemonSet"
    [] kind[p].of \in {"managed", "orphan", "alien"} -> "other"
    [] OTHER -> "none"
ControllerExists(p) == kind[p].of \in {"managed", "daemon", "alien"}
MissingController(p) == ControllerOf(p) # "none" /\ ~ControllerExists(p)

\* The look-up of a controller of an unknown kind raises, whatever the options.
LookupRaises(p) == kind[p].of = "alien" /\ ~pod[p].ended

LocalStorageFatal(p) == HasLocalStorage(p) /\ ~opt.delete_local_data

\* A pod whose controller is gone needs `force', unless it has ended.
UnreplicatedFatal(p) == ~pod[p].ended /\ MissingController(p) /\ ~opt.force

DaemonsetFatal(p) ==
  /\ ControllerOf(p) = "DaemonSet"
  /\ ~IF ControllerExists(p) THEN opt.ignore_daemonset ELSE opt.force

Fatal(p) ==
  \/ LocalStorageFatal(p) \/ UnreplicatedFatal(p) \/ DaemonsetFatal(p)
  \/ LookupRaises(p)

LeftAlone(p) ==
  \/ kind[p].of = "mirror"
  \/ ControllerOf(p) = "DaemonSet" /\ ControllerExists(p)

-----------------------------------------------------------------------------
(* The states node_cordoned, node_drained (node_drain, run_drain) and      *)
(* node_uncordoned.  The first and the last one read the node and write    *)
(* only if it is not yet as it should be; node_drain cordons regardless.   *)

Fault == faults < MaxFaults /\ faults' = faults + 1

Look(unschedulable, from, already, write) ==
  /\ step = from
  /\ step' = IF cordoned = unschedulable THEN already ELSE write
  /\ UNCHANGED <<fixed, born, pod, cordoned, todo, pending, current, faults>>

Patch(unschedulable, from, to) ==
  /\ step = from
  /\ cordoned' = unschedulable /\ step' = to
  /\ UNCHANGED <<fixed, born, pod, todo, pending, current, faults>>

NodeCordoned == Look(TRUE, "look", "cordon", "mark") \/ Patch(TRUE, "mark", "cordon")

NodeUncordoned ==
  Look(FALSE, "done", "finished", "uncordon") \/ Patch(FALSE, "uncordon", "finished")

Cordon == Patch(TRUE, "cordon", "list")

\* Mutant: the pods that may go are evicted whatever the others are.
ListSome ==
  /\ step = "list"
  /\ todo' = {[name |-> p, uid |-> pod[p].uid] :
                p \in {q \in OnNode : ~LeftAlone(q) /\ ~Fatal(q)}}
  /\ pending' = todo' /\ step' = "evict"
  /\ UNCHANGED <<fixed, born, pod, cordoned, current, faults>>

\* get_pods_for_eviction: all the pods of the node or none; a dry run ends here.
List ==
  /\ step = "list"
  /\ \/ /\ \E p \in OnNode : Fatal(p)
        /\ step' = "failed" /\ UNCHANGED <<todo, pending>>
     \/ /\ ~\E p \in OnNode : Fatal(p)
        /\ step' = "prepared" /\ UNCHANGED <<todo, pending>>
     \/ /\ ~\E p \in OnNode : Fatal(p)
        /\ step' = "evict"
        /\ todo' = {[name |-> p, uid |-> pod[p].uid] :
                      p \in {q \in OnNode : ~LeftAlone(q)}}
        /\ pending' = todo'
  /\ UNCHANGED <<fixed, born, pod, cordoned, current, faults>>

\* What the disruption budget of the managed pods allows.
Available == {p \in Pods : /\ There(p) /\ ~pod[p].deleting /\ ~pod[p].ended
                           /\ kind[p].of = "managed"}
BudgetAllows(p) == p \in Available => Cardinality(Available) > MinAvailable

Delete(p) == pod' = [pod EXCEPT ![p].deleting = TRUE]

\* The pod being retried comes before all others.
Turn(r) == current \subseteq {r.name}

\* evict_pod, for one pod until it succeeds: the eviction is by name, there
\* is nothing to do if no pod has that name (404), and it is to be retried if
\* the budget does not allow it now (429).
Evict(r) ==
  /\ step = "evict" /\ r \in todo
  /\ Turn(r)
  /\ \/ /\ ~There(r.name)
        /\ todo' = todo \ {r} /\ current' = {} /\ UNCHANGED pod
     \/ /\ There(r.name) /\ ~BudgetAllows(r.name)
        /\ current' = current \cup {r.name} /\ UNCHANGED <<todo, pod>>
     \/ /\ There(r.name) /\ BudgetAllows(r.name)
        /\ Delete(r.name)
        /\ todo' = todo \ {r} /\ current' = {}
  /\ UNCHANGED <<fixed, born, cordoned, step, pending, faults>>

StartWait ==
  /\ step = "evict" /\ todo = {}
  /\ step' = "wait"
  /\ UNCHANGED <<fixed, born, pod, cordoned, todo, pending, current, faults>>

\* Mutant: a pod that is being deleted is taken for gone.
GoneDeleting(r) == pod[r.name].uid # r.uid \/ pod[r.name].deleting
\* Mutant: a pod is waited for by its name.
GoneByName(r) == ~There(r.name)
Gone(r) == pod[r.name].uid # r.uid

\* One round of wait_for_eviction, as one step: what is gone stays gone.
Wait ==
  /\ step = "wait"
  /\ pending' = {r \in pending : ~Gone(r)}
  /\ step' = IF pending' = {} THEN "done" ELSE "wait"
  /\ UNCHANGED <<fixed, born, pod, cordoned, todo, current, faults>>

\* A call to the API server fails: CommandExecutionError.
CallFails ==
  /\ Fault
  /\ step \notin Ended
  /\ step' = "failed"
  /\ UNCHANGED <<fixed, born, pod, cordoned, todo, pending, current>>

Timeout ==
  /\ opt.timeout
  /\ step \in {"evict", "wait"}
  /\ step' = "failed"
  /\ UNCHANGED <<fixed, born, pod, cordoned, todo, pending, current, faults>>

-----------------------------------------------------------------------------
(* The rest of the cluster. *)

NoPod == [uid |-> 0, here |-> FALSE, deleting |-> FALSE, ended |-> FALSE]

\* The kubelet ends a pod that is being deleted.
Terminate(p) ==
  /\ There(p) /\ pod[p].deleting
  /\ pod' = [pod EXCEPT ![p] = NoPod]
  /\ UNCHANGED <<fixed, born, cordoned, drain, faults>>

\* A controller makes the pod again: a DaemonSet on this node, another one
\* where the scheduler finds room.
Recreate(p) ==
  /\ ~There(p) /\ kind[p].of \in {"managed", "daemon"}
  /\ born[p] < MaxUid
  /\ born' = [born EXCEPT ![p] = @ + 1]
  /\ \E here \in BOOLEAN :
       /\ here => ~cordoned \/ kind[p].of = "daemon"
       /\ kind[p].of = "daemon" => here
       /\ pod' = [pod EXCEPT ![p] = [uid |-> born[p] + 1, here |-> here,
                                     deleting |-> FALSE, ended |-> FALSE]]
  /\ UNCHANGED <<fixed, cordoned, drain, faults>>

UserDelete(p) ==
  /\ "delete" \in Users
  /\ There(p) /\ ~pod[p].deleting /\ kind[p].of # "mirror"
  /\ Delete(p)
  /\ UNCHANGED <<fixed, born, cordoned, drain, faults>>

UserUncordon ==
  /\ "uncordon" \in Users
  /\ cordoned /\ cordoned' = FALSE
  /\ UNCHANGED <<fixed, pod, born, drain, faults>>

-----------------------------------------------------------------------------
Init ==
  /\ opt \in Options
  /\ kind \in [Pods -> [of : Kinds, local : BOOLEAN]]
  /\ born = [p \in Pods |-> 1]
  /\ pod \in [Pods -> [uid : {1}, here : BOOLEAN, deleting : {FALSE},
                       ended : BOOLEAN]]
  /\ \A p \in Pods :
       /\ ~pod[p].here => kind[p].of = "managed"
       /\ pod[p].ended => kind[p].of \in {"orphan", "daemonOrphan", "alien", "bare"}
  \* An option that matters to no pod of the instance has its default.
  /\ opt.delete_local_data => \E p \in Pods : kind[p].local
  /\ opt.force => \E p \in Pods : kind[p].of \in {"orphan", "daemonOrphan"}
  /\ opt.ignore_daemonset => \E p \in Pods : kind[p].of = "daemon"
  /\ cordoned = FALSE /\ step = "look"
  /\ todo = {} /\ pending = {} /\ current = {} /\ faults = 0

Drainer ==
  \/ NodeCordoned \/ Cordon \/ List \/ StartWait \/ Wait \/ Timeout \/ NodeUncordoned
  \/ \E r \in todo : Evict(r)

Next ==
  \/ Drainer \/ CallFails \/ UserUncordon
  \/ \E p \in Pods : Terminate(p) \/ Recreate(p) \/ UserDelete(p)

Spec == Init /\ [][Next]_vars

-----------------------------------------------------------------------------
(* Properties. *)

\* When the drain has succeeded and nobody has uncordoned the node, no pod that
\* a drain moves is on it any more, the ones that users deleted and controllers
\* made again since the listing included.
DrainedMeansEmpty ==
  step = "done" /\ cordoned => \A p \in OnNode : kind[p].of \in {"mirror", "daemon"}

\* "evict the pod if and only if all pods on the node are evictable": nothing
\* is evicted from a node that has a pod the options protect, unless that pod
\* appeared since the listing (one of a DaemonSet, or on an uncordoned node).
\* Bare pods, without a controller, are not among those that are protected: the code and
\* its tests evict them without `force', although the docstring
\* (metalk8s_drain.py:197-198) says that it takes this option.
AllOrNothing ==
  step \in {"evict", "wait"} /\ cordoned =>
    \A p \in OnNode :
      /\ kind[p].of # "daemon" /\ kind[p].local => opt.delete_local_data
      /\ kind[p].of = "daemonOrphan" => opt.force
      /\ kind[p].of = "orphan" /\ ~pod[p].ended => opt.force
      /\ kind[p].of = "alien" => pod[p].ended

-----------------------------------------------------------------------------
(* Liveness: the drain goes on, pods that are deleted end, and controllers *)
(* make them again.                                                        *)
LiveSpec ==
  /\ Spec
  /\ WF_vars(NodeCordoned \/ Cordon \/ List \/ StartWait \/ Wait \/ NodeUncordoned
              \/ \E r \in todo : Evict(r))
  /\ \A p \in Pods : WF_vars(Terminate(p)) /\ WF_vars(Recreate(p))

\* The budget can be kept while one pod of it is being replaced.
Replaceable == Cardinality({p \in Pods : kind[p].of = "managed"}) \notin 1..MinAvailable

\* A replacement is always made: the bound on pods of one name is not reached.
Replaced == \A p \in Pods : kind[p].of = "managed" /\ ~There(p) => born[p] < MaxUid

\* Without a timeout, the drain ends because other pods take over, so that the
\* budget allows the next eviction, although pods come back under the names
\* of those that are waited for and users delete some meanwhile.
DrainEnds == Replaceable /\ []Replaced => <>(step \in Ended)
=============================================================================
