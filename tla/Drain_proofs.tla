---------------------------- MODULE Drain_proofs ----------------------------
(***************************************************************************)
(* Proofs about Drain, for any pods, any budget and any number of failed      *)
(* calls: what has succeeded has emptied the node, and nothing is evicted     *)
(* next to a pod that the options protect.                                    *)
(***************************************************************************)
EXTENDS Drain, TLAPS

\* What is known of the pods whose names are in use.
Shape ==
  /\ pod \in [Pods -> [uid : Nat, here : BOOLEAN, deleting : BOOLEAN, ended : BOOLEAN]]
  /\ born \in [Pods -> Nat]

Moved(p) == kind[p].of \notin {"mirror", "daemon"}
Listed(p) == [name |-> p, uid |-> pod[p].uid]

\* From the listing on, a pod that is to leave a cordoned node is waited for,
\* under the uid that it has now: no other pod of its name can take its place.
AllWaitedFor ==
  step \in {"evict", "wait", "done"} /\ cordoned =>
    \A p \in OnNode : Moved(p) => Listed(p) \in pending

DoneWaiting == step = "done" => pending = {}

IInv == Shape /\ AllWaitedFor /\ DoneWaiting /\ AllOrNothing

-----------------------------------------------------------------------------
(* What each part of the cluster may do to the pods. *)

\* A pod that a drain moves is the one that was there before, unless the node
\* is not cordoned.
Keeps ==
  cordoned' => \A p \in OnNode' :
    kind[p].of # "daemon" =>
      p \in OnNode /\ pod'[p].uid = pod[p].uid /\ pod'[p].ended = pod[p].ended

LEMMA DeleteKeeps ==
  ASSUME Shape, NEW p \in Pods, Delete(p), UNCHANGED <<kind, born>>
  PROVE  Keeps /\ Shape'
BY DEF Shape, Delete, Keeps, OnNode, There

LEMMA TerminateKeeps ==
  ASSUME Shape, NEW p \in Pods, Terminate(p)
  PROVE  Keeps /\ Shape'
BY DEF Shape, Terminate, NoPod, Keeps, OnNode, There, fixed

LEMMA RecreateKeeps ==
  ASSUME Shape, NEW p \in Pods, Recreate(p)
  PROVE  Keeps /\ Shape'
<1>1. PICK here \in BOOLEAN :
        /\ here => ~cordoned \/ kind[p].of = "daemon"
        /\ pod' = [pod EXCEPT ![p] = [uid |-> born[p] + 1, here |-> here,
                                      deleting |-> FALSE, ended |-> FALSE]]
  BY DEF Recreate
<1>2. Shape'
  BY <1>1 DEF Shape, Recreate
<1>3. ASSUME cordoned', NEW q \in OnNode', kind[q].of # "daemon"
      PROVE  q \in OnNode /\ pod'[q].uid = pod[q].uid /\ pod'[q].ended = pod[q].ended
  <2>1. cordoned /\ q \in Pods
    BY <1>3 DEF Recreate, OnNode
  <2>2. q # p
    BY <1>1, <1>3, <2>1 DEF OnNode, There, Shape
  <2> QED BY <1>1, <1>3, <2>1, <2>2 DEF OnNode, There, Shape
<1> QED BY <1>2, <1>3 DEF Keeps

\* The invariant is kept by what only touches pods in that way.
LEMMA KeepsInv ==
  ASSUME IInv, Keeps, Shape', UNCHANGED <<opt, kind, step, pending>>, cordoned' => cordoned
  PROVE  IInv'
<1>1. AllWaitedFor'
  BY DEF IInv, AllWaitedFor, Keeps, Moved, Listed
<1>2. DoneWaiting'
  BY DEF IInv, DoneWaiting
<1>3. AllOrNothing'
  <2> SUFFICES ASSUME step' \in {"evict", "wait"}, cordoned', NEW p \in OnNode'
               PROVE  /\ kind[p].of # "daemon" /\ kind[p].local => opt.delete_local_data
                      /\ kind[p].of = "daemonOrphan" => opt.force
                      /\ kind[p].of = "orphan" /\ ~pod'[p].ended => opt.force
                      /\ kind[p].of = "alien" => pod'[p].ended
    BY DEF AllOrNothing
  <2>1. CASE kind[p].of = "daemon"
    BY <2>1
  <2>2. CASE kind[p].of # "daemon"
    BY <2>2 DEF IInv, AllOrNothing, Keeps
  <2> QED BY <2>1, <2>2
<1> QED BY <1>1, <1>2, <1>3 DEF IInv

\* Neither an eviction nor a wait is under way after the step.
LEMMA ElsewhereInv ==
  ASSUME IInv, UNCHANGED <<pod, born>>, step' \notin {"evict", "wait", "done"}
  PROVE  IInv'
BY DEF IInv, Shape, AllWaitedFor, DoneWaiting, AllOrNothing

-----------------------------------------------------------------------------
\* get_pods_for_eviction: no pod of the node is fatal, and the others are taken.
LEMMA ListInv == IInv /\ List => IInv'
<1> SUFFICES ASSUME IInv, List PROVE IInv'
  OBVIOUS
<1>1. CASE step' # "evict"
  BY <1>1, ElsewhereInv DEF List
<1>2. CASE step' = "evict"
  <2>1. /\ \A p \in OnNode : ~Fatal(p)
        /\ pending' = {Listed(p) : p \in {q \in OnNode : ~LeftAlone(q)}}
        /\ UNCHANGED <<opt, kind, pod, born, cordoned>>
    BY <1>2 DEF List, Listed, fixed
  <2>2. \A p : Moved(p) => ~LeftAlone(p)
    BY DEF Moved, LeftAlone, ControllerOf, ControllerExists
  <2>3. AllWaitedFor'
    BY <2>1, <2>2 DEF AllWaitedFor, Moved, Listed, OnNode, There
  <2>4. ASSUME NEW p \in OnNode
        PROVE  /\ kind[p].of # "daemon" /\ kind[p].local => opt.delete_local_data
               /\ kind[p].of = "daemonOrphan" => opt.force
               /\ kind[p].of = "orphan" /\ ~pod[p].ended => opt.force
               /\ kind[p].of = "alien" => pod[p].ended
    <3>1. ~LocalStorageFatal(p) /\ ~UnreplicatedFatal(p) /\ ~DaemonsetFatal(p) /\ ~LookupRaises(p)
      BY <2>1 DEF Fatal
    <3>2. kind[p].local => opt.delete_local_data
      BY <3>1 DEF LocalStorageFatal, HasLocalStorage
    <3>3. kind[p].of = "daemonOrphan" => opt.force
      BY <3>1 DEF DaemonsetFatal, ControllerOf, ControllerExists
    <3>4. kind[p].of = "orphan" /\ ~pod[p].ended => opt.force
      BY <3>1 DEF UnreplicatedFatal, MissingController, ControllerOf, ControllerExists
    <3>5. kind[p].of = "alien" => pod[p].ended
      BY <3>1 DEF LookupRaises
    <3> QED BY <3>2, <3>3, <3>4, <3>5
  <2>5. AllOrNothing'
    BY <2>1, <2>4 DEF AllOrNothing, OnNode, There
  <2>6. Shape' /\ DoneWaiting'
    BY <1>2, <2>1 DEF IInv, Shape, DoneWaiting
  <2> QED BY <2>3, <2>5, <2>6 DEF IInv
<1> QED BY <1>1, <1>2

\* evict_pod changes at most that a pod is being deleted.
LEMMA EvictInv ==
  ASSUME IInv, NEW r \in todo, Evict(r)
  PROVE  IInv'
<1>1. CASE UNCHANGED pod
  <2>1. Keeps /\ Shape'
    BY <1>1 DEF Evict, fixed, IInv, Shape, Keeps, OnNode, There
  <2> QED BY <2>1, KeepsInv DEF Evict, fixed
<1>2. CASE There(r.name) /\ Delete(r.name)
  <2>1. CASE r.name \in Pods
    <3>1. Keeps /\ Shape'
      BY <1>2, <2>1, DeleteKeeps DEF Evict, fixed, IInv
    <3> QED BY <3>1, KeepsInv DEF Evict, fixed
  <2>2. CASE r.name \notin Pods
    <3>1. pod' = pod
      BY <1>2, <2>2 DEF Delete, IInv, Shape
    <3> QED BY <1>1, <3>1
  <2> QED BY <2>1, <2>2
<1> QED BY <1>1, <1>2 DEF Evict

\* wait_for_eviction drops from the list only pods that are not there any more.
LEMMA WaitInv == IInv /\ Wait => IInv'
<1> SUFFICES ASSUME IInv, Wait PROVE IInv'
  OBVIOUS
<1>1. /\ step = "wait" /\ step' \in {"wait", "done"} /\ (step' = "done" => pending' = {})
      /\ pending' = {r \in pending : ~Gone(r)}
      /\ UNCHANGED <<opt, kind, pod, born, cordoned>>
  BY DEF Wait, fixed
<1>2. \A p : ~Gone(Listed(p))
  BY DEF Gone, Listed
<1>3. AllWaitedFor'
  BY <1>1, <1>2 DEF IInv, AllWaitedFor, Moved, Listed, OnNode, There
<1>4. Shape' /\ DoneWaiting' /\ AllOrNothing'
  BY <1>1 DEF IInv, Shape, DoneWaiting, AllOrNothing, OnNode, There
<1> QED BY <1>3, <1>4 DEF IInv

-----------------------------------------------------------------------------
LEMMA InitInv == Init => IInv
<1> SUFFICES ASSUME Init PROVE IInv
  OBVIOUS
<1>1. Shape
  <2>1. born \in [Pods -> Nat]
    BY DEF Init
  <2>2. [uid : {1}, here : BOOLEAN, deleting : {FALSE}, ended : BOOLEAN]
          \subseteq [uid : Nat, here : BOOLEAN, deleting : BOOLEAN, ended : BOOLEAN]
    <3>1. {1} \subseteq Nat /\ {FALSE} \subseteq BOOLEAN
      OBVIOUS
    <3>2. \A N, B : N \subseteq Nat /\ B \subseteq BOOLEAN =>
            [uid : N, here : BOOLEAN, deleting : B, ended : BOOLEAN]
              \subseteq [uid : Nat, here : BOOLEAN, deleting : BOOLEAN, ended : BOOLEAN]
      OBVIOUS
    <3> QED BY <3>1, <3>2
  <2>3. pod \in [Pods -> [uid : {1}, here : BOOLEAN, deleting : {FALSE}, ended : BOOLEAN]]
    BY DEF Init
  <2>4. pod \in [Pods -> [uid : Nat, here : BOOLEAN, deleting : BOOLEAN, ended : BOOLEAN]]
    BY <2>2, <2>3
  <2> QED BY <2>1, <2>4 DEF Shape
<1>2. AllWaitedFor /\ DoneWaiting /\ AllOrNothing
  BY DEF Init, AllWaitedFor, DoneWaiting, AllOrNothing
<1> QED BY <1>1, <1>2 DEF IInv

LEMMA NextInv == IInv /\ [Next]_vars => IInv'
<1> SUFFICES ASSUME IInv, [Next]_vars PROVE IInv'
  OBVIOUS
<1>1. CASE NodeCordoned \/ Cordon
  BY <1>1, ElsewhereInv DEF NodeCordoned, Cordon, Look, Patch
<1>2. CASE NodeUncordoned
  BY <1>2, ElsewhereInv DEF NodeUncordoned, Look, Patch
<1>3. CASE List
  BY <1>3, ListInv
<1>4. CASE \E r \in todo : Evict(r)
  BY <1>4, EvictInv
<1>5. CASE StartWait
  BY <1>5 DEF StartWait, fixed, IInv, Shape, AllWaitedFor, DoneWaiting, AllOrNothing,
              Moved, Listed, OnNode, There
<1>6. CASE Wait
  BY <1>6, WaitInv
<1>7. CASE Timeout \/ CallFails
  BY <1>7, ElsewhereInv DEF Timeout, CallFails
<1>8. CASE UserUncordon
  <2>1. Keeps /\ Shape' /\ ~cordoned'
    BY <1>8 DEF UserUncordon, IInv, Shape, Keeps
  <2> QED BY <1>8, <2>1, KeepsInv DEF UserUncordon, fixed, drain
<1>9. ASSUME NEW p \in Pods, Terminate(p) PROVE IInv'
  BY <1>9, TerminateKeeps, KeepsInv DEF IInv, Terminate, fixed, drain
<1>10. ASSUME NEW p \in Pods, Recreate(p) PROVE IInv'
  BY <1>10, RecreateKeeps, KeepsInv DEF IInv, Recreate, fixed, drain
<1>11. ASSUME NEW p \in Pods, UserDelete(p) PROVE IInv'
  BY <1>11, DeleteKeeps, KeepsInv DEF IInv, UserDelete, fixed, drain
<1>12. CASE UNCHANGED vars
  <2>1. Keeps /\ Shape'
    BY <1>12 DEF vars, IInv, Shape, Keeps, OnNode, There
  <2> QED BY <1>12, <2>1, KeepsInv DEF vars
<1> QED
  BY <1>1, <1>2, <1>3, <1>4, <1>5, <1>6, <1>7, <1>8, <1>9, <1>10, <1>11, <1>12
  DEF Next, Drainer

LEMMA Invariance == Spec => []IInv
BY InitInv, NextInv, PTL DEF Spec

\* run_drain and wait_for_eviction: a drain that succeeds on a node that nobody
\* uncordoned leaves no pod there that a drain moves, whoever deletes pods and
\* makes them again meanwhile, under whatever names.
THEOREM DrainedIsEmpty == Spec => []DrainedMeansEmpty
<1>1. IInv => DrainedMeansEmpty
  BY DEF IInv, AllWaitedFor, DoneWaiting, DrainedMeansEmpty, Moved
<1> QED BY <1>1, Invariance, PTL

\* get_pods_for_eviction: while pods are evicted from a cordoned node, none is
\* on it that the options protect.
THEOREM AllOrNothingIsEvicted == Spec => []AllOrNothing
<1>1. IInv => AllOrNothing
  BY DEF IInv
<1> QED BY <1>1, Invariance, PTL
=============================================================================
