-------------------------- MODULE VolumeLifecycle --------------------------
(***************************************************************************)
(* What the storage operator promises about one Volume object, the offer   *)
(* it makes of it (the PersistentVolume claims can use) and the storage on *)
(* the node (storage-operator/pkg/controller/volume/volume_controller.go). *)
(* How it is done, with a work queue, finalizers and Salt jobs, is in      *)
(* VolumeController, which implements this specification.                  *)
(***************************************************************************)
CONSTANT Volumes

VARIABLES
  object,   \* the Volume object: "none", "live" or "deleting"
  offer,    \* "none", "open" to claims, or "closed" (deleted and unclaimed)
  storage   \* what is on the node: "ready", "dirty", or "raw" for nothing at
            \* all or nothing that a removal which reported success found

vars == <<object, offer, storage>>

Init ==
  /\ object = [v \in Volumes |-> "none"]
  /\ offer = [v \in Volumes |-> "none"]
  /\ storage = [v \in Volumes |-> "raw"]

Set(f, v, x) == f' = [f EXCEPT ![v] = x]

Create(v) ==
  /\ object[v] = "none"
  /\ Set(object, v, "live") /\ UNCHANGED <<offer, storage>>

Delete(v) ==
  /\ object[v] = "live"
  /\ Set(object, v, "deleting") /\ UNCHANGED <<offer, storage>>

\* Only with its offer taken back and its storage reclaimed may it go.
Forget(v) ==
  /\ object[v] # "none" /\ offer[v] = "none" /\ storage[v] = "raw"
  /\ Set(object, v, "none") /\ UNCHANGED <<offer, storage>>

\* The storage may go through anything on its way to be ready.
Provision(v) ==
  /\ object[v] # "none" /\ offer[v] = "none" /\ storage[v] # "ready"
  /\ \E s \in {"dirty", "ready"} : Set(storage, v, s)
  /\ UNCHANGED <<object, offer>>

Publish(v) ==
  /\ object[v] # "none" /\ offer[v] = "none" /\ storage[v] = "ready"
  /\ Set(offer, v, "open") /\ UNCHANGED <<object, storage>>

Close(v) ==
  /\ offer[v] = "open"
  /\ Set(offer, v, "closed") /\ UNCHANGED <<object, storage>>

\* Storage is destroyed for a deleted volume that no claim can use any more.
Reclaim(v) ==
  /\ object[v] = "deleting" /\ offer[v] # "open"
  /\ \E s \in {"dirty", "raw"} : Set(storage, v, s)
  /\ UNCHANGED <<object, offer>>

Withdraw(v) ==
  /\ object[v] = "deleting" /\ offer[v] = "closed" /\ storage[v] = "raw"
  /\ Set(offer, v, "none") /\ UNCHANGED <<object, storage>>

Next == \E v \in Volumes :
  \/ Create(v) \/ Delete(v) \/ Forget(v)
  \/ Provision(v) \/ Publish(v) \/ Close(v) \/ Reclaim(v) \/ Withdraw(v)

Spec == Init /\ [][Next]_vars
=============================================================================
