-------------------------- MODULE VolumeController --------------------------
(***************************************************************************)
(* The reconciliation loop of the storage operator                         *)
(* (storage-operator/pkg/controller/volume/volume_controller.go) with what *)
(* it talks to: the Kubernetes API server (Volume and PersistentVolume     *)
(* objects), the informer caches it reads from, the Salt master's job      *)
(* cache, the minion of the node that runs the jobs, the PersistentVolume  *)
(* controllers of Kubernetes and the users.                                *)
(*                                                                         *)
(* One worker handles one request at a time.  A reconciliation is not      *)
(* atomic: it is cut at every call that leaves the process, so anything    *)
(* (a crash of the operator included) may happen between two of its calls. *)
(* Reads come from the caches, writes go to the API server, which refuses  *)
(* an update made from an outdated copy.                                   *)
(***************************************************************************)
EXTENDS Naturals, Sequences, FiniteSets

CONSTANTS
  Volumes,    \* names of the volumes of one node
  Jids,       \* Salt job IDs that can be outstanding at the same time
  MaxUid,     \* how many times a volume of the same name is created
  LagVolume,  \* whether the cache of Volumes may be late
  LagPv,      \* whether the cache of PersistentVolumes may be late
  Users,      \* what users do besides creating, claiming and deleting
  Faults,     \* kinds of fault that may happen
  MaxFaults   \* how many faults happen at most

UserKinds == {"invalid", "foreign", "deletePv"}
FaultKinds == {"crash", "call", "answer", "lost", "master", "job", "disk"}

ASSUME BoundsAssumption ==
  /\ MaxUid \in Nat /\ MaxFaults \in Nat
  /\ LagVolume \in BOOLEAN /\ LagPv \in BOOLEAN
  /\ Users \subseteq UserKinds /\ Faults \subseteq FaultKinds
ASSUME JidAssumption == "" \notin Jids /\ "DONE" \notin Jids

VARIABLES
  born,     \* how many volumes of each name were created: their last uid
  vol,      \* Volume objects in the API server
  pv,       \* PersistentVolume objects of the same names
  vcache,   \* what the operator's cache holds of vol
  pvcache,  \* what the operator's cache holds of pv
  queue,    \* the work queue of the controller
  ctl,      \* the reconciliation in progress
  jobs,     \* Salt jobs, by job ID
  inbox,    \* jobs published to the minion that it has not started
  disk,     \* the backing storage on the node
  unlinked, \* volumes whose storage may have no link by UUID on the node
  faults    \* number of faults so far

api   == <<born, vol, pv>>
cache == <<vcache, pvcache, queue>>
salt  == <<jobs, inbox, disk, unlinked>>
vars  == <<born, vol, pv, vcache, pvcache, queue, ctl, jobs, inbox, disk,
           unlinked, faults>>

-----------------------------------------------------------------------------
(* Objects. *)

Phases  == {"", "Pending", "Available", "Failed", "Terminating"}
Reasons == {"", "InternalError", "CreationError", "DestructionError",
            "UnavailableError"}
JobValues == Jids \cup {"", "DONE"}
Status  == [phase : Phases, reason : Reasons, job : JobValues]

\* uid 0 stands for "no such object"; fin is our volume-protection finalizer.
Volume == [uid : 0..MaxUid, valid : BOOLEAN, deleting : BOOLEAN,
           fin : BOOLEAN, status : Status]

NewStatus == [phase |-> "", reason |-> "", job |-> ""]
NoVolume  == [uid |-> 0, valid |-> FALSE, deleting |-> FALSE, fin |-> FALSE,
              status |-> NewStatus]

\* owner: uid of the owning Volume, 0 for a PersistentVolume made by hand.
\* inuse is the kubernetes.io/pv-protection finalizer.
PvPhases == {"Pending", "Available", "Bound", "Released", "Failed"}
Pv == [there : BOOLEAN, owner : 0..MaxUid, phase : PvPhases,
       deleting : BOOLEAN, fin : BOOLEAN, inuse : BOOLEAN]
NoPv == [there |-> FALSE, owner |-> 0, phase |-> "Pending",
         deleting |-> FALSE, fin |-> FALSE, inuse |-> FALSE]

Exists(o) == o.uid # 0

\* What is left of an object: nothing once it is being deleted and its last
\* finalizer is gone.
Collected(o)   == IF o.deleting /\ ~o.fin THEN NoVolume ELSE o
CollectedPv(p) == IF p.deleting /\ ~p.fin /\ ~p.inuse THEN NoPv ELSE p

PendingStatus(job)     == [phase |-> "Pending", reason |-> "", job |-> job]
TerminatingStatus(job) == [phase |-> "Terminating", reason |-> "", job |-> job]
AvailableStatus        == [phase |-> "Available", reason |-> "", job |-> ""]
\* Mutant: the arguments of SetCondition swapped.
FailedStatusSwapped(s, why) == [phase |-> why, reason |-> "Failed", job |-> s.job]
FailedStatus(s, why)   == [phase |-> "Failed", reason |-> why, job |-> s.job]

InUnrecoverableFailedState(o) ==
  o.status.phase = "Failed" /\ o.status.reason # "UnavailableError"

\* Mutant: other finalizers than ours are not looked at.
PersistentVolumeUnusedAnyFinalizer(p) ==
  p.phase \in {"Available", "Released", "Failed"} /\ p.fin
\* Mutant: nor is the phase.
PersistentVolumeUnusedAnyPhase(p) == p.fin
PersistentVolumeUnused(p) ==
  /\ p.phase \in {"Available", "Released", "Failed"}
  /\ p.fin /\ ~p.inuse

\* Mutant: any PersistentVolume of that name is taken for ours.
ControlledByName(p, o) == TRUE
\* A PersistentVolume of that name is ours when the Volume controls it.
ControlledBy(p, o) == p.there => p.owner = o.uid

\* Mutant: a Pending volume is finalized like another.
FinalizingPending(o) == o.deleting
\* Mutant: a failed volume is left alone even if it is deleted.
FinalizingUnlessFailed(o) ==
  o.deleting /\ o.status.phase \notin {"Pending", "Failed"}
\* Deletion is handled once the volume is not Pending any more.
Finalizing(o) == o.deleting /\ o.status.phase # "Pending"

\* Mutant: the job of a failed volume is taken for one in progress.
CurrentJobEvenFailed(o) == o.status.job
\* A failed volume has no job in progress: the JID it keeps is for debug.
CurrentJob(o) == IF o.status.phase = "Failed" THEN "" ELSE o.status.job

-----------------------------------------------------------------------------
(* Jobs of the minion and the storage they work on: "dirty" while a run is  *)
(* between its two ends or was interrupted there, "left" when a removal     *)
(* reported success although it did not find what to remove.                *)

Storage == {"raw", "dirty", "ready", "left"}

JobKinds  == {"prepare", "unprepare"}
JobStates == {"none", "sent", "running", "ok", "failed", "busy", "lost"}
Job == [vol : Volumes, kind : JobKinds, state : JobStates, known : BOOLEAN]

Active(j) == jobs[j].state \in {"sent", "running"}
Busy      == \E j \in Jids : jobs[j].state = "running"

\* Mutant: a job without a result is taken for done.
PollJobNoResult(job) ==
  CASE ~job.known \/ job.state = "busy" -> "retry"
    [] job.known /\ job.state = "failed" -> "failed"
    [] OTHER                              -> "ok"
\* Mutant: a job that could not run is taken for one in progress.
PollJobBusyRuns(job) ==
  CASE ~job.known                         -> "retry"
    [] job.known /\ job.state = "failed" -> "failed"
    [] job.known /\ job.state = "ok"     -> "ok"
    [] OTHER                              -> "running"
\* What polling a job says: one the master does not know, or that did not run
\* because another state was running, is to be tried again.
PollJob(job) ==
  CASE ~job.known \/ job.state = "busy"                  -> "retry"
    [] job.known /\ job.state = "failed"                  -> "failed"
    [] job.known /\ job.state = "ok"                      -> "ok"
    [] job.known /\ job.state \in {"none", "sent", "running", "lost"} -> "running"

\* The steps of a reconciliation, named after the call they are about to make.
Steps == {"idle", "lookup", "save", "failPv", "protect", "prepare", "poll",
          "size", "createPv", "deletePv", "unprepare", "dropPv", "dropVolume"}
AfterSave == {"end", "requeue", "failPv"}

Control == [step : Steps, v : Volumes, vol : Volume, pv : Pv,
            next : Status, after : AfterSave]

Referenced(j) ==
  \/ \E v \in Volumes : vol[v].status.job = j \/ vcache[v].status.job = j
  \/ ctl.vol.status.job = j \/ ctl.next.job = j

TypeOK ==
  /\ vol \in [Volumes -> Volume] /\ vcache \in [Volumes -> Volume]
  /\ pv \in [Volumes -> Pv] /\ pvcache \in [Volumes -> Pv]
  /\ queue \subseteq Volumes
  /\ ctl \in Control
  /\ jobs \in [Jids -> Job]
  /\ inbox \in Seq(Jids)
  /\ disk \in [Volumes -> Storage] /\ unlinked \subseteq Volumes
  /\ born \in [Volumes -> 0..MaxUid] /\ faults \in 0..MaxFaults

-----------------------------------------------------------------------------
(* Writes to the API server.  A cache that is not late follows at once and *)
(* its event puts the volume back in the queue.                            *)

Idle == [step |-> "idle", v |-> ctl.v, vol |-> NoVolume, pv |-> NoPv,
         next |-> NewStatus, after |-> "end"]

SetVolume(v, o) ==
  /\ vol' = [vol EXCEPT ![v] = o]
  /\ vcache' = IF LagVolume THEN vcache ELSE [vcache EXCEPT ![v] = o]
VolumeEvent(v, o) ==
  IF LagVolume \/ o = vol[v] THEN {} ELSE {v}

SetPv(v, p) ==
  /\ pv' = [pv EXCEPT ![v] = p]
  /\ pvcache' = IF LagPv THEN pvcache ELSE [pvcache EXCEPT ![v] = p]
\* Mutant: the controller does not watch PersistentVolumes.
PvEventUnwatched(v, p) == {}
PvEvent(v, p) ==
  IF LagPv \/ p = pv[v] \/ (pv[v].owner = 0 /\ p.owner = 0) THEN {} ELSE {v}

\* End of the reconciliation, with or without a new request for it.
Finish(events)  == ctl' = Idle /\ queue' = queue \cup events
Requeue(events) == Finish(events \cup {ctl.v})

\* An update made from an outdated copy is refused: back to the queue.
Refused == /\ Requeue({})
           /\ UNCHANGED <<born, vol, pv, vcache, pvcache, salt, faults>>

Go(step) == ctl' = [ctl EXCEPT !.step = step]
GoSave(c, status, after) ==
  ctl' = [c EXCEPT !.step = "save", !.next = status, !.after = after]

-----------------------------------------------------------------------------
(* Reconcile. *)

\* The volume is read from the cache and its validity, its deletion mark and
\* its state decide what comes next.
Fetch(v) ==
  /\ ctl.step = "idle" /\ v \in queue
  /\ queue' = queue \ {v}
  /\ LET o == vcache[v]
         c == [ctl EXCEPT !.v = v, !.vol = o]
     IN \/ /\ ~Exists(o)
           /\ ctl' = [Idle EXCEPT !.v = v]
        \/ /\ Exists(o) /\ ~o.valid
           /\ GoSave(c, FailedStatus(o.status, "InternalError"), "requeue")
        \/ /\ Exists(o) /\ o.valid
           /\ ~Finalizing(o) /\ InUnrecoverableFailedState(o)
           /\ ctl' = [Idle EXCEPT !.v = v]
        \/ /\ Exists(o) /\ o.valid
           /\ Finalizing(o) \/ ~InUnrecoverableFailedState(o)
           /\ ctl' = [c EXCEPT !.step = "lookup"]
  /\ UNCHANGED <<api, vcache, pvcache, salt, faults>>

\* Mutant: the preparation is asked for before the finalizer is set.
DeployStepUnprotected(job) ==
  CASE job = ""     -> "prepare"
    [] job = "DONE" -> "size"
    [] OTHER        -> "poll"

\* deployVolume, for a volume without a PersistentVolume.
DeployStep(job) ==
  CASE job = ""     -> "protect"
    [] job = "DONE" -> "size"
    [] OTHER        -> "poll"

\* Mutant: the finalizer of the PersistentVolume is forgotten.
ReclaimStepVolumeOnly(job, p) ==
  CASE job = ""     -> "unprepare"
    [] job = "DONE" -> "dropVolume"
    [] OTHER        -> "poll"

\* reclaimStorage, for a volume whose PersistentVolume is gone or unused.
ReclaimStep(job, p) ==
  CASE job = ""     -> "unprepare"
    [] job = "DONE" -> IF p.there THEN "dropPv" ELSE "dropVolume"
    [] OTHER        -> "poll"

\* The PersistentVolume is read from its cache.
Lookup ==
  /\ ctl.step = "lookup"
  /\ LET o == ctl.vol
         p == pvcache[ctl.v]
         c == [ctl EXCEPT !.pv = p]
         mine == ControlledBy(p, o)
     IN \/ /\ ~mine
           /\ Requeue({})
        \/ /\ mine /\ Finalizing(o) /\ p.there /\ ~p.deleting
           /\ Go("deletePv") /\ UNCHANGED queue
        \/ /\ mine /\ Finalizing(o) /\ (p.there => p.deleting)
           /\ p.there => PersistentVolumeUnused(p)
           /\ ctl' = [c EXCEPT !.step = ReclaimStep(CurrentJob(o), p)]
           /\ UNCHANGED queue
        \/ /\ mine /\ Finalizing(o) /\ p.there /\ p.deleting
           /\ ~PersistentVolumeUnused(p)
           /\ Requeue({})
        \/ /\ mine /\ ~Finalizing(o) /\ ~p.there
           /\ ctl' = [c EXCEPT !.step = DeployStep(o.status.job)]
           /\ UNCHANGED queue
        \/ /\ mine /\ ~Finalizing(o) /\ p.there /\ p.phase = "Failed"
           /\ GoSave(ctl, FailedStatus(o.status, "UnavailableError"), "requeue")
           /\ UNCHANGED queue
        \/ /\ mine /\ ~Finalizing(o) /\ p.there /\ p.phase # "Failed"
           /\ GoSave(ctl, AvailableStatus, "end")
           /\ UNCHANGED queue
  /\ UNCHANGED <<api, vcache, pvcache, salt, faults>>

\* updateVolumeStatus and the setters that call it.
Save ==
  /\ ctl.step = "save"
  /\ LET o == [ctl.vol EXCEPT !.status = ctl.next]
     IN \/ /\ vol[ctl.v] = ctl.vol
           /\ SetVolume(ctl.v, o)
           /\ LET e == VolumeEvent(ctl.v, o)
              IN \/ /\ ctl.after = "failPv" /\ ctl.pv.there
                    /\ ctl' = [ctl EXCEPT !.vol = o, !.step = "failPv"]
                    /\ queue' = queue \cup e
                 \/ /\ ctl.after = "failPv" => ~ctl.pv.there
                    /\ ctl.after # "end"
                    /\ Requeue(e)
                 \/ ctl.after = "end" /\ Finish(e)
           /\ UNCHANGED <<born, pv, pvcache, salt, faults>>
        \/ vol[ctl.v] # ctl.vol /\ Refused

\* The second write of setFailedVolumeStatus.
FailPv ==
  /\ ctl.step = "failPv"
  /\ LET p == [ctl.pv EXCEPT !.phase = "Failed"]
     IN \/ /\ pv[ctl.v] = ctl.pv
           /\ SetPv(ctl.v, p)
           /\ Requeue(PvEvent(ctl.v, p))
           /\ UNCHANGED <<born, vol, vcache, salt, faults>>
        \/ pv[ctl.v] # ctl.pv /\ Refused

\* addVolumeFinalizer, before the preparation is asked for.
Protect ==
  /\ ctl.step = "protect"
  /\ LET o == [ctl.vol EXCEPT !.fin = TRUE]
     IN \/ /\ vol[ctl.v] = ctl.vol
           /\ SetVolume(ctl.v, o)
           /\ ctl' = [ctl EXCEPT !.vol = o, !.step = "prepare"]
           /\ queue' = queue \cup VolumeEvent(ctl.v, o)
           /\ UNCHANGED <<born, pv, pvcache, salt, faults>>
        \/ vol[ctl.v] # ctl.vol /\ Refused

\* The asynchronous Salt calls: a job is published under a new ID.
Spawn(j, kind) ==
  /\ ~Active(j) /\ ~Referenced(j)
  /\ jobs' = [jobs EXCEPT ![j] = [vol |-> ctl.v, kind |-> kind,
                                  state |-> "sent", known |-> TRUE]]
  /\ inbox' = Append(inbox, j)

PrepareVolume(j) ==
  /\ ctl.step = "prepare"
  /\ Spawn(j, "prepare")
  /\ GoSave(ctl, PendingStatus(j), "requeue")
  /\ UNCHANGED <<api, cache, disk, unlinked, faults>>

UnprepareVolume(j) ==
  /\ ctl.step = "unprepare"
  /\ Spawn(j, "unprepare")
  /\ GoSave(ctl, TerminatingStatus(j), "requeue")
  /\ UNCHANGED <<api, cache, disk, unlinked, faults>>

\* pollSaltJob.  A job the master does not know or that did not run (another
\* state was running) is forgotten, so that a new one is started.
JobStatus(job) == IF Finalizing(ctl.vol) THEN TerminatingStatus(job)
                                         ELSE PendingStatus(job)

Poll ==
  /\ ctl.step = "poll"
  /\ LET s    == ctl.vol.status
         job  == jobs[s.job]
         why  == IF Finalizing(ctl.vol) THEN "DestructionError"
                                        ELSE "CreationError"
     IN \/ /\ PollJob(job) = "retry"
           /\ GoSave(ctl, JobStatus(""), "requeue") /\ UNCHANGED queue
        \/ /\ PollJob(job) = "running"
           /\ Requeue({})
        \/ /\ PollJob(job) = "failed"
           /\ GoSave(ctl, FailedStatus(s, why), "failPv") /\ UNCHANGED queue
        \/ /\ PollJob(job) = "ok"
           /\ GoSave(ctl, JobStatus("DONE"), "requeue") /\ UNCHANGED queue
  /\ UNCHANGED <<api, vcache, pvcache, salt, faults>>

\* GetVolumeSize finds the device when the storage is provisioned, a sparse
\* one by its link.
Size ==
  /\ ctl.step = "size"
  /\ \/ /\ disk[ctl.v] = "ready"
        /\ Go("createPv")
     \/ /\ disk[ctl.v] # "ready" \/ ctl.v \in unlinked
        /\ GoSave(ctl, FailedStatus(ctl.vol.status, "CreationError"), "requeue")
  /\ UNCHANGED <<api, cache, salt, faults>>

NewPv(uid) == [there |-> TRUE, owner |-> uid, phase |-> "Pending",
               deleting |-> FALSE, fin |-> TRUE, inuse |-> TRUE]

CreatePv ==
  /\ ctl.step = "createPv"
  /\ \/ /\ ~pv[ctl.v].there
        /\ SetPv(ctl.v, NewPv(ctl.vol.uid))
        /\ queue' = queue \cup PvEvent(ctl.v, NewPv(ctl.vol.uid))
        /\ GoSave(ctl, AvailableStatus, "requeue")
        /\ UNCHANGED <<born, vol, vcache, salt, faults>>
     \/ pv[ctl.v].there /\ Refused

\* The deletion of a PersistentVolume is by name: no copy is compared.
DeletePv ==
  /\ ctl.step = "deletePv"
  /\ LET p == IF pv[ctl.v].there
              THEN CollectedPv([pv[ctl.v] EXCEPT !.deleting = TRUE])
              ELSE NoPv
     IN SetPv(ctl.v, p) /\ Requeue(PvEvent(ctl.v, p))
  /\ UNCHANGED <<born, vol, vcache, salt, faults>>

\* removePvFinalizer, then removeVolumeFinalizer.
DropPv ==
  /\ ctl.step = "dropPv"
  /\ LET p == CollectedPv([ctl.pv EXCEPT !.fin = FALSE])
     IN \/ /\ pv[ctl.v] = ctl.pv
           /\ SetPv(ctl.v, p)
           /\ queue' = queue \cup PvEvent(ctl.v, p)
           /\ Go("dropVolume")
           /\ UNCHANGED <<born, vol, vcache, salt, faults>>
        \/ pv[ctl.v] # ctl.pv /\ Refused

DropVolume ==
  /\ ctl.step = "dropVolume"
  /\ LET o == Collected([ctl.vol EXCEPT !.fin = FALSE])
     IN \/ /\ vol[ctl.v] = ctl.vol
           /\ SetVolume(ctl.v, o)
           /\ Finish(VolumeEvent(ctl.v, o))
           /\ UNCHANGED <<born, pv, pvcache, salt, faults>>
        \/ vol[ctl.v] # ctl.vol /\ Refused

-----------------------------------------------------------------------------
(* The caches of the operator, when they may be late. *)

SyncVolume(v) ==
  /\ LagVolume /\ vcache[v] # vol[v]
  /\ vcache' = [vcache EXCEPT ![v] = vol[v]]
  /\ queue' = queue \cup {v}
  /\ UNCHANGED <<api, pvcache, ctl, salt, faults>>

SyncPv(v) ==
  /\ LagPv /\ pvcache[v] # pv[v]
  /\ pvcache' = [pvcache EXCEPT ![v] = pv[v]]
  /\ queue' = IF pvcache[v].owner # 0 \/ pv[v].owner # 0
              THEN queue \cup {v} ELSE queue
  /\ UNCHANGED <<api, vcache, ctl, salt, faults>>

-----------------------------------------------------------------------------
(* The minion: a state run is refused while another one is running, and    *)
(* both states look the volume up in a pillar rendered from the API server *)
(* when they start.                                                        *)

\* What a job wants the storage to be: one that is like that already is left
\* alone.  A removal also takes for done a storage whose link by UUID is not
\* there: `clean_up' swallows ENOENT before it removes the file, and `removed'
\* reports success (VolumeStorage models the system calls).
Wanted(kind) == IF kind = "prepare" THEN {"ready"} ELSE {"raw", "left"}

\* What a run that succeeds makes of the storage.
Outcomes(kind, v) ==
  IF disk[v] = "raw" \/ v \notin unlinked THEN Wanted(kind) \ {"left"}
                                          ELSE Wanted(kind)

Start ==
  /\ inbox # <<>>
  /\ inbox' = Tail(inbox)
  /\ LET j == Head(inbox)
         v == jobs[j].vol
         To(state) == jobs' = [jobs EXCEPT ![j].state = state]
     IN \/ /\ Busy
           /\ To("busy") /\ UNCHANGED disk
        \/ /\ ~Busy /\ ~Exists(vol[v])
           /\ To(IF jobs[j].kind = "prepare" THEN "failed" ELSE "ok")
           /\ UNCHANGED disk
        \/ /\ ~Busy /\ Exists(vol[v])
           /\ To("running")
           /\ disk' = [disk EXCEPT ![v] =
                IF @ \in Wanted(jobs[j].kind) THEN @ ELSE "dirty"]
  /\ UNCHANGED <<api, cache, ctl, unlinked, faults>>

Complete(j) ==
  /\ jobs[j].state = "running"
  /\ jobs' = [jobs EXCEPT ![j].state = "ok"]
  /\ \E s \in Outcomes(jobs[j].kind, jobs[j].vol) :
       disk' = [disk EXCEPT ![jobs[j].vol] = s]
  /\ UNCHANGED <<api, cache, ctl, inbox, unlinked, faults>>

\* A run that ends before its last state may leave a storage without its link:
\* a preparation attaches the loop device last, and a removal releases it
\* first.  (Attached to a file that is not formatted yet when the minion starts
\* again, the device has no link even when the preparation is retried.)
Interrupted == unlinked' = unlinked \cup {v \in Volumes : disk[v] = "dirty"}

-----------------------------------------------------------------------------
(* Users, and the controllers of Kubernetes that work on PersistentVolumes. *)

\* A new Volume has a uid, and so a file and a link, of its own: what was left
\* of the former one is not its storage.
CreateVolume(v) ==
  /\ ~Exists(vol[v])
  /\ born[v] < MaxUid
  /\ born' = [born EXCEPT ![v] = @ + 1]
  /\ \E valid \in IF "invalid" \in Users THEN BOOLEAN ELSE {TRUE} :
       LET o == [NoVolume EXCEPT !.uid = born[v] + 1, !.valid = valid]
       IN SetVolume(v, o) /\ queue' = queue \cup VolumeEvent(v, o)
  /\ disk' = [disk EXCEPT ![v] = IF @ = "left" THEN "raw" ELSE @]
  /\ unlinked' = unlinked \ {v}
  /\ UNCHANGED <<pv, pvcache, ctl, jobs, inbox, faults>>

DeleteVolume(v) ==
  /\ Exists(vol[v]) /\ ~vol[v].deleting
  /\ LET o == Collected([vol[v] EXCEPT !.deleting = TRUE])
     IN SetVolume(v, o) /\ queue' = queue \cup VolumeEvent(v, o)
  /\ UNCHANGED <<born, pv, pvcache, ctl, salt, faults>>

ChangePv(v, p) ==
  /\ SetPv(v, p)
  /\ queue' = queue \cup PvEvent(v, p)
  /\ UNCHANGED <<born, vol, vcache, ctl, salt>>

\* A PersistentVolume of that name made by hand.
CreateForeignPv(v) ==
  /\ "foreign" \in Users
  /\ ~pv[v].there
  /\ ChangePv(v, [NoPv EXCEPT !.there = TRUE, !.phase = "Available",
                              !.inuse = TRUE])
  /\ UNCHANGED faults

UserDeletePv(v) ==
  /\ "deletePv" \in Users
  /\ pv[v].there /\ ~pv[v].deleting
  /\ ChangePv(v, CollectedPv([pv[v] EXCEPT !.deleting = TRUE]))
  /\ UNCHANGED faults

\* A claim takes an available PersistentVolume, unless it is being deleted.
Bind(v) ==
  /\ pv[v].there /\ pv[v].phase = "Available" /\ ~pv[v].deleting
  /\ ChangePv(v, [pv[v] EXCEPT !.phase = "Bound"])
  /\ UNCHANGED faults

Release(v) ==
  /\ pv[v].there /\ pv[v].phase = "Bound"
  /\ ChangePv(v, [pv[v] EXCEPT !.phase = "Released"])
  /\ UNCHANGED faults

\* An unclaimed PersistentVolume becomes available.
Offer(v) ==
  /\ pv[v].there /\ pv[v].phase = "Pending"
  /\ ChangePv(v, [pv[v] EXCEPT !.phase = "Available"])
  /\ UNCHANGED faults

\* The controllers of Kubernetes settle a failed, unclaimed PersistentVolume.
Recover(v) ==
  /\ pv[v].there /\ pv[v].phase = "Failed"
  /\ \E phase \in {"Available", "Released"} :
       ChangePv(v, [pv[v] EXCEPT !.phase = phase])
  /\ UNCHANGED faults

\* pv-protection goes once a deleted PersistentVolume is not bound.
Unprotect(v) ==
  /\ pv[v].there /\ pv[v].deleting /\ pv[v].inuse /\ pv[v].phase # "Bound"
  /\ ChangePv(v, CollectedPv([pv[v] EXCEPT !.inuse = FALSE]))
  /\ UNCHANGED faults

-----------------------------------------------------------------------------
(* Faults. *)

Fault(kind) == /\ kind \in Faults /\ faults < MaxFaults
               /\ faults' = faults + 1

\* The operator restarts: it lists everything again and requeues it.
Crash ==
  /\ Fault("crash")
  /\ ctl' = Idle
  /\ vcache' = vol /\ pvcache' = pv
  /\ queue' = {v \in Volumes : Exists(vol[v]) \/ pv[v].owner # 0}
  /\ UNCHANGED <<api, salt>>

\* A call to the API server or to Salt returns an error and had no effect.
CallFails ==
  /\ Fault("call")
  /\ ctl.step \notin {"idle", "lookup", "poll", "size"}
  /\ Requeue({})
  /\ UNCHANGED <<api, vcache, pvcache, salt>>

\* The job is published but the answer that carries its ID is lost.
AnswerLost(j) ==
  /\ Fault("answer")
  /\ ctl.step \in {"prepare", "unprepare"}
  /\ Spawn(j, ctl.step)
  /\ Requeue({})
  /\ UNCHANGED <<api, vcache, pvcache, disk, unlinked>>

\* A poll fails for any other reason than the job's failure.
PollFails ==
  /\ Fault("call")
  /\ ctl.step = "poll"
  /\ GoSave(ctl, JobStatus(""), "requeue")
  /\ UNCHANGED <<api, cache, salt>>

\* The size of the device cannot be had.
SizeFails ==
  /\ Fault("call")
  /\ ctl.step = "size"
  /\ GoSave(ctl, FailedStatus(ctl.vol.status, "CreationError"), "requeue")
  /\ UNCHANGED <<api, cache, salt>>

\* The next job is lost on its way to the minion: it will never have a result.
LoseMessage ==
  /\ Fault("lost")
  /\ inbox # <<>>
  /\ jobs' = [jobs EXCEPT ![Head(inbox)].state = "lost"]
  /\ inbox' = Tail(inbox)
  /\ UNCHANGED <<api, cache, ctl, disk, unlinked>>

\* The minion restarts: no job it had will ever have a result.
MinionRestart ==
  /\ Fault("lost")
  /\ jobs' = [j \in Jids |->
               [jobs[j] EXCEPT !.state = IF Active(j) THEN "lost" ELSE @]]
  /\ inbox' = <<>>
  /\ Interrupted
  /\ UNCHANGED <<api, cache, ctl, disk>>

\* The Salt master restarts with an empty job cache.
MasterRestart ==
  /\ Fault("master")
  /\ jobs' = [j \in Jids |-> [jobs[j] EXCEPT !.known = FALSE]]
  /\ UNCHANGED <<api, cache, ctl, inbox, disk, unlinked>>

\* A state of the run fails; the storage stays as the run left it.
JobFails(j) ==
  /\ Fault("job")
  /\ jobs[j].state = "running"
  /\ jobs' = [jobs EXCEPT ![j].state = "failed"]
  /\ Interrupted
  /\ UNCHANGED <<api, cache, ctl, inbox, disk>>

\* An unclaimed PersistentVolume goes into its Failed phase.
PvFails(v) ==
  /\ Fault("disk")
  /\ pv[v].there /\ pv[v].phase \in {"Available", "Released"}
  /\ ChangePv(v, [pv[v] EXCEPT !.phase = "Failed"])

-----------------------------------------------------------------------------
Init ==
  /\ born = [v \in Volumes |-> 0]
  /\ vol = [v \in Volumes |-> NoVolume] /\ vcache = vol
  /\ pv = [v \in Volumes |-> NoPv] /\ pvcache = pv
  /\ queue = {}
  /\ \E v \in Volumes :
       /\ ctl = [step |-> "idle", v |-> v, vol |-> NoVolume, pv |-> NoPv,
                 next |-> NewStatus, after |-> "end"]
       /\ jobs = [j \in Jids |-> [vol |-> v, kind |-> "prepare",
                                  state |-> "none", known |-> FALSE]]
  /\ inbox = <<>>
  /\ disk = [v \in Volumes |-> "raw"] /\ unlinked = {}
  /\ faults = 0

\* The steps of the worker after Fetch.
Worker ==
  \/ Lookup \/ Save \/ FailPv \/ Protect \/ Poll \/ Size \/ CreatePv
  \/ DeletePv \/ DropPv \/ DropVolume
  \/ \E j \in Jids : PrepareVolume(j) \/ UnprepareVolume(j)

Minion == Start \/ \E j \in Jids : Complete(j)

Environment(v) ==
  \/ CreateVolume(v) \/ DeleteVolume(v)
  \/ CreateForeignPv(v) \/ UserDeletePv(v)
  \/ Bind(v) \/ Release(v) \/ Offer(v) \/ Recover(v) \/ Unprotect(v)

FaultStep ==
  \/ Crash \/ CallFails \/ PollFails \/ SizeFails
  \/ LoseMessage \/ MinionRestart \/ MasterRestart
  \/ \E j \in Jids : AnswerLost(j) \/ JobFails(j)
  \/ \E v \in Volumes : PvFails(v)

Next ==
  \/ Worker \/ Minion \/ FaultStep
  \/ \E v \in Volumes :
       Fetch(v) \/ SyncVolume(v) \/ SyncPv(v) \/ Environment(v)

Spec == Init /\ [][Next]_vars

-----------------------------------------------------------------------------
(* Safety. *)

\* The storage is provisioned as long as a claim may use the
\* PersistentVolume made for it.
StorageBehindPv ==
  \A v \in Volumes : pv[v].owner # 0 /\ pv[v].inuse => disk[v] = "ready"

\* A Volume outlives its PersistentVolume, which is what lets Reconcile look
\* a Volume up for a request that comes from a PersistentVolume.
VolumeOutlivesPv ==
  \A v \in Volumes : pv[v].owner # 0 => vol[v].uid = pv[v].owner

\* Once a Volume is gone nothing of its storage is on the node: no storage that
\* is provisioned, half prepared or half removed.  The one exception is what the
\* code has (the finding on `clean_up'): a removal that ran to its end and
\* reported success, but on a storage that an earlier run had been interrupted
\* on and whose link it did not find, leaves its sparse file.
NothingLeftBehind ==
  \A v \in Volumes :
    ~Exists(vol[v]) => \/ disk[v] = "raw"
                       \/ disk[v] = "left" /\ v \in unlinked

\* No job of a volume is left when its last job is seen to be done.
DoneMeansQuiet ==
  \A v \in Volumes, j \in Jids :
    CurrentJob(vol[v]) = "DONE" /\ jobs[j].vol = v => ~Active(j)

\* Provisioned storage is only ever destroyed for a Volume that its user
\* deleted, and not before its PersistentVolume is deleted and unbound.
DestroyedOnlyWhenUnused ==
  [][\A v \in Volumes :
       disk[v] = "ready" /\ disk'[v] # "ready" =>
         /\ vol[v].deleting
         /\ pv[v].owner # 0 => pv[v].deleting /\ pv[v].phase # "Bound"]_vars

\* The operator never changes a PersistentVolume it does not own.
ForeignPvUntouched ==
  [][\A v \in Volumes :
       pv[v].there /\ pv[v].owner = 0 /\ pv'[v] # pv[v] => UNCHANGED ctl]_vars

\* The storage as the runs report it: a removal that reported success takes what
\* it has left for gone.
Reported == [v \in Volumes |-> IF disk[v] = "left" THEN "raw" ELSE disk[v]]

\* The lifecycle that the operator promises: a Volume, what is offered of it to
\* claims and its storage, as far as the runs report it (NothingLeftBehind tells
\* what that does not show), change together as VolumeLifecycle says.
Lifecycle == INSTANCE VolumeLifecycle WITH
  object  <- [v \in Volumes |-> IF ~Exists(vol[v]) THEN "none"
                                ELSE IF vol[v].deleting THEN "deleting"
                                ELSE "live"],
  offer   <- [v \in Volumes |-> IF pv[v].owner = 0 THEN "none"
                                ELSE IF pv[v].inuse THEN "open" ELSE "closed"],
  storage <- Reported

LifecycleSpec == Lifecycle!Spec

-----------------------------------------------------------------------------
(* Liveness. *)

\* The worker goes on and takes every request of its queue, the caches catch
\* up, the minion runs what it is sent to the end, and Kubernetes settles its
\* PersistentVolumes.  Nothing is assumed of users or of faults.
Fairness ==
  /\ WF_vars(Worker) /\ WF_vars(Start)
  /\ \A j \in Jids : WF_vars(Complete(j))
  /\ \A v \in Volumes :
       /\ SF_vars(Fetch(v))
       /\ WF_vars(SyncVolume(v)) /\ WF_vars(SyncPv(v))
       /\ WF_vars(Offer(v)) /\ WF_vars(Unprotect(v))

LiveSpec == Spec /\ Fairness

\* A PersistentVolume made by hand under the name of the volume: the
\* reconciliation fails as long as it is there.
Foreign(v) == pv[v].there /\ pv[v].owner = 0

\* A deleted volume is eventually gone, unless a claim keeps its
\* PersistentVolume for ever.
DeletedIsCollected ==
  \A v \in Volumes :
    []<>(pv[v].phase # "Bound") =>
      (vol[v].deleting ~> (~Exists(vol[v]) \/ Foreign(v)))

\* A volume does not stay new or Pending for ever.
PendingSettles ==
  \A v \in Volumes :
    (Exists(vol[v]) /\ vol[v].status.phase \in {"", "Pending"}) ~>
      (~Exists(vol[v]) \/ vol[v].status.phase \notin {"", "Pending"} \/ Foreign(v))

\* The failure of a PersistentVolume is eventually seen on its Volume, and so
\* is its recovery.
HealthIsReported ==
  \A v \in Volumes :
    /\ (pv[v].phase = "Failed" /\ vol[v].status.phase = "Available") ~>
         (pv[v].phase # "Failed" \/ vol[v].status.phase # "Available")
    /\ (pv[v].phase = "Available" /\ vol[v].status.phase = "Failed"
         /\ vol[v].status.reason = "UnavailableError") ~>
         (pv[v].phase # "Available" \/ vol[v].deleting
          \/ vol[v].status.phase = "Available")

=============================================================================
