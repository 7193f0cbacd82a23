----------------------- MODULE VolumeController_proofs -----------------------
(***************************************************************************)
(* Theorems about the volume controller, for any number of volumes, job    *)
(* IDs and faults.                                                         *)
(***************************************************************************)
EXTENDS VolumeController, SequenceTheorems, TLAPS

-----------------------------------------------------------------------------
(* Types. *)

LEMMA StatusTypes ==
  /\ NewStatus \in Status /\ AvailableStatus \in Status
  /\ \A job \in JobValues : PendingStatus(job) \in Status
                         /\ TerminatingStatus(job) \in Status
  /\ \A s \in Status, why \in Reasons : FailedStatus(s, why) \in Status
BY DEF Status, Phases, Reasons, JobValues, NewStatus, AvailableStatus,
       PendingStatus, TerminatingStatus, FailedStatus

LEMMA VolumeTypes ==
  /\ NoVolume \in Volume
  /\ \A o \in Volume : /\ Collected(o) \in Volume
                       /\ [o EXCEPT !.fin = TRUE] \in Volume
                       /\ [o EXCEPT !.fin = FALSE] \in Volume
                       /\ [o EXCEPT !.deleting = TRUE] \in Volume
                       /\ o.status \in Status
  /\ \A o \in Volume, s \in Status : [o EXCEPT !.status = s] \in Volume
<1>1. NoVolume \in Volume
  BY BoundsAssumption, StatusTypes DEF NoVolume, Volume
<1>2. QED
  BY <1>1 DEF Volume, Collected

LEMMA PvTypes ==
  /\ NoPv \in Pv
  /\ \A p \in Pv : /\ CollectedPv(p) \in Pv
                   /\ [p EXCEPT !.fin = FALSE] \in Pv
                   /\ [p EXCEPT !.inuse = FALSE] \in Pv
                   /\ [p EXCEPT !.deleting = TRUE] \in Pv
  /\ \A p \in Pv, phase \in PvPhases :
       /\ [p EXCEPT !.phase = phase] \in Pv
       /\ [p EXCEPT !.there = TRUE, !.phase = phase, !.inuse = TRUE] \in Pv
  /\ \A uid \in 0..MaxUid : NewPv(uid) \in Pv
<1>1. NoPv \in Pv
  BY BoundsAssumption DEF NoPv, Pv, PvPhases
<1>2. ASSUME NEW p \in Pv
      PROVE  /\ [p EXCEPT !.fin = FALSE] \in Pv
             /\ [p EXCEPT !.inuse = FALSE] \in Pv
             /\ [p EXCEPT !.deleting = TRUE] \in Pv
  BY DEF Pv
<1>3. ASSUME NEW p \in Pv, NEW phase \in PvPhases
      PROVE  /\ [p EXCEPT !.phase = phase] \in Pv
             /\ [p EXCEPT !.there = TRUE, !.phase = phase, !.inuse = TRUE] \in Pv
  BY DEF Pv
<1>4. ASSUME NEW uid \in 0..MaxUid
      PROVE  NewPv(uid) \in Pv
  BY DEF Pv, NewPv, PvPhases
<1>5. \A p \in Pv : CollectedPv(p) \in Pv
  BY <1>1 DEF CollectedPv
<1>6. QED
  BY <1>1, <1>2, <1>3, <1>4, <1>5

LEMMA IdleType == TypeOK => Idle \in Control
BY StatusTypes, VolumeTypes, PvTypes
   DEF TypeOK, Control, Idle, Steps, AfterSave

LEMMA ControlTypes ==
  ASSUME NEW c \in Control, NEW o \in Volume, NEW p \in Pv,
         NEW s \in Status, NEW a \in AfterSave, NEW v \in Volumes
  PROVE  /\ \A step \in Steps :
              /\ [c EXCEPT !.step = step] \in Control
              /\ [c EXCEPT !.v = v, !.vol = o, !.step = step] \in Control
              /\ [c EXCEPT !.vol = o, !.step = step] \in Control
              /\ [c EXCEPT !.pv = p, !.step = step] \in Control
         /\ [c EXCEPT !.step = "save", !.next = s, !.after = a] \in Control
         /\ [c EXCEPT !.v = v] \in Control
         /\ [c EXCEPT !.v = v, !.vol = o] \in Control
         /\ [c EXCEPT !.pv = p] \in Control
BY DEF Control, Steps

LEMMA WriteTypes ==
  ASSUME TypeOK, NEW v \in Volumes
  PROVE  /\ \A o \in Volume : SetVolume(v, o) =>
              vol' \in [Volumes -> Volume] /\ vcache' \in [Volumes -> Volume]
         /\ \A p \in Pv : SetPv(v, p) =>
              pv' \in [Volumes -> Pv] /\ pvcache' \in [Volumes -> Pv]
         /\ \A o : VolumeEvent(v, o) \subseteq Volumes
         /\ \A p : PvEvent(v, p) \subseteq Volumes
BY DEF TypeOK, SetVolume, SetPv, VolumeEvent, PvEvent

LEMMA FinishTypes ==
  ASSUME TypeOK, NEW events \in SUBSET Volumes
  PROVE  /\ Finish(events) => ctl' \in Control /\ queue' \subseteq Volumes
         /\ Requeue(events) => ctl' \in Control /\ queue' \subseteq Volumes
<1>1. ctl.v \in Volumes
  BY DEF TypeOK, Control
<1>2. QED
  BY <1>1, IdleType DEF Finish, Requeue, TypeOK

LEMMA RefusedTypes == TypeOK /\ Refused => TypeOK'
<1> SUFFICES ASSUME TypeOK, Refused PROVE TypeOK'
  OBVIOUS
<1>1. ctl' \in Control /\ queue' \subseteq Volumes
  BY FinishTypes DEF Refused
<1>2. QED
  BY <1>1 DEF Refused, TypeOK, salt

LEMMA SpawnTypes ==
  ASSUME TypeOK, NEW j \in Jids, NEW kind \in JobKinds, Spawn(j, kind)
  PROVE  jobs' \in [Jids -> Job] /\ inbox' \in Seq(Jids)
BY AppendProperties DEF TypeOK, Spawn, Job, JobStates, Control

LEMMA JobStatusTypes ==
  TypeOK => \A job \in JobValues : JobStatus(job) \in Status
BY StatusTypes DEF JobStatus

LEMMA JobUpdateTypes ==
  ASSUME TypeOK, NEW j \in Jids
  PROVE  /\ \A state \in JobStates :
              [jobs EXCEPT ![j].state = state] \in [Jids -> Job]
         /\ jobs[j].vol \in Volumes /\ jobs[j].kind \in JobKinds
BY DEF TypeOK, Job

\* A step of the worker keeps the types.
LEMMA WorkerTypes == TypeOK /\ Worker => TypeOK'
<1> SUFFICES ASSUME TypeOK, Worker PROVE TypeOK'
  OBVIOUS
<1>c. /\ ctl \in Control /\ ctl.v \in Volumes /\ ctl.vol \in Volume
      /\ ctl.pv \in Pv /\ ctl.next \in Status /\ ctl.vol.status \in Status
  BY VolumeTypes DEF TypeOK, Control
<1>1. CASE Lookup
  <2>1. /\ ctl.vol.status.job \in JobValues
        /\ \A job \in JobValues, p \in Pv :
             DeployStep(job) \in Steps /\ ReclaimStep(job, p) \in Steps
    BY <1>c DEF Status, DeployStep, ReclaimStep, Steps
  <2>2. CurrentJob(ctl.vol) \in JobValues
    BY <2>1 DEF CurrentJob, JobValues
  <2>3. pvcache[ctl.v] \in Pv
    BY <1>c DEF TypeOK
  <2>4. ctl' \in Control
    <3> DEFINE p == pvcache[ctl.v]
               c == [ctl EXCEPT !.pv = p]
    <3>1. c \in Control
      BY <1>c, <2>3 DEF Control
    <3>2. \A step \in Steps : [c EXCEPT !.step = step] \in Control
                            /\ [ctl EXCEPT !.step = step] \in Control
      BY <1>c, <3>1 DEF Control
    <3>3. \A s \in Status, a \in AfterSave :
            [ctl EXCEPT !.step = "save", !.next = s, !.after = a] \in Control
      BY <1>c DEF Control, Steps
    <3>4. /\ FailedStatus(ctl.vol.status, "UnavailableError") \in Status
          /\ AvailableStatus \in Status
      BY <1>c, StatusTypes DEF Reasons
    <3>5. Requeue({}) => ctl' \in Control
      BY FinishTypes
    <3>6. {"requeue", "end"} \subseteq AfterSave /\ "deletePv" \in Steps
      BY DEF AfterSave, Steps
    <3> QED
      BY <1>1, <2>1, <2>2, <2>3, <3>2, <3>3, <3>4, <3>5, <3>6
         DEF Lookup, Go, GoSave
  <2>5. queue' \subseteq Volumes
    BY <1>1, FinishTypes DEF Lookup, TypeOK
  <2> QED
    BY <1>1, <2>4, <2>5 DEF Lookup, TypeOK, api, salt
<1>2. CASE Save
  <2> DEFINE o == [ctl.vol EXCEPT !.status = ctl.next]
  <2>1. CASE Refused
    BY <2>1, RefusedTypes
  <2>2. CASE SetVolume(ctl.v, o) /\ UNCHANGED <<born, pv, pvcache, salt, faults>>
             /\ ctl' \in Control /\ queue' \subseteq Volumes
    <3>1. o \in Volume
      BY <1>c, VolumeTypes
    <3>2. vol' \in [Volumes -> Volume] /\ vcache' \in [Volumes -> Volume]
      BY <1>c, <2>2, <3>1, WriteTypes
    <3> QED
      BY <2>2, <3>2 DEF TypeOK, salt
  <2>3. VolumeEvent(ctl.v, o) \subseteq Volumes
    BY <1>c, WriteTypes
  <2>4. [ctl EXCEPT !.vol = o, !.step = "failPv"] \in Control
    BY <1>c, VolumeTypes DEF Control, Steps
  <2> QED
    BY <1>2, <2>1, <2>2, <2>3, <2>4, FinishTypes DEF Save, TypeOK
<1>3. CASE FailPv
  <2> DEFINE p == [ctl.pv EXCEPT !.phase = "Failed"]
  <2>1. CASE Refused
    BY <2>1, RefusedTypes
  <2>2. CASE ~Refused
    <3>1. p \in Pv
      BY <1>c, PvTypes DEF PvPhases
    <3>2. SetPv(ctl.v, p) /\ Requeue(PvEvent(ctl.v, p))
      BY <1>3, <2>2 DEF FailPv
    <3>3. /\ pv' \in [Volumes -> Pv] /\ pvcache' \in [Volumes -> Pv]
          /\ PvEvent(ctl.v, p) \subseteq Volumes
      BY <1>c, <3>1, <3>2, WriteTypes
    <3>4. ctl' \in Control /\ queue' \subseteq Volumes
      BY <3>2, <3>3, FinishTypes
    <3>5. UNCHANGED <<born, vol, vcache, jobs, inbox, disk, unlinked, faults>>
      BY <1>3, <2>2 DEF FailPv, salt
    <3> QED
      BY <3>3, <3>4, <3>5 DEF TypeOK
  <2> QED
    BY <2>1, <2>2
<1>4. CASE Protect
  <2> DEFINE o == [ctl.vol EXCEPT !.fin = TRUE]
  <2>1. CASE Refused
    BY <2>1, RefusedTypes
  <2>2. CASE ~Refused
    <3>1. o \in Volume
      BY <1>c, VolumeTypes
    <3>2. /\ SetVolume(ctl.v, o) /\ queue' = queue \cup VolumeEvent(ctl.v, o)
          /\ ctl' = [ctl EXCEPT !.vol = o, !.step = "prepare"]
      BY <1>4, <2>2 DEF Protect
    <3>3. /\ vol' \in [Volumes -> Volume] /\ vcache' \in [Volumes -> Volume]
          /\ VolumeEvent(ctl.v, o) \subseteq Volumes
      BY <1>c, <3>1, <3>2, WriteTypes
    <3>4. ctl' \in Control
      BY <1>c, <3>1, <3>2 DEF Control, Steps
    <3> QED
      BY <1>4, <2>2, <3>2, <3>3, <3>4 DEF Protect, TypeOK, salt
  <2> QED
    BY <2>1, <2>2
<1>5. CASE Poll
  <2>1. /\ ctl.vol.status.job \in JobValues
        /\ \A why \in Reasons : FailedStatus(ctl.vol.status, why) \in Status
        /\ JobStatus("") \in Status /\ JobStatus("DONE") \in Status
    BY <1>c, StatusTypes, JobStatusTypes DEF Status, JobValues
  <2>2. \A s \in Status, a \in AfterSave :
          [ctl EXCEPT !.step = "save", !.next = s, !.after = a] \in Control
    BY <1>c DEF Control, Steps
  <2>3. ctl' \in Control
    <3>1. \/ Requeue({})
          \/ \E s \in Status, a \in AfterSave : GoSave(ctl, s, a)
      BY <1>5, <2>1 DEF Poll, Reasons, AfterSave
    <3>2. Requeue({}) => ctl' \in Control
      BY FinishTypes
    <3> QED
      BY <2>2, <3>1, <3>2 DEF GoSave
  <2>4. queue' \subseteq Volumes
    BY <1>5, FinishTypes DEF Poll, TypeOK
  <2> QED
    BY <1>5, <2>3, <2>4 DEF Poll, TypeOK, api, salt
<1>6. CASE Size
  <2>1. FailedStatus(ctl.vol.status, "CreationError") \in Status
    BY <1>c, StatusTypes DEF Reasons
  <2>2. ctl' \in Control
    BY <1>6, <1>c, <2>1 DEF Size, Go, GoSave, Control, Steps, AfterSave
  <2> QED
    BY <1>6, <2>2 DEF Size, TypeOK, api, cache, salt
<1>7. CASE CreatePv
  <2> DEFINE p == NewPv(ctl.vol.uid)
  <2>1. CASE Refused
    BY <2>1, RefusedTypes
  <2>2. CASE ~Refused
    <3>1. p \in Pv
      BY <1>c, PvTypes DEF Volume
    <3>2. /\ SetPv(ctl.v, p) /\ queue' = queue \cup PvEvent(ctl.v, p)
          /\ GoSave(ctl, AvailableStatus, "requeue")
      BY <1>7, <2>2 DEF CreatePv
    <3>3. /\ pv' \in [Volumes -> Pv] /\ pvcache' \in [Volumes -> Pv]
          /\ PvEvent(ctl.v, p) \subseteq Volumes
      BY <1>c, <3>1, <3>2, WriteTypes
    <3>4. ctl' \in Control
      BY <1>c, <3>2, StatusTypes DEF GoSave, Control, Steps, AfterSave
    <3> QED
      BY <1>7, <2>2, <3>2, <3>3, <3>4 DEF CreatePv, TypeOK, salt
  <2> QED
    BY <2>1, <2>2
<1>8. CASE DeletePv
  <2> DEFINE p == IF pv[ctl.v].there
                  THEN CollectedPv([pv[ctl.v] EXCEPT !.deleting = TRUE])
                  ELSE NoPv
  <2>1. p \in Pv
    BY <1>c, PvTypes DEF TypeOK
  <2>2. SetPv(ctl.v, p) /\ Requeue(PvEvent(ctl.v, p))
    BY <1>8 DEF DeletePv
  <2>3. /\ pv' \in [Volumes -> Pv] /\ pvcache' \in [Volumes -> Pv]
        /\ PvEvent(ctl.v, p) \subseteq Volumes
    BY <1>c, <2>1, <2>2, WriteTypes
  <2>4. ctl' \in Control /\ queue' \subseteq Volumes
    BY <2>2, <2>3, FinishTypes
  <2> QED
    BY <1>8, <2>3, <2>4 DEF DeletePv, TypeOK, salt
<1>9. CASE DropPv
  <2> DEFINE p == CollectedPv([ctl.pv EXCEPT !.fin = FALSE])
  <2>1. CASE Refused
    BY <2>1, RefusedTypes
  <2>2. CASE ~Refused
    <3>1. p \in Pv
      BY <1>c, PvTypes
    <3>2. /\ SetPv(ctl.v, p) /\ queue' = queue \cup PvEvent(ctl.v, p)
          /\ Go("dropVolume")
      BY <1>9, <2>2 DEF DropPv
    <3>3. /\ pv' \in [Volumes -> Pv] /\ pvcache' \in [Volumes -> Pv]
          /\ PvEvent(ctl.v, p) \subseteq Volumes
      BY <1>c, <3>1, <3>2, WriteTypes
    <3>4. ctl' \in Control
      BY <1>c, <3>2 DEF Go, Control, Steps
    <3> QED
      BY <1>9, <2>2, <3>2, <3>3, <3>4 DEF DropPv, TypeOK, salt
  <2> QED
    BY <2>1, <2>2
<1>10. CASE DropVolume
  <2> DEFINE o == Collected([ctl.vol EXCEPT !.fin = FALSE])
  <2>1. CASE Refused
    BY <2>1, RefusedTypes
  <2>2. CASE ~Refused
    <3>1. o \in Volume
      BY <1>c, VolumeTypes
    <3>2. SetVolume(ctl.v, o) /\ Finish(VolumeEvent(ctl.v, o))
      BY <1>10, <2>2 DEF DropVolume
    <3>3. /\ vol' \in [Volumes -> Volume] /\ vcache' \in [Volumes -> Volume]
          /\ VolumeEvent(ctl.v, o) \subseteq Volumes
      BY <1>c, <3>1, <3>2, WriteTypes
    <3>4. ctl' \in Control /\ queue' \subseteq Volumes
      BY <3>2, <3>3, FinishTypes
    <3> QED
      BY <1>10, <2>2, <3>3, <3>4 DEF DropVolume, TypeOK, salt
  <2> QED
    BY <2>1, <2>2
<1>11. ASSUME NEW j \in Jids, PrepareVolume(j) \/ UnprepareVolume(j)
       PROVE  TypeOK'
  <2>1. jobs' \in [Jids -> Job] /\ inbox' \in Seq(Jids)
    BY <1>11, SpawnTypes DEF PrepareVolume, UnprepareVolume, JobKinds
  <2>2. PendingStatus(j) \in Status /\ TerminatingStatus(j) \in Status
    BY StatusTypes DEF JobValues
  <2>3. ctl' \in Control
    BY <1>11, <1>c, <2>2
       DEF PrepareVolume, UnprepareVolume, GoSave, Control, Steps, AfterSave
  <2> QED
    BY <1>11, <2>1, <2>3
       DEF PrepareVolume, UnprepareVolume, TypeOK, api, cache
<1> QED
  BY <1>1, <1>2, <1>3, <1>4, <1>5, <1>6, <1>7, <1>8, <1>9, <1>10, <1>11
     DEF Worker

\* Taking a request off the queue keeps the types.
LEMMA FetchTypes ==
  ASSUME TypeOK, NEW v \in Volumes, Fetch(v)
  PROVE  TypeOK'
<1> DEFINE o == vcache[v]
           c == [ctl EXCEPT !.v = v, !.vol = o]
<1>1. /\ o \in Volume /\ o.status \in Status /\ ctl \in Control
      /\ Idle \in Control /\ "requeue" \in AfterSave /\ "lookup" \in Steps
  BY VolumeTypes, IdleType DEF TypeOK, AfterSave, Steps
<1>2. FailedStatus(o.status, "InternalError") \in Status
  BY <1>1, StatusTypes DEF Reasons
<1>3. /\ c \in Control
      /\ [Idle EXCEPT !.v = v] \in Control
      /\ [c EXCEPT !.step = "lookup"] \in Control
      /\ [c EXCEPT !.step = "save", !.next = FailedStatus(o.status, "InternalError"),
                   !.after = "requeue"] \in Control
  BY <1>1, <1>2 DEF Control, Steps
<1>4. ctl' \in Control
  BY <1>3 DEF Fetch, GoSave
<1> QED
  BY <1>4 DEF Fetch, TypeOK, api, salt

\* Catching up with the API server keeps the types.
LEMMA SyncTypes ==
  ASSUME TypeOK, NEW v \in Volumes, SyncVolume(v) \/ SyncPv(v)
  PROVE  TypeOK'
<1>1. CASE SyncVolume(v)
  BY <1>1 DEF SyncVolume, TypeOK, api, salt
<1>2. CASE SyncPv(v)
  <2>1. pvcache' \in [Volumes -> Pv] /\ queue' \subseteq Volumes
    BY <1>2 DEF SyncPv, TypeOK
  <2> QED
    BY <1>2, <2>1 DEF SyncPv, TypeOK, api, salt
<1> QED
  BY <1>1, <1>2

LEMMA HeadTypes ==
  ASSUME TypeOK, inbox # <<>>
  PROVE  Head(inbox) \in Jids /\ Tail(inbox) \in Seq(Jids)
BY HeadTailProperties DEF TypeOK

\* A step of the minion keeps the types.
LEMMA MinionTypes ==
  ASSUME TypeOK, Minion
  PROVE  TypeOK'
<1>1. CASE Start
  <2> DEFINE j == Head(inbox)
  <2>1. j \in Jids /\ inbox' \in Seq(Jids)
    BY <1>1, HeadTypes DEF Start
  <2>2. \E state \in JobStates : jobs' = [jobs EXCEPT ![j].state = state]
    <3>1. {"busy", "failed", "ok", "running"} \subseteq JobStates
      BY DEF JobStates
    <3> QED
      BY <1>1, <3>1 DEF Start
  <2>3. jobs' \in [Jids -> Job]
    BY <2>1, <2>2, JobUpdateTypes
  <2>4. disk' \in [Volumes -> Storage]
    BY <1>1 DEF Start, TypeOK, Storage
  <2> QED
    BY <1>1, <2>1, <2>3, <2>4 DEF Start, TypeOK, api, cache
<1>2. ASSUME NEW j \in Jids, Complete(j)
      PROVE  TypeOK'
  <2>1. jobs' \in [Jids -> Job]
    BY <1>2, JobUpdateTypes DEF Complete, JobStates
  <2>2. disk' \in [Volumes -> Storage]
    BY <1>2 DEF Complete, Outcomes, Wanted, Storage, TypeOK
  <2> QED
    BY <1>2, <2>1, <2>2 DEF Complete, TypeOK, api, cache
<1> QED
  BY <1>1, <1>2 DEF Minion

LEMMA ChangePvTypes ==
  ASSUME TypeOK, NEW v \in Volumes, NEW p \in Pv, ChangePv(v, p),
         faults' \in 0..MaxFaults
  PROVE  TypeOK'
<1>1. /\ pv' \in [Volumes -> Pv] /\ pvcache' \in [Volumes -> Pv]
      /\ PvEvent(v, p) \subseteq Volumes
  BY WriteTypes DEF ChangePv
<1> QED
  BY <1>1 DEF ChangePv, TypeOK, salt

\* A step of a user or of Kubernetes keeps the types.
LEMMA EnvironmentTypes ==
  ASSUME TypeOK, NEW v \in Volumes, Environment(v)
  PROVE  TypeOK'
<1>1. CASE CreateVolume(v)
  <2>1. PICK valid \in BOOLEAN :
          LET o == [NoVolume EXCEPT !.uid = born[v] + 1, !.valid = valid]
          IN SetVolume(v, o) /\ queue' = queue \cup VolumeEvent(v, o)
    BY <1>1 DEF CreateVolume
  <2> DEFINE o == [NoVolume EXCEPT !.uid = born[v] + 1, !.valid = valid]
  <2>2. born[v] + 1 \in 0..MaxUid
    BY <1>1, BoundsAssumption DEF CreateVolume, TypeOK
  <2>3. o \in Volume
    BY <2>2, StatusTypes DEF NoVolume, Volume
  <2>4. SetVolume(v, o) /\ queue' = queue \cup VolumeEvent(v, o)
    BY <2>1
  <2>5. /\ vol' \in [Volumes -> Volume] /\ vcache' \in [Volumes -> Volume]
        /\ VolumeEvent(v, o) \subseteq Volumes
    BY <2>3, <2>4, WriteTypes
  <2>6. born' \in [Volumes -> 0..MaxUid]
    BY <1>1, <2>2 DEF CreateVolume, TypeOK
  <2>7. disk' \in [Volumes -> Storage] /\ unlinked' \subseteq Volumes
    BY <1>1 DEF CreateVolume, TypeOK, Storage
  <2> QED
    BY <1>1, <2>4, <2>5, <2>6, <2>7 DEF CreateVolume, TypeOK
<1>2. CASE DeleteVolume(v)
  <2> DEFINE o == Collected([vol[v] EXCEPT !.deleting = TRUE])
  <2>1. o \in Volume
    BY VolumeTypes DEF TypeOK
  <2>2. SetVolume(v, o) /\ queue' = queue \cup VolumeEvent(v, o)
    BY <1>2 DEF DeleteVolume
  <2>3. /\ vol' \in [Volumes -> Volume] /\ vcache' \in [Volumes -> Volume]
        /\ VolumeEvent(v, o) \subseteq Volumes
    BY <2>1, <2>2, WriteTypes
  <2> QED
    BY <1>2, <2>2, <2>3 DEF DeleteVolume, TypeOK, salt
<1>3. CASE \/ CreateForeignPv(v) \/ UserDeletePv(v) \/ Bind(v) \/ Release(v)
           \/ Offer(v) \/ Recover(v) \/ Unprotect(v)
  <2>1. pv[v] \in Pv /\ faults \in 0..MaxFaults
    BY DEF TypeOK
  <2>2. [NoPv EXCEPT !.there = TRUE, !.phase = "Available", !.inuse = TRUE] \in Pv
    BY PvTypes DEF PvPhases
  <2>3. /\ \A phase \in PvPhases : [pv[v] EXCEPT !.phase = phase] \in Pv
        /\ CollectedPv([pv[v] EXCEPT !.deleting = TRUE]) \in Pv
        /\ CollectedPv([pv[v] EXCEPT !.inuse = FALSE]) \in Pv
    BY <2>1, PvTypes
  <2>4. (\E p \in Pv : ChangePv(v, p)) /\ UNCHANGED faults
    BY <1>3, <2>2, <2>3
       DEF CreateForeignPv, UserDeletePv, Bind, Release, Offer, Recover,
           Unprotect, PvPhases
  <2> QED
    BY <2>1, <2>4, ChangePvTypes
<1> QED
  BY <1>1, <1>2, <1>3 DEF Environment

\* A fault keeps the types.
LEMMA FaultTypes ==
  ASSUME TypeOK, FaultStep
  PROVE  TypeOK'
<1>f. faults' \in 0..MaxFaults
  <2>1. \E kind \in FaultKinds : Fault(kind)
    BY DEF FaultStep, Crash, CallFails, PollFails, SizeFails, LoseMessage,
           MinionRestart, MasterRestart, AnswerLost, JobFails, PvFails, FaultKinds
  <2> QED
    BY <2>1, BoundsAssumption DEF Fault, TypeOK
<1>c. ctl \in Control /\ ctl.vol \in Volume /\ ctl.vol.status \in Status
  BY VolumeTypes DEF TypeOK, Control
<1>1. CASE Crash
  BY <1>1, <1>f, IdleType DEF Crash, TypeOK, api, salt
<1>2. CASE CallFails
  <2>1. ctl' \in Control /\ queue' \subseteq Volumes
    BY <1>2, FinishTypes DEF CallFails
  <2> QED
    BY <1>2, <1>f, <2>1 DEF CallFails, TypeOK, api, salt
<1>3. CASE PollFails
  <2>1. JobStatus("") \in Status
    BY JobStatusTypes DEF JobValues
  <2>2. ctl' \in Control
    BY <1>3, <1>c, <2>1 DEF PollFails, GoSave, Control, Steps, AfterSave
  <2> QED
    BY <1>3, <1>f, <2>2 DEF PollFails, TypeOK, api, cache, salt
<1>4. CASE SizeFails
  <2>1. FailedStatus(ctl.vol.status, "CreationError") \in Status
    BY <1>c, StatusTypes DEF Reasons
  <2>2. ctl' \in Control
    BY <1>4, <1>c, <2>1 DEF SizeFails, GoSave, Control, Steps, AfterSave
  <2> QED
    BY <1>4, <1>f, <2>2 DEF SizeFails, TypeOK, api, cache, salt
<1>5. CASE LoseMessage
  <2>1. inbox' \in Seq(Jids) /\ jobs' \in [Jids -> Job]
    BY <1>5, HeadTypes, JobUpdateTypes DEF LoseMessage, JobStates
  <2> QED
    BY <1>5, <1>f, <2>1 DEF LoseMessage, TypeOK, api, cache
<1>6. CASE MinionRestart
  <2>1. inbox' \in Seq(Jids) /\ jobs' \in [Jids -> Job]
    <3>1. inbox' \in Seq(Jids)
      BY <1>6, EmptySeq DEF MinionRestart
    <3> DEFINE job(j) == [jobs[j] EXCEPT
                            !.state = IF Active(j) THEN "lost" ELSE @]
    <3>2. jobs' = [j \in Jids |-> job(j)]
      BY <1>6 DEF MinionRestart
    <3>3. \A j \in Jids : job(j) \in Job
      BY DEF TypeOK, Job, JobStates
    <3> HIDE DEF job
    <3>4. jobs' \in [Jids -> Job]
      BY <3>2, <3>3
    <3> QED
      BY <3>1, <3>4
  <2> QED
    BY <1>6, <1>f, <2>1 DEF MinionRestart, Interrupted, TypeOK, api, cache
<1>7. CASE MasterRestart
  <2>1. jobs' \in [Jids -> Job]
    BY <1>7 DEF MasterRestart, TypeOK, Job
  <2> QED
    BY <1>7, <1>f, <2>1 DEF MasterRestart, TypeOK, api, cache
<1>8. ASSUME NEW j \in Jids, AnswerLost(j)
      PROVE  TypeOK'
  <2>1. jobs' \in [Jids -> Job] /\ inbox' \in Seq(Jids)
    BY <1>8, SpawnTypes DEF AnswerLost, JobKinds
  <2>2. ctl' \in Control /\ queue' \subseteq Volumes
    BY <1>8, FinishTypes DEF AnswerLost
  <2> QED
    BY <1>8, <1>f, <2>1, <2>2 DEF AnswerLost, TypeOK, api
<1>9. ASSUME NEW j \in Jids, JobFails(j)
      PROVE  TypeOK'
  <2>1. jobs' \in [Jids -> Job]
    BY <1>9, JobUpdateTypes DEF JobFails, JobStates
  <2> QED
    BY <1>9, <1>f, <2>1 DEF JobFails, Interrupted, TypeOK, api, cache
<1>10. ASSUME NEW v \in Volumes, PvFails(v)
       PROVE  TypeOK'
  <2>1. [pv[v] EXCEPT !.phase = "Failed"] \in Pv
    BY PvTypes DEF TypeOK, PvPhases
  <2> QED
    BY <1>10, <1>f, <2>1, ChangePvTypes DEF PvFails
<1> QED
  BY <1>1, <1>2, <1>3, <1>4, <1>5, <1>6, <1>7, <1>8, <1>9, <1>10 DEF FaultStep

LEMMA InitTypes == Init => TypeOK
<1> SUFFICES ASSUME Init PROVE TypeOK
  OBVIOUS
<1>1. PICK v \in Volumes :
        /\ ctl = [step |-> "idle", v |-> v, vol |-> NoVolume, pv |-> NoPv,
                  next |-> NewStatus, after |-> "end"]
        /\ jobs = [j \in Jids |-> [vol |-> v, kind |-> "prepare",
                                   state |-> "none", known |-> FALSE]]
  BY DEF Init
<1>2. ctl \in Control
  BY <1>1, StatusTypes, VolumeTypes, PvTypes DEF Control, Steps, AfterSave
<1>3. jobs \in [Jids -> Job]
  BY <1>1 DEF Job, JobKinds, JobStates
<1>4. inbox \in Seq(Jids)
  BY EmptySeq DEF Init
<1>5. /\ vol \in [Volumes -> Volume] /\ vcache \in [Volumes -> Volume]
      /\ pv \in [Volumes -> Pv] /\ pvcache \in [Volumes -> Pv]
  BY VolumeTypes, PvTypes DEF Init
<1>6. born \in [Volumes -> 0..MaxUid] /\ faults \in 0..MaxFaults
  BY BoundsAssumption DEF Init
<1>7. queue \subseteq Volumes /\ disk \in [Volumes -> Storage] /\ unlinked \subseteq Volumes
  BY DEF Init, Storage
<1> QED
  BY <1>2, <1>3, <1>4, <1>5, <1>6, <1>7 DEF TypeOK

LEMMA StepTypes == TypeOK /\ [Next]_vars => TypeOK'
<1> SUFFICES ASSUME TypeOK, [Next]_vars PROVE TypeOK'
  OBVIOUS
<1>1. CASE Worker
  BY <1>1, WorkerTypes
<1>2. CASE Minion
  BY <1>2, MinionTypes
<1>3. CASE FaultStep
  BY <1>3, FaultTypes
<1>4. ASSUME NEW v \in Volumes, Fetch(v)
      PROVE  TypeOK'
  BY <1>4, FetchTypes
<1>5. ASSUME NEW v \in Volumes, SyncVolume(v) \/ SyncPv(v)
      PROVE  TypeOK'
  BY <1>5, SyncTypes
<1>6. ASSUME NEW v \in Volumes, Environment(v)
      PROVE  TypeOK'
  BY <1>6, EnvironmentTypes
<1>7. CASE UNCHANGED vars
  BY <1>7 DEF vars, TypeOK
<1> QED
  BY <1>1, <1>2, <1>3, <1>4, <1>5, <1>6, <1>7 DEF Next

\* Every object, cached copy, job and step of a reconciliation is one that the
\* Go types and the Salt job cache can hold, whatever fails.
THEOREM TypeCorrect == Spec => []TypeOK
<1>1. Init => TypeOK
  BY InitTypes
<1>2. TypeOK /\ [Next]_vars => TypeOK'
  BY StepTypes
<1> QED
  BY <1>1, <1>2, PTL DEF Spec

-----------------------------------------------------------------------------
(* A Volume outlives its PersistentVolume.  The argument is about copies of *)
(* Volumes: the cached one and the one the reconciliation works on.         *)

Reclaiming == {"deletePv", "unprepare", "dropPv", "dropVolume"}
Deploying  == {"protect", "prepare", "size", "createPv"}

\* A Volume that was worked on has our finalizer.
WellFormed(o) == /\ o.deleting \/ o.status.job # "" => o.fin
                 /\ o.fin => Exists(o)

\* A copy with our finalizer is of the current Volume, unless it shows that
\* the Volume was being finalized.
Held(v, o) == o.fin /\ ~Finalizing(o) => vol[v].uid = o.uid /\ vol[v].fin

\* Finalization is never given up.
Onward(v, o) == Finalizing(o) /\ vol[v].uid = o.uid => Finalizing(vol[v])

Copy(v, o) == o.uid <= born[v] /\ WellFormed(o) /\ Held(v, o) /\ Onward(v, o)

\* The cache has caught up with what the reconciliation saw.
Caught(v, o) ==
  Finalizing(o) /\ vol[v].uid = o.uid /\ vcache[v].fin => Finalizing(vcache[v])

CacheInv ==
  /\ pvcache = pv
  /\ \A v \in Volumes : /\ vol[v].uid <= born[v] /\ WellFormed(vol[v])
                        /\ Copy(v, vcache[v])

CtlInv == Copy(ctl.v, ctl.vol) /\ Caught(ctl.v, ctl.vol)

\* What a reconciliation has seen when it makes its next call.
StepInv ==
  /\ IF ctl.step = "idle" THEN ctl.vol = NoVolume ELSE Exists(ctl.vol)
  /\ ctl.step \in {"idle", "lookup"} => ~ctl.pv.there
  /\ ctl.step \in Reclaiming => Finalizing(ctl.vol)
  /\ ctl.step \in Deploying => ~Finalizing(ctl.vol)
  /\ ctl.step \in {"poll", "prepare", "size", "createPv"} => ctl.vol.fin
  /\ ctl.step = "poll" /\ ctl.pv.there => Finalizing(ctl.vol)
  /\ ctl.step = "save" =>
       /\ ctl.next.job # "" => ctl.vol.fin
       /\ Finalizing(ctl.vol) => ctl.next.phase # "Pending"
       /\ ctl.after = "failPv" /\ ctl.pv.there => Finalizing(ctl.vol)
  /\ ctl.step = "dropPv" => ctl.pv.deleting /\ ~ctl.pv.inuse
  /\ ctl.step = "dropVolume" => pv[ctl.v].owner = 0

PvInv ==
  \A v \in Volumes :
    pv[v].owner # 0 => pv[v].there /\ vol[v].uid = pv[v].owner /\ vol[v].fin

OutlivesInv == CacheInv /\ CtlInv /\ StepInv /\ PvInv

\* Objects and copies stay as they are.
LEMMA Kept ==
  ASSUME UNCHANGED <<born, vol, pv, vcache, pvcache>>, CacheInv, PvInv
  PROVE  /\ CacheInv' /\ PvInv'
         /\ \A u, c : Copy(u, c) /\ Caught(u, c) => Copy(u, c)' /\ Caught(u, c)'
BY DEF CacheInv, PvInv, Copy, Caught, Held, Onward

LEMMA Stopped ==
  ASSUME ctl' = Idle, ctl.v \in Volumes, TypeOK'
  PROVE  CtlInv' /\ StepInv'
<1>1. /\ ctl'.vol = NoVolume /\ ctl'.v = ctl.v /\ ctl'.step = "idle"
      /\ ~ctl'.pv.there
  BY DEF Idle, NoPv
<1>2. /\ ~NoVolume.fin /\ ~NoVolume.deleting /\ NoVolume.uid = 0
      /\ NoVolume.status.job = ""
  BY DEF NoVolume, NewStatus
<1>3. ~Finalizing(NoVolume) /\ WellFormed(NoVolume)
  BY <1>2 DEF Finalizing, WellFormed
<1>4. 0 <= born'[ctl'.v]
  BY <1>1, BoundsAssumption DEF TypeOK
<1>5. CtlInv'
  BY <1>1, <1>2, <1>3, <1>4 DEF CtlInv, Copy, Caught, Held, Onward
<1>6. StepInv'
  BY <1>1 DEF StepInv, Reclaiming, Deploying
<1> QED
  BY <1>5, <1>6

\* A write that keeps the identity, the finalizer and the finalization of a
\* Volume keeps what copies say of it.
LEMMA Written ==
  ASSUME TypeOK, CacheInv, PvInv, NEW v \in Volumes, NEW o \in Volume,
         SetVolume(v, o), UNCHANGED <<born, pv, pvcache>>,
         o.uid = vol[v].uid, vol[v].fin => o.fin,
         Finalizing(vol[v]) => Finalizing(o), WellFormed(o)
  PROVE  /\ CacheInv' /\ PvInv' /\ vol'[v] = o
         /\ \A u \in Volumes, c \in Volume :
              Copy(u, c) /\ Caught(u, c) => Copy(u, c)' /\ Caught(u, c)'
<1>1. /\ vol'[v] = o
      /\ \A u \in Volumes : u # v => vol'[u] = vol[u] /\ vcache'[u] = vcache[u]
      /\ vcache'[v] = vcache[v] \/ vcache'[v] = o
  BY DEF SetVolume, TypeOK
<1>2. \A u \in Volumes, c \in Volume :
        /\ Held(u, c) => Held(u, c)'
        /\ Onward(u, c) => Onward(u, c)'
  BY <1>1 DEF Held, Onward
<1>3. \A u \in Volumes, c \in Volume :
        Onward(u, c) /\ Caught(u, c) => Caught(u, c)'
  BY <1>1 DEF Onward, Caught
<1>4. \A u \in Volumes : /\ vol'[u].uid <= born'[u] /\ WellFormed(vol'[u])
                         /\ Copy(u, vcache[u])'
  <2> SUFFICES ASSUME NEW u \in Volumes
               PROVE  /\ vol'[u].uid <= born'[u] /\ WellFormed(vol'[u])
                      /\ Copy(u, vcache[u])'
    OBVIOUS
  <2>1. vcache[u] \in Volume
    BY DEF TypeOK
  <2>2. vol'[u].uid <= born'[u] /\ WellFormed(vol'[u])
    BY <1>1 DEF CacheInv
  <2>3. CASE vcache'[u] = vcache[u]
    BY <1>2, <2>1, <2>2, <2>3 DEF CacheInv, Copy, Held, Onward
  <2>4. CASE vcache'[u] = vol'[u]
    BY <2>2, <2>4 DEF Copy, Held, Onward
  <2> QED
    BY <1>1, <2>2, <2>3, <2>4
<1>5. PvInv'
  BY <1>1 DEF PvInv
<1> QED
  BY <1>1, <1>2, <1>3, <1>4, <1>5 DEF CacheInv, Copy

\* A Volume of which no copy counts on it may go.
LEMMA Gone ==
  ASSUME TypeOK, CacheInv, PvInv, NEW v \in Volumes,
         SetVolume(v, NoVolume), UNCHANGED <<born, pv, pvcache>>,
         vcache[v].fin => Finalizing(vcache[v]), pv[v].owner = 0
  PROVE  /\ CacheInv' /\ PvInv'
         /\ \A u \in Volumes, c \in Volume :
              Copy(u, c) /\ Caught(u, c) /\ (u = v /\ c.fin => Finalizing(c))
                => Copy(u, c)' /\ Caught(u, c)'
<1>1. /\ vol'[v] = NoVolume
      /\ \A u \in Volumes : u # v => vol'[u] = vol[u] /\ vcache'[u] = vcache[u]
      /\ vcache'[v] = vcache[v] \/ vcache'[v] = NoVolume
  BY DEF SetVolume, TypeOK
<1>2. /\ NoVolume.uid = 0 /\ ~NoVolume.fin /\ ~NoVolume.deleting
      /\ NoVolume.status.job = ""
  BY DEF NoVolume, NewStatus
<1>3. \A c : WellFormed(c) /\ Finalizing(c) => c.uid # 0
  BY DEF WellFormed, Finalizing, Exists
<1>4. \A u \in Volumes, c \in Volume :
        Copy(u, c) /\ Caught(u, c) /\ (u = v /\ c.fin => Finalizing(c))
          => Copy(u, c)' /\ Caught(u, c)'
  BY <1>1, <1>2, <1>3 DEF Copy, Caught, Held, Onward
<1>5. \A u \in Volumes : /\ vol'[u].uid <= born'[u] /\ WellFormed(vol'[u])
                         /\ Copy(u, vcache[u])'
  <2> SUFFICES ASSUME NEW u \in Volumes
               PROVE  /\ vol'[u].uid <= born'[u] /\ WellFormed(vol'[u])
                      /\ Copy(u, vcache[u])'
    OBVIOUS
  <2>1. vcache[u] \in Volume /\ 0 <= born[u]
    BY BoundsAssumption DEF TypeOK
  <2>2. vol'[u].uid <= born'[u] /\ WellFormed(vol'[u])
    BY <1>1, <1>2, <2>1 DEF CacheInv, WellFormed
  <2>3. CASE vcache'[u] = vcache[u]
    BY <1>1, <1>2, <1>3, <2>1, <2>2, <2>3 DEF CacheInv, Copy, Held, Onward
  <2>4. CASE vcache'[u] = vol'[u]
    BY <2>2, <2>4 DEF Copy, Held, Onward
  <2> QED
    BY <1>1, <2>2, <2>3, <2>4
<1>6. PvInv'
  BY <1>1 DEF PvInv
<1> QED
  BY <1>4, <1>5, <1>6 DEF CacheInv

\* A change of a PersistentVolume that gives it no new owner.
LEMMA PvWritten ==
  ASSUME TypeOK, CacheInv, PvInv, ~LagPv, NEW v \in Volumes, NEW p \in Pv,
         SetPv(v, p), UNCHANGED <<born, vol, vcache>>,
         p.owner # 0 => /\ p.there
                        /\ \/ p.owner = pv[v].owner
                           \/ p.owner = vol[v].uid /\ vol[v].fin
  PROVE  /\ CacheInv' /\ PvInv'
         /\ \A u, c : Copy(u, c) /\ Caught(u, c) => Copy(u, c)' /\ Caught(u, c)'
<1>1. pv' = [pv EXCEPT ![v] = p] /\ pvcache' = pv'
  BY DEF SetPv, CacheInv
<1>2. PvInv'
  BY <1>1 DEF PvInv, TypeOK
<1>3. \A u, c : /\ Copy(u, c) => Copy(u, c)'
                /\ Caught(u, c) => Caught(u, c)'
  BY DEF Copy, Caught, Held, Onward
<1>4. \A u \in Volumes : Copy(u, vcache[u])'
  BY DEF CacheInv, Copy, Held, Onward
<1> QED
  BY <1>1, <1>2, <1>3, <1>4 DEF CacheInv

\* A reconciliation that ends without a write.
LEMMA StoppedKept ==
  ASSUME TypeOK, TypeOK', OutlivesInv, ctl' = Idle,
         UNCHANGED <<born, vol, pv, vcache, pvcache>>
  PROVE  OutlivesInv'
<1>1. ctl.v \in Volumes
  BY DEF TypeOK, Control
<1> QED
  BY <1>1, Stopped, Kept DEF OutlivesInv

\* A reconciliation that goes on, without a write, with the same Volume.
LEMMA WentOn ==
  ASSUME OutlivesInv, ctl'.v = ctl.v, ctl'.vol = ctl.vol,
         UNCHANGED <<born, vol, pv, vcache, pvcache>>
  PROVE  CacheInv' /\ CtlInv' /\ PvInv'
<1>1. CacheInv' /\ PvInv' /\ Copy(ctl.v, ctl.vol)' /\ Caught(ctl.v, ctl.vol)'
  BY DEF OutlivesInv, CacheInv, CtlInv, PvInv, Copy, Caught, Held, Onward
<1> QED
  BY <1>1 DEF CtlInv

\* The new step after GoSave.
LEMMA SaveStep ==
  ASSUME OutlivesInv, ctl \in Control, NEW s, NEW a, GoSave(ctl, s, a),
         ctl.step # "idle", s.job # "" => ctl.vol.fin,
         Finalizing(ctl.vol) => s.phase # "Pending",
         a = "failPv" /\ ctl.pv.there => Finalizing(ctl.vol)
  PROVE  StepInv' /\ ctl'.v = ctl.v /\ ctl'.vol = ctl.vol
<1>1. /\ ctl'.v = ctl.v /\ ctl'.vol = ctl.vol /\ ctl'.pv = ctl.pv
      /\ ctl'.step = "save" /\ ctl'.next = s /\ ctl'.after = a
  BY DEF GoSave, Control
<1> QED
  BY <1>1 DEF OutlivesInv, StepInv, Reclaiming, Deploying

LEMMA FailedSave ==
  \A o, why : /\ FailedStatus(o.status, why).job = o.status.job
              /\ FailedStatus(o.status, why).phase = "Failed"
BY DEF FailedStatus

LEMMA JobSave ==
  /\ \A job : /\ JobStatus(job).job = job
              /\ Finalizing(ctl.vol) => JobStatus(job).phase # "Pending"
  /\ \A job : /\ PendingStatus(job).job = job
              /\ TerminatingStatus(job).job = job
              /\ TerminatingStatus(job).phase # "Pending"
  /\ AvailableStatus.job = "" /\ AvailableStatus.phase # "Pending"
BY DEF JobStatus, PendingStatus, TerminatingStatus, AvailableStatus

LEMMA FetchOutlives ==
  ASSUME TypeOK, TypeOK', OutlivesInv, NEW v \in Volumes, Fetch(v)
  PROVE  OutlivesInv'
<1> DEFINE o == vcache[v]
<1>1. UNCHANGED <<born, vol, pv, vcache, pvcache>> /\ ctl.step = "idle"
  BY DEF Fetch, api
<1>2. /\ CacheInv' /\ PvInv' /\ o \in Volume /\ WellFormed(o)
      /\ Copy(v, o)' /\ Caught(v, o)'
  BY <1>1 DEF OutlivesInv, CacheInv, PvInv, TypeOK, Copy, Caught, Held, Onward
<1>3. CASE ctl' = [Idle EXCEPT !.v = v]
  <2>1. /\ ctl'.vol = NoVolume /\ ctl'.v = v /\ ctl'.step = "idle"
        /\ ~ctl'.pv.there
    BY <1>3 DEF Idle, NoPv
  <2>2. /\ ~NoVolume.fin /\ ~NoVolume.deleting /\ NoVolume.uid = 0
        /\ NoVolume.status.job = ""
    BY DEF NoVolume, NewStatus
  <2>3. 0 <= born'[v]
    BY BoundsAssumption DEF TypeOK
  <2>4. CtlInv'
    BY <2>1, <2>2, <2>3
       DEF CtlInv, Copy, Caught, Held, Onward, WellFormed, Finalizing
  <2>5. StepInv'
    BY <2>1 DEF StepInv, Reclaiming, Deploying
  <2> QED
    BY <1>2, <2>4, <2>5 DEF OutlivesInv
<1>4. CASE /\ Exists(o)
           /\ GoSave([ctl EXCEPT !.v = v, !.vol = o],
                     FailedStatus(o.status, "InternalError"), "requeue")
  <2>1. /\ ctl'.v = v /\ ctl'.vol = o /\ ctl'.step = "save"
        /\ ctl'.next = FailedStatus(o.status, "InternalError")
        /\ ctl'.after = "requeue"
    BY <1>4 DEF GoSave, TypeOK, Control
  <2>2. StepInv'
    BY <1>2, <1>4, <2>1, FailedSave DEF StepInv, Reclaiming, Deploying, WellFormed
  <2> QED
    BY <1>1, <1>2, <2>1, <2>2 DEF OutlivesInv, CtlInv, Copy, Caught, Held, Onward
<1>5. CASE /\ Exists(o)
           /\ ctl' = [ctl EXCEPT !.v = v, !.vol = o, !.step = "lookup"]
  <2>1. ctl'.v = v /\ ctl'.vol = o /\ ctl'.step = "lookup" /\ ctl'.pv = ctl.pv
    BY <1>5 DEF TypeOK, Control
  <2>2. ~ctl.pv.there
    BY <1>1 DEF OutlivesInv, StepInv
  <2>3. StepInv'
    BY <1>5, <2>1, <2>2 DEF StepInv, Reclaiming, Deploying
  <2> QED
    BY <1>1, <1>2, <2>1, <2>3 DEF OutlivesInv, CtlInv, Copy, Caught, Held, Onward
<1>6. \/ ctl' = [Idle EXCEPT !.v = v]
      \/ /\ Exists(o)
         /\ GoSave([ctl EXCEPT !.v = v, !.vol = o],
                   FailedStatus(o.status, "InternalError"), "requeue")
      \/ /\ Exists(o)
         /\ ctl' = [ctl EXCEPT !.v = v, !.vol = o, !.step = "lookup"]
  BY DEF Fetch
<1> QED
  BY <1>3, <1>4, <1>5, <1>6

LEMMA LookupOutlives ==
  ASSUME TypeOK, TypeOK', OutlivesInv, Lookup
  PROVE  OutlivesInv'
<1> DEFINE o == ctl.vol
           p == pvcache[ctl.v]
<1>1. /\ UNCHANGED <<born, vol, pv, vcache, pvcache>> /\ ctl.step = "lookup"
      /\ ctl \in Control /\ ctl.v \in Volumes /\ p = pv[ctl.v] /\ p \in Pv
      /\ Exists(o) /\ WellFormed(o) /\ ~ctl.pv.there
  BY DEF Lookup, api, TypeOK, Control, OutlivesInv, CacheInv, CtlInv, StepInv, Copy
<1>2. /\ p.owner # 0 => p.there
      /\ Finalizing(o) => o.fin
  BY <1>1 DEF OutlivesInv, PvInv, WellFormed, Finalizing
<1>3. CASE ctl' = Idle
  BY <1>1, <1>3, StoppedKept
<1>4. ASSUME NEW s, NEW a, GoSave(ctl, s, a), ~Finalizing(o), a # "failPv",
             s.job = "" \/ s.job = o.status.job
      PROVE  OutlivesInv'
  <2>1. StepInv' /\ ctl'.v = ctl.v /\ ctl'.vol = ctl.vol
    BY <1>1, <1>4, SaveStep DEF WellFormed
  <2> QED
    BY <1>1, <2>1, WentOn DEF OutlivesInv
<1>5. ASSUME NEW step, ctl' = [ctl EXCEPT !.pv = p, !.step = step],
             step \notin {"idle", "lookup", "save"},
             step \in Reclaiming => Finalizing(o),
             step \in Deploying => ~Finalizing(o),
             step \in {"poll", "prepare", "size", "createPv"} => o.fin,
             step = "poll" /\ p.there => Finalizing(o),
             step = "dropPv" => p.deleting /\ ~p.inuse,
             step = "dropVolume" => ~p.there
      PROVE  OutlivesInv'
  <2>1. ctl'.v = ctl.v /\ ctl'.vol = o /\ ctl'.pv = p /\ ctl'.step = step
    BY <1>1, <1>5 DEF Control
  <2>2. StepInv'
    BY <1>1, <1>2, <1>5, <2>1 DEF StepInv
  <2> QED
    BY <1>1, <2>1, <2>2, WentOn DEF OutlivesInv
<1>6. CASE Finalizing(o) /\ Go("deletePv")
  <2>1. ctl'.v = ctl.v /\ ctl'.vol = o /\ ctl'.step = "deletePv"
    BY <1>1, <1>6 DEF Go, Control
  <2>2. StepInv'
    BY <1>1, <1>6, <2>1 DEF StepInv, Reclaiming, Deploying
  <2> QED
    BY <1>1, <2>1, <2>2, WentOn DEF OutlivesInv
<1>7. CASE /\ Finalizing(o)
           /\ p.there => p.deleting /\ PersistentVolumeUnused(p)
           /\ ctl' = [ctl EXCEPT !.pv = p, !.step = ReclaimStep(CurrentJob(o), p)]
  <2>1. PICK step : /\ ctl' = [ctl EXCEPT !.pv = p, !.step = step]
                    /\ \/ step = "unprepare"
                       \/ step = "poll"
                       \/ step = "dropPv" /\ p.there
                       \/ step = "dropVolume" /\ ~p.there
    BY <1>7 DEF ReclaimStep
  <2> QED
    BY <1>2, <1>5, <1>7, <2>1 DEF Reclaiming, Deploying, PersistentVolumeUnused
<1>8. CASE /\ ~Finalizing(o) /\ ~p.there
           /\ ctl' = [ctl EXCEPT !.pv = p, !.step = DeployStep(o.status.job)]
  <2>1. PICK step : /\ ctl' = [ctl EXCEPT !.pv = p, !.step = step]
                    /\ \/ step = "protect"
                       \/ step \in {"size", "poll"} /\ o.status.job # ""
    BY <1>8 DEF DeployStep
  <2>2. o.status.job # "" => o.fin
    BY <1>1 DEF WellFormed
  <2> QED
    BY <1>5, <1>8, <2>1, <2>2 DEF Reclaiming, Deploying
<1>9. CASE /\ ~Finalizing(o)
           /\ \/ GoSave(ctl, FailedStatus(o.status, "UnavailableError"), "requeue")
              \/ GoSave(ctl, AvailableStatus, "end")
  BY <1>4, <1>9, FailedSave, JobSave
<1>10. \/ ctl' = Idle
       \/ Finalizing(o) /\ Go("deletePv")
       \/ /\ Finalizing(o)
          /\ p.there => p.deleting /\ PersistentVolumeUnused(p)
          /\ ctl' = [ctl EXCEPT !.pv = p, !.step = ReclaimStep(CurrentJob(o), p)]
       \/ /\ ~Finalizing(o) /\ ~p.there
          /\ ctl' = [ctl EXCEPT !.pv = p, !.step = DeployStep(o.status.job)]
       \/ /\ ~Finalizing(o)
          /\ \/ GoSave(ctl, FailedStatus(o.status, "UnavailableError"), "requeue")
             \/ GoSave(ctl, AvailableStatus, "end")
  BY DEF Lookup, Requeue, Finish
<1> QED
  BY <1>3, <1>6, <1>7, <1>8, <1>9, <1>10

\* The end of a reconciliation after a write.
LEMMA StoppedAfter ==
  ASSUME TypeOK, TypeOK', ctl' = Idle, CacheInv', PvInv'
  PROVE  OutlivesInv'
<1>1. ctl.v \in Volumes
  BY DEF TypeOK, Control
<1> QED
  BY <1>1, Stopped DEF OutlivesInv

\* The writes of a Volume by the worker.
LEMMA VolumeWritesOutlive ==
  ASSUME TypeOK, TypeOK', OutlivesInv, Save \/ Protect \/ DropVolume
  PROVE  OutlivesInv'
<1>1. /\ ctl \in Control /\ ctl.v \in Volumes /\ ctl.vol \in Volume
      /\ CacheInv /\ PvInv /\ WellFormed(ctl.vol)
      /\ Copy(ctl.v, ctl.vol) /\ Caught(ctl.v, ctl.vol)
  BY DEF TypeOK, Control, OutlivesInv, CtlInv, Copy
<1>2. CASE Refused
  BY <1>2, StoppedKept DEF Refused, Requeue, Finish
<1>3. CASE Save /\ ~Refused
  <2> DEFINE o == [ctl.vol EXCEPT !.status = ctl.next]
  <2>1. /\ ctl.step = "save" /\ vol[ctl.v] = ctl.vol /\ SetVolume(ctl.v, o)
        /\ UNCHANGED <<born, pv, pvcache>>
        /\ \/ ctl' = Idle
           \/ /\ ctl.after = "failPv" /\ ctl.pv.there
              /\ ctl' = [ctl EXCEPT !.vol = o, !.step = "failPv"]
    BY <1>3 DEF Save, Finish, Requeue
  <2>2. /\ o \in Volume /\ o.uid = ctl.vol.uid /\ o.fin = ctl.vol.fin
        /\ o.deleting = ctl.vol.deleting /\ o.status = ctl.next
    BY <1>1, VolumeTypes DEF Volume, Control
  <2>3. /\ ctl.next.job # "" => ctl.vol.fin
        /\ Finalizing(ctl.vol) => ctl.next.phase # "Pending"
        /\ ctl.after = "failPv" /\ ctl.pv.there => Finalizing(ctl.vol)
        /\ Exists(ctl.vol)
    BY <2>1 DEF OutlivesInv, StepInv
  <2>4. (Finalizing(ctl.vol) => Finalizing(o)) /\ WellFormed(o) /\ Exists(o)
    BY <1>1, <2>2, <2>3 DEF Finalizing, WellFormed, Exists
  <2> HIDE DEF o
  <2>5. CacheInv' /\ PvInv' /\ vol'[ctl.v] = o
    BY <1>1, <2>1, <2>2, <2>4, Written
  <2>6. CASE ctl' = Idle
    BY <2>5, <2>6, StoppedAfter
  <2>7. CASE /\ ctl.after = "failPv" /\ ctl.pv.there
             /\ ctl' = [ctl EXCEPT !.vol = o, !.step = "failPv"]
    <3>1. ctl'.v = ctl.v /\ ctl'.vol = o /\ ctl'.step = "failPv"
      BY <1>1, <2>7 DEF Control
    <3>2. StepInv'
      BY <2>4, <3>1 DEF StepInv, Reclaiming, Deploying
    <3>3. Finalizing(ctl.vol)
      BY <2>3, <2>7
    <3>4. vcache'[ctl.v].fin => Finalizing(vcache'[ctl.v])
      BY <1>1, <2>1, <2>4, <3>3 DEF Caught, SetVolume, TypeOK
    <3>5. o.uid <= born'[ctl.v]
      BY <1>1, <2>1, <2>2 DEF Copy
    <3>6. CtlInv'
      BY <2>4, <2>5, <3>1, <3>4, <3>5 DEF CtlInv, Copy, Caught, Held, Onward
    <3> QED
      BY <2>5, <3>2, <3>6 DEF OutlivesInv
  <2> QED
    BY <2>1, <2>6, <2>7
<1>4. CASE Protect /\ ~Refused
  <2> DEFINE o == [ctl.vol EXCEPT !.fin = TRUE]
  <2>1. /\ ctl.step = "protect" /\ vol[ctl.v] = ctl.vol /\ SetVolume(ctl.v, o)
        /\ UNCHANGED <<born, pv, pvcache>>
        /\ ctl' = [ctl EXCEPT !.vol = o, !.step = "prepare"]
    BY <1>4 DEF Protect
  <2>2. /\ o \in Volume /\ o.uid = ctl.vol.uid /\ o.fin
        /\ o.deleting = ctl.vol.deleting /\ o.status = ctl.vol.status
    BY <1>1, VolumeTypes DEF Volume
  <2>3. ~Finalizing(ctl.vol) /\ Exists(ctl.vol)
    BY <2>1 DEF OutlivesInv, StepInv, Deploying
  <2>4. ~Finalizing(o) /\ WellFormed(o) /\ Exists(o)
    BY <1>1, <2>2, <2>3 DEF Finalizing, WellFormed, Exists
  <2> HIDE DEF o
  <2>5. CacheInv' /\ PvInv' /\ vol'[ctl.v] = o
    BY <1>1, <2>1, <2>2, <2>3, <2>4, Written
  <2>6. ctl'.v = ctl.v /\ ctl'.vol = o /\ ctl'.step = "prepare"
    BY <1>1, <2>1 DEF Control
  <2>7. o.uid <= born'[ctl.v]
    BY <1>1, <2>1, <2>2 DEF Copy
  <2>8. CtlInv'
    BY <2>2, <2>4, <2>5, <2>6, <2>7 DEF CtlInv, Copy, Caught, Held, Onward
  <2>9. StepInv'
    BY <2>2, <2>4, <2>6 DEF StepInv, Reclaiming, Deploying
  <2> QED
    BY <2>5, <2>8, <2>9 DEF OutlivesInv
<1>5. CASE DropVolume /\ ~Refused
  <2> DEFINE o == Collected([ctl.vol EXCEPT !.fin = FALSE])
  <2>1. /\ ctl.step = "dropVolume" /\ vol[ctl.v] = ctl.vol
        /\ SetVolume(ctl.v, o) /\ UNCHANGED <<born, pv, pvcache>>
        /\ ctl' = Idle
    BY <1>5 DEF DropVolume, Finish
  <2>2. Finalizing(ctl.vol) /\ pv[ctl.v].owner = 0
    BY <2>1 DEF OutlivesInv, StepInv, Reclaiming
  <2>3. o = NoVolume
    BY <1>1, <2>2 DEF Finalizing, Collected, Volume
  <2>4. vcache[ctl.v].fin => Finalizing(vcache[ctl.v])
    BY <1>1, <2>1, <2>2 DEF Caught
  <2>5. CacheInv' /\ PvInv'
    BY <1>1, <2>1, <2>2, <2>3, <2>4, Gone
  <2> QED
    BY <2>1, <2>5, StoppedAfter
<1> QED
  BY <1>2, <1>3, <1>4, <1>5

\* The writes of a PersistentVolume by the worker.
LEMMA PvWritesOutlive ==
  ASSUME TypeOK, TypeOK', OutlivesInv, ~LagPv,
         FailPv \/ CreatePv \/ DeletePv \/ DropPv
  PROVE  OutlivesInv'
<1>1. /\ ctl \in Control /\ ctl.v \in Volumes /\ ctl.vol \in Volume
      /\ ctl.pv \in Pv /\ pv[ctl.v] \in Pv
      /\ CacheInv /\ PvInv /\ Copy(ctl.v, ctl.vol) /\ Caught(ctl.v, ctl.vol)
      /\ pv[ctl.v].owner # 0 => pv[ctl.v].there
  BY DEF TypeOK, Control, OutlivesInv, CtlInv, PvInv
<1>2. CASE Refused
  BY <1>2, StoppedKept DEF Refused, Requeue, Finish
<1>3. CASE FailPv /\ ~Refused
  <2> DEFINE p == [ctl.pv EXCEPT !.phase = "Failed"]
  <2>1. /\ pv[ctl.v] = ctl.pv /\ SetPv(ctl.v, p) /\ ctl' = Idle
        /\ UNCHANGED <<born, vol, vcache>>
    BY <1>3 DEF FailPv, Requeue, Finish
  <2>2. p \in Pv
    BY <1>1, PvTypes DEF PvPhases
  <2>3. p.owner = ctl.pv.owner /\ p.there = ctl.pv.there
    BY <1>1 DEF Pv
  <2> HIDE DEF p
  <2>4. CacheInv' /\ PvInv'
    BY <1>1, <2>1, <2>2, <2>3, PvWritten
  <2> QED
    BY <2>1, <2>4, StoppedAfter
<1>4. CASE DeletePv
  <2> DEFINE p == IF pv[ctl.v].there
                  THEN CollectedPv([pv[ctl.v] EXCEPT !.deleting = TRUE])
                  ELSE NoPv
  <2>1. /\ SetPv(ctl.v, p) /\ ctl' = Idle /\ UNCHANGED <<born, vol, vcache>>
    BY <1>4 DEF DeletePv, Requeue, Finish
  <2>2. p \in Pv
    BY <1>1, PvTypes
  <2>3. p.owner # 0 => p.there /\ p.owner = pv[ctl.v].owner
    BY <1>1 DEF CollectedPv, NoPv, Pv
  <2> HIDE DEF p
  <2>4. CacheInv' /\ PvInv'
    BY <1>1, <2>1, <2>2, <2>3, PvWritten
  <2> QED
    BY <2>1, <2>4, StoppedAfter
<1>5. CASE CreatePv /\ ~Refused
  <2> DEFINE p == NewPv(ctl.vol.uid)
  <2>1. /\ ctl.step = "createPv" /\ SetPv(ctl.v, p)
        /\ GoSave(ctl, AvailableStatus, "requeue")
        /\ UNCHANGED <<born, vol, vcache>>
    BY <1>5 DEF CreatePv
  <2>2. ~Finalizing(ctl.vol) /\ ctl.vol.fin
    BY <2>1 DEF OutlivesInv, StepInv, Deploying
  <2>3. vol[ctl.v].uid = ctl.vol.uid /\ vol[ctl.v].fin
    BY <1>1, <2>2 DEF Copy, Held
  <2>4. p \in Pv /\ p.there /\ p.owner = ctl.vol.uid
    BY <1>1, PvTypes DEF NewPv, Volume
  <2> HIDE DEF p
  <2>5. /\ CacheInv' /\ PvInv'
        /\ \A u, c : Copy(u, c) /\ Caught(u, c) => Copy(u, c)' /\ Caught(u, c)'
    BY <1>1, <2>1, <2>3, <2>4, PvWritten
  <2>6. StepInv' /\ ctl'.v = ctl.v /\ ctl'.vol = ctl.vol
    BY <1>1, <2>1, SaveStep, JobSave
  <2>7. CtlInv'
    BY <1>1, <2>1, <2>6 DEF CtlInv, Copy, Caught, Held, Onward
  <2> QED
    BY <2>5, <2>6, <2>7 DEF OutlivesInv
<1>6. CASE DropPv /\ ~Refused
  <2> DEFINE p == CollectedPv([ctl.pv EXCEPT !.fin = FALSE])
  <2>1. /\ ctl.step = "dropPv" /\ SetPv(ctl.v, p) /\ Go("dropVolume")
        /\ UNCHANGED <<born, vol, vcache>>
    BY <1>6 DEF DropPv
  <2>2. /\ ctl.pv.deleting /\ ~ctl.pv.inuse /\ Finalizing(ctl.vol)
        /\ Exists(ctl.vol)
    BY <2>1 DEF OutlivesInv, StepInv, Reclaiming
  <2>3. p = NoPv /\ p \in Pv /\ p.owner = 0
    BY <1>1, <2>2, PvTypes DEF CollectedPv, Pv, NoPv
  <2> HIDE DEF p
  <2>4. /\ CacheInv' /\ PvInv'
        /\ \A u, c : Copy(u, c) /\ Caught(u, c) => Copy(u, c)' /\ Caught(u, c)'
    BY <1>1, <2>1, <2>3, PvWritten
  <2>5. ctl'.v = ctl.v /\ ctl'.vol = ctl.vol /\ ctl'.step = "dropVolume"
    BY <1>1, <2>1 DEF Go, Control
  <2>6. pv'[ctl.v].owner = 0
    BY <1>1, <2>1, <2>3 DEF SetPv, TypeOK
  <2>7. StepInv'
    BY <2>2, <2>5, <2>6 DEF StepInv, Reclaiming, Deploying
  <2>8. CtlInv'
    BY <1>1, <2>1, <2>5 DEF CtlInv, Copy, Caught, Held, Onward
  <2> QED
    BY <2>4, <2>7, <2>8 DEF OutlivesInv
<1> QED
  BY <1>2, <1>3, <1>4, <1>5, <1>6

\* Steps of the worker that write nothing to the API server.
LEMMA CallsOutlive ==
  ASSUME TypeOK, TypeOK', OutlivesInv,
         \/ Poll \/ Size \/ CallFails \/ PollFails \/ SizeFails
         \/ \E j \in Jids : PrepareVolume(j) \/ UnprepareVolume(j) \/ AnswerLost(j)
  PROVE  OutlivesInv'
<1>1. /\ UNCHANGED <<born, vol, pv, vcache, pvcache>> /\ ctl \in Control
      /\ WellFormed(ctl.vol) /\ (Finalizing(ctl.vol) => ctl.vol.fin)
  BY DEF Poll, Size, CallFails, PollFails, SizeFails, PrepareVolume,
         UnprepareVolume, AnswerLost, api, cache, TypeOK, OutlivesInv, CtlInv,
         Copy, WellFormed, Finalizing
<1>2. CASE ctl' = Idle
  BY <1>1, <1>2, StoppedKept
<1>3. ASSUME NEW s, NEW a, GoSave(ctl, s, a), ctl.step # "idle",
             s.job # "" => ctl.vol.fin,
             Finalizing(ctl.vol) => s.phase # "Pending",
             a = "failPv" /\ ctl.pv.there => Finalizing(ctl.vol)
      PROVE  OutlivesInv'
  BY <1>1, <1>3, SaveStep, WentOn DEF OutlivesInv
<1>4. CASE Poll \/ PollFails
  <2>1. /\ ctl.step = "poll" /\ ctl.vol.fin
        /\ ctl.pv.there => Finalizing(ctl.vol)
    BY <1>4 DEF Poll, PollFails, OutlivesInv, StepInv
  <2>2. \/ ctl' = Idle
        \/ GoSave(ctl, JobStatus(""), "requeue")
        \/ GoSave(ctl, JobStatus("DONE"), "requeue")
        \/ \E why : GoSave(ctl, FailedStatus(ctl.vol.status, why), "failPv")
    BY <1>4 DEF Poll, PollFails, Requeue, Finish
  <2> QED
    BY <1>2, <1>3, <2>1, <2>2, JobSave, FailedSave
<1>5. CASE Size \/ SizeFails
  <2>1. ctl.step = "size" /\ ctl.vol.fin /\ ~Finalizing(ctl.vol) /\ Exists(ctl.vol)
    BY <1>5 DEF Size, SizeFails, OutlivesInv, StepInv, Deploying
  <2>2. CASE Go("createPv")
    <3>1. ctl'.v = ctl.v /\ ctl'.vol = ctl.vol /\ ctl'.step = "createPv"
      BY <1>1, <2>2 DEF Go, Control
    <3>2. StepInv'
      BY <2>1, <3>1 DEF StepInv, Reclaiming, Deploying
    <3> QED
      BY <1>1, <3>1, <3>2, WentOn DEF OutlivesInv
  <2>3. CASE GoSave(ctl, FailedStatus(ctl.vol.status, "CreationError"), "requeue")
    BY <1>3, <2>1, <2>3, FailedSave
  <2> QED
    BY <1>5, <2>2, <2>3 DEF Size, SizeFails
<1>6. ASSUME NEW j \in Jids, PrepareVolume(j) \/ UnprepareVolume(j)
      PROVE  OutlivesInv'
  <2>1. \/ /\ ctl.step = "prepare" /\ GoSave(ctl, PendingStatus(j), "requeue")
           /\ ctl.vol.fin /\ ~Finalizing(ctl.vol)
        \/ /\ ctl.step = "unprepare"
           /\ GoSave(ctl, TerminatingStatus(j), "requeue") /\ Finalizing(ctl.vol)
    BY <1>6 DEF PrepareVolume, UnprepareVolume, OutlivesInv, StepInv,
                Reclaiming, Deploying
  <2> QED
    BY <1>1, <1>3, <2>1, JobSave
<1>7. CASE CallFails \/ \E j \in Jids : AnswerLost(j)
  BY <1>2, <1>7 DEF CallFails, AnswerLost, Requeue, Finish
<1> QED
  BY <1>4, <1>5, <1>6, <1>7

\* Steps that leave the reconciliation, the objects and the caches alone.
LEMMA OthersOutlive ==
  ASSUME OutlivesInv, UNCHANGED <<born, vol, pv, vcache, pvcache, ctl>>
  PROVE  OutlivesInv'
BY DEF OutlivesInv, CacheInv, CtlInv, StepInv, PvInv, Copy, Caught, Held, Onward

LEMMA SyncOutlives ==
  ASSUME TypeOK, OutlivesInv, ~LagPv, NEW v \in Volumes,
         SyncVolume(v) \/ SyncPv(v)
  PROVE  OutlivesInv'
<1>1. /\ vcache' = [vcache EXCEPT ![v] = vol[v]]
      /\ UNCHANGED <<born, vol, pv, pvcache, ctl>>
  BY DEF SyncVolume, SyncPv, api
<1>2. /\ ctl.v \in Volumes /\ ctl.vol \in Volume
      /\ vcache'[v] = vol[v] /\ \A u \in Volumes : u # v => vcache'[u] = vcache[u]
  BY <1>1 DEF TypeOK, Control
<1>3. CacheInv'
  BY <1>1, <1>2 DEF OutlivesInv, CacheInv, Copy, Held, Onward
<1>4. CtlInv'
  BY <1>1, <1>2 DEF OutlivesInv, CtlInv, Copy, Caught, Held, Onward
<1>5. StepInv' /\ PvInv'
  BY <1>1 DEF OutlivesInv, StepInv, PvInv
<1> QED
  BY <1>3, <1>4, <1>5 DEF OutlivesInv

LEMMA CrashOutlives ==
  ASSUME TypeOK, TypeOK', OutlivesInv, Crash
  PROVE  OutlivesInv'
<1>1. /\ ctl' = Idle /\ vcache' = vol /\ pvcache' = pv
      /\ UNCHANGED <<born, vol, pv>>
  BY DEF Crash, api
<1>2. CacheInv' /\ PvInv'
  BY <1>1 DEF OutlivesInv, CacheInv, PvInv, Copy, Held, Onward
<1> QED
  BY <1>1, <1>2, StoppedAfter

LEMMA ChangePvOutlives ==
  ASSUME TypeOK, OutlivesInv, ~LagPv, NEW v \in Volumes, NEW p \in Pv,
         ChangePv(v, p), p.owner # 0 => p.there /\ p.owner = pv[v].owner
  PROVE  OutlivesInv'
<1>1. /\ SetPv(v, p) /\ UNCHANGED <<born, vol, vcache, ctl>>
  BY DEF ChangePv
<1>2. CacheInv' /\ PvInv'
  BY <1>1, PvWritten DEF OutlivesInv
<1>3. CtlInv'
  BY <1>1 DEF OutlivesInv, CtlInv, Copy, Caught, Held, Onward
<1>4. pv[ctl.v].owner = 0 => pv'[ctl.v].owner = 0
  BY <1>1 DEF SetPv, TypeOK, Control
<1>5. StepInv'
  BY <1>1, <1>4 DEF OutlivesInv, StepInv
<1> QED
  BY <1>2, <1>3, <1>5 DEF OutlivesInv

LEMMA EnvironmentOutlives ==
  ASSUME TypeOK, TypeOK', OutlivesInv, ~LagPv, NEW v \in Volumes,
         Environment(v) \/ PvFails(v)
  PROVE  OutlivesInv'
<1>1. /\ CacheInv /\ PvInv /\ ctl.v \in Volumes /\ ctl.vol \in Volume
      /\ Copy(ctl.v, ctl.vol) /\ Caught(ctl.v, ctl.vol)
      /\ vol[v] \in Volume /\ pv[v] \in Pv
  BY DEF OutlivesInv, CtlInv, TypeOK, Control
<1>2. CASE CreateVolume(v)
  <2>1. PICK valid \in BOOLEAN :
          LET o == [NoVolume EXCEPT !.uid = born[v] + 1, !.valid = valid]
          IN SetVolume(v, o)
    BY <1>2 DEF CreateVolume
  <2> DEFINE o == [NoVolume EXCEPT !.uid = born[v] + 1, !.valid = valid]
  <2>2. /\ SetVolume(v, o) /\ UNCHANGED <<pv, pvcache, ctl>>
        /\ vol[v].uid = 0 /\ born' = [born EXCEPT ![v] = @ + 1]
    BY <1>2, <2>1 DEF CreateVolume, Exists
  <2>3. o.uid = born[v] + 1 /\ ~o.fin /\ ~o.deleting /\ o.status.job = ""
    BY DEF NoVolume, NewStatus
  <2> HIDE DEF o
  <2>4. /\ vol'[v] = o /\ born'[v] = born[v] + 1 /\ born[v] \in Nat
        /\ \A u \in Volumes : u # v => /\ vol'[u] = vol[u]
                                       /\ vcache'[u] = vcache[u]
                                       /\ born'[u] = born[u]
        /\ vcache'[v] = vcache[v] \/ vcache'[v] = o
    BY <2>2, BoundsAssumption DEF SetVolume, TypeOK
  <2>5. \A c \in Volume : Copy(v, c) => /\ c.uid # vol'[v].uid
                                        /\ c.uid <= born'[v]
                                        /\ c.fin => Finalizing(c)
    <3> SUFFICES ASSUME NEW c \in Volume, Copy(v, c)
                 PROVE  /\ c.uid # vol'[v].uid /\ c.uid <= born'[v]
                        /\ c.fin => Finalizing(c)
      OBVIOUS
    <3>1. c.uid <= born[v] /\ WellFormed(c) /\ Held(v, c)
      BY DEF Copy
    <3>2. c.uid \in Nat /\ born[v] \in Nat
      BY <2>4, BoundsAssumption DEF Volume
    <3>3. vol'[v].uid = born[v] + 1 /\ born'[v] = born[v] + 1
      BY <2>3, <2>4
    <3>4. c.uid # vol'[v].uid /\ c.uid <= born'[v]
      BY <3>1, <3>2, <3>3
    <3>5. c.fin => Finalizing(c)
      BY <2>2, <3>1 DEF Held, WellFormed, Exists
    <3> QED
      BY <3>4, <3>5
  <2>6. \A u \in Volumes, c \in Volume :
          /\ Copy(u, c) => Copy(u, c)'
          /\ Copy(u, c) /\ Caught(u, c) => Caught(u, c)'
    <3> SUFFICES ASSUME NEW u \in Volumes, NEW c \in Volume, Copy(u, c)
                 PROVE  Copy(u, c)' /\ (Caught(u, c) => Caught(u, c)')
      OBVIOUS
    <3>1. CASE u # v
      BY <2>4, <3>1 DEF Copy, Caught, Held, Onward
    <3>2. CASE u = v
      <4>1. /\ c.uid # vol'[v].uid /\ c.uid <= born'[v] /\ WellFormed(c)
            /\ c.fin => Finalizing(c)
        <5>1. Copy(v, c)
          BY <3>2
        <5>2. WellFormed(c)
          BY DEF Copy
        <5> QED
          BY <2>5, <5>1, <5>2
      <4> QED
        BY <3>2, <4>1 DEF Copy, Caught, Held, Onward
    <3> QED
      BY <3>1, <3>2
  <2>7. \A u \in Volumes : vol'[u].uid <= born'[u] /\ WellFormed(vol'[u])
    <3> SUFFICES ASSUME NEW u \in Volumes
                 PROVE  vol'[u].uid <= born'[u] /\ WellFormed(vol'[u])
      OBVIOUS
    <3>1. CASE u # v
      BY <1>1, <2>4, <3>1 DEF CacheInv
    <3>2. CASE u = v
      <4>1. WellFormed(o)
        BY <2>3 DEF WellFormed
      <4>5. vol'[v].uid = born[v] + 1
        BY <2>3, <2>4
      <4>6. born'[v] = born[v] + 1 /\ born[v] \in Nat
        BY <2>4
      <4>2. vol'[v].uid = born[v] + 1 /\ born'[v] = born[v] + 1 /\ born[v] + 1 \in Nat
        BY <4>5, <4>6
      <4>3. \A n \in Nat : n <= n
        OBVIOUS
      <4>4. vol'[v].uid <= born'[v]
        BY <4>2, <4>3
      <4> QED
        BY <2>4, <3>2, <4>1, <4>4
    <3> QED
      BY <3>1, <3>2
  <2>8. \A u \in Volumes : Copy(u, vcache[u])'
    <3> SUFFICES ASSUME NEW u \in Volumes
                 PROVE  Copy(u, vcache[u])'
      OBVIOUS
    <3>1. vcache[u] \in Volume /\ Copy(u, vcache[u])
      BY <1>1 DEF TypeOK, CacheInv
    <3>2. CASE vcache'[u] = vcache[u]
      BY <2>6, <3>1, <3>2 DEF Copy, Held, Onward
    <3>3. CASE vcache'[u] = vol'[u]
      BY <2>7, <3>3 DEF Copy, Held, Onward
    <3> QED
      BY <2>4, <3>2, <3>3
  <2>9. PvInv'
    BY <1>1, <2>2, <2>4 DEF PvInv
  <2>10. CacheInv'
    BY <1>1, <2>2, <2>7, <2>8 DEF CacheInv
  <2>11. CtlInv'
    BY <1>1, <2>2, <2>6 DEF CtlInv, Copy, Caught, Held, Onward
  <2>12. StepInv'
    BY <2>2 DEF OutlivesInv, StepInv
  <2> QED
    BY <2>9, <2>10, <2>11, <2>12 DEF OutlivesInv
<1>3. CASE DeleteVolume(v)
  <2> DEFINE o == [vol[v] EXCEPT !.deleting = TRUE]
  <2>1. /\ SetVolume(v, Collected(o)) /\ UNCHANGED <<born, pv, pvcache, ctl>>
        /\ vol[v].uid # 0 /\ ~vol[v].deleting
    BY <1>3 DEF DeleteVolume, Exists
  <2>2. /\ o \in Volume /\ o.uid = vol[v].uid /\ o.fin = vol[v].fin
        /\ o.deleting /\ o.status = vol[v].status
    BY <1>1, VolumeTypes DEF Volume
  <2> HIDE DEF o
  <2>3. WellFormed(vol[v]) /\ Copy(v, vcache[v])
    BY <1>1 DEF CacheInv
  <2>4. StepInv'
    BY <2>1 DEF OutlivesInv, StepInv
  <2>5. CASE vol[v].fin
    <3>1. Collected(o) = o /\ WellFormed(o) /\ ~Finalizing(vol[v])
      BY <2>1, <2>2, <2>5 DEF Collected, WellFormed, Exists, Finalizing
    <3>2. /\ CacheInv' /\ PvInv'
          /\ \A u \in Volumes, c \in Volume :
               Copy(u, c) /\ Caught(u, c) => Copy(u, c)' /\ Caught(u, c)'
      BY <1>1, <2>1, <2>2, <2>5, <3>1, Written
    <3>3. CtlInv'
      BY <1>1, <2>1, <3>2 DEF CtlInv, Copy, Caught, Held, Onward
    <3> QED
      BY <2>4, <3>2, <3>3 DEF OutlivesInv
  <2>6. CASE ~vol[v].fin
    <3>1. /\ Collected(o) = NoVolume /\ pv[v].owner = 0
          /\ vcache[v].fin => Finalizing(vcache[v])
          /\ ctl.v = v /\ ctl.vol.fin => Finalizing(ctl.vol)
      BY <1>1, <2>2, <2>3, <2>6 DEF Collected, PvInv, Copy, Held
    <3>2. /\ CacheInv' /\ PvInv'
          /\ \A u \in Volumes, c \in Volume :
               Copy(u, c) /\ Caught(u, c) /\ (u = v /\ c.fin => Finalizing(c))
                 => Copy(u, c)' /\ Caught(u, c)'
      BY <1>1, <2>1, <3>1, Gone
    <3>3. CtlInv'
      BY <1>1, <2>1, <3>1, <3>2 DEF CtlInv, Copy, Caught, Held, Onward
    <3> QED
      BY <2>4, <3>2, <3>3 DEF OutlivesInv
  <2> QED
    BY <2>5, <2>6
<1>4. CASE \/ CreateForeignPv(v) \/ UserDeletePv(v) \/ Bind(v) \/ Release(v)
           \/ Offer(v) \/ Recover(v) \/ Unprotect(v) \/ PvFails(v)
  <2>1. pv[v].owner # 0 => pv[v].there
    BY <1>1 DEF PvInv
  <2>2. PICK p : /\ ChangePv(v, p)
                 /\ \/ p = [NoPv EXCEPT !.there = TRUE, !.phase = "Available",
                                        !.inuse = TRUE]
                    \/ p = CollectedPv([pv[v] EXCEPT !.deleting = TRUE])
                    \/ p = CollectedPv([pv[v] EXCEPT !.inuse = FALSE])
                    \/ \E phase \in PvPhases : p = [pv[v] EXCEPT !.phase = phase]
    BY <1>4 DEF CreateForeignPv, UserDeletePv, Bind, Release, Offer, Recover,
                Unprotect, PvFails, PvPhases
  <2>3. p \in Pv
    <3>1. [NoPv EXCEPT !.there = TRUE, !.phase = "Available", !.inuse = TRUE] \in Pv
      BY PvTypes DEF PvPhases
    <3>2. \A phase \in PvPhases : [pv[v] EXCEPT !.phase = phase] \in Pv
      BY <1>1, PvTypes
    <3>3. /\ CollectedPv([pv[v] EXCEPT !.deleting = TRUE]) \in Pv
          /\ CollectedPv([pv[v] EXCEPT !.inuse = FALSE]) \in Pv
      BY <1>1, PvTypes
    <3> QED
      BY <2>2, <3>1, <3>2, <3>3
  <2>4. p.owner # 0 => p.there /\ p.owner = pv[v].owner
    <3> DEFINE same(q) == q.owner = pv[v].owner /\ q.there = pv[v].there
    <3>1. NoPv.owner = 0
      BY DEF NoPv
    <3>2. [NoPv EXCEPT !.there = TRUE, !.phase = "Available", !.inuse = TRUE].owner = 0
      BY DEF NoPv
    <3>3. /\ same([pv[v] EXCEPT !.deleting = TRUE])
          /\ same([pv[v] EXCEPT !.inuse = FALSE])
          /\ \A phase \in PvPhases : same([pv[v] EXCEPT !.phase = phase])
      BY <1>1 DEF Pv
    <3>4. \/ p.owner = 0
          \/ same(p)
      BY <2>2, <3>1, <3>2, <3>3 DEF CollectedPv
    <3> QED
      BY <2>1, <3>4
  <2> QED
    BY <2>2, <2>3, <2>4, ChangePvOutlives
<1> QED
  BY <1>2, <1>3, <1>4 DEF Environment

LEMMA InitOutlives == Init => OutlivesInv
<1> SUFFICES ASSUME Init PROVE OutlivesInv
  OBVIOUS
<1>1. /\ ctl.step = "idle" /\ ctl.vol = NoVolume /\ ctl.pv = NoPv
      /\ ctl.v \in Volumes
      /\ \A v \in Volumes : /\ vol[v] = NoVolume /\ vcache[v] = NoVolume
                            /\ pv[v] = NoPv /\ born[v] = 0
      /\ pvcache = pv
  BY DEF Init
<1>2. /\ NoVolume.uid = 0 /\ ~NoVolume.fin /\ ~NoVolume.deleting
      /\ NoVolume.status.job = "" /\ ~NoPv.there /\ NoPv.owner = 0
  BY DEF NoVolume, NewStatus, NoPv
<1>3. WellFormed(NoVolume) /\ ~Finalizing(NoVolume)
  BY <1>2 DEF WellFormed, Finalizing
<1>4. \A v \in Volumes : Copy(v, NoVolume) /\ Caught(v, NoVolume)
  <2> SUFFICES ASSUME NEW v \in Volumes
               PROVE  Copy(v, NoVolume) /\ Caught(v, NoVolume)
    OBVIOUS
  <2>1. NoVolume.uid <= born[v]
    <3>1. NoVolume.uid = 0 /\ born[v] = 0
      BY <1>1, <1>2
    <3>2. 0 <= 0
      OBVIOUS
    <3> QED
      BY <3>1, <3>2
  <2>2. Held(v, NoVolume)
    BY <1>2 DEF Held
  <2>3. Onward(v, NoVolume) /\ Caught(v, NoVolume)
    BY <1>3 DEF Onward, Caught
  <2> QED
    BY <1>3, <2>1, <2>2, <2>3 DEF Copy
<1>5. CacheInv /\ CtlInv /\ PvInv
  <2>1. CacheInv
    <3>1. \A v \in Volumes : NoVolume.uid <= born[v]
      BY <1>4 DEF Copy
    <3> QED
      BY <1>1, <1>3, <1>4, <3>1 DEF CacheInv
  <2>2. CtlInv
    BY <1>1, <1>4 DEF CtlInv
  <2>3. PvInv
    BY <1>1, <1>2 DEF PvInv
  <2> QED
    BY <2>1, <2>2, <2>3
<1>6. StepInv
  BY <1>1, <1>2 DEF StepInv, Reclaiming, Deploying
<1> QED
  BY <1>5, <1>6 DEF OutlivesInv

LEMMA StepOutlives ==
  ASSUME TypeOK, TypeOK', OutlivesInv, ~LagPv, [Next]_vars
  PROVE  OutlivesInv'
<1>1. CASE Worker
  <2>1. CASE Lookup
    BY <2>1, LookupOutlives
  <2>2. CASE Save \/ Protect \/ DropVolume
    BY <2>2, VolumeWritesOutlive
  <2>3. CASE FailPv \/ CreatePv \/ DeletePv \/ DropPv
    BY <2>3, PvWritesOutlive
  <2>4. CASE \/ Poll \/ Size
             \/ \E j \in Jids : PrepareVolume(j) \/ UnprepareVolume(j)
    BY <2>4, CallsOutlive
  <2> QED
    BY <1>1, <2>1, <2>2, <2>3, <2>4 DEF Worker
<1>2. CASE Minion \/ LoseMessage \/ MinionRestart \/ MasterRestart
           \/ \E j \in Jids : JobFails(j)
  <2>1. UNCHANGED <<born, vol, pv, vcache, pvcache, ctl>>
    BY <1>2 DEF Minion, Start, Complete, LoseMessage, MinionRestart,
                MasterRestart, JobFails, api, cache
  <2> QED
    BY <2>1, OthersOutlive
<1>3. CASE CallFails \/ PollFails \/ SizeFails \/ \E j \in Jids : AnswerLost(j)
  BY <1>3, CallsOutlive
<1>4. CASE Crash
  BY <1>4, CrashOutlives
<1>5. ASSUME NEW v \in Volumes, Fetch(v)
      PROVE  OutlivesInv'
  BY <1>5, FetchOutlives
<1>6. ASSUME NEW v \in Volumes, SyncVolume(v) \/ SyncPv(v)
      PROVE  OutlivesInv'
  BY <1>6, SyncOutlives
<1>7. ASSUME NEW v \in Volumes, Environment(v) \/ PvFails(v)
      PROVE  OutlivesInv'
  BY <1>7, EnvironmentOutlives
<1>8. CASE UNCHANGED vars
  BY <1>8, OthersOutlive DEF vars
<1> QED
  BY <1>1, <1>2, <1>3, <1>4, <1>5, <1>6, <1>7, <1>8 DEF Next, FaultStep

\* As long as the cache of PersistentVolumes is not late (that of Volumes may
\* be), a Volume is never collected before the PersistentVolume it owns:
\* Reconcile always finds the Volume a PersistentVolume's event is about.
THEOREM VolumeOutlives == ~LagPv /\ Spec => []VolumeOutlivesPv
<1> SUFFICES ASSUME ~LagPv PROVE Spec => []VolumeOutlivesPv
  OBVIOUS
<1>1. Init => TypeOK /\ OutlivesInv
  BY InitTypes, InitOutlives
<1>2. TypeOK /\ OutlivesInv /\ [Next]_vars => (TypeOK /\ OutlivesInv)'
  BY StepTypes, StepOutlives
<1>3. OutlivesInv => VolumeOutlivesPv
  BY DEF OutlivesInv, PvInv, VolumeOutlivesPv
<1> QED
  BY <1>1, <1>2, <1>3, PTL DEF Spec

-----------------------------------------------------------------------------
(* The jobs of the minion, in its inbox and running.                        *)

\* A job is in the inbox, once, until the minion starts it; one runs at a time.
InboxInv ==
  /\ \A i \in 1..Len(inbox) : jobs[inbox[i]].state = "sent"
  /\ \A i, k \in 1..Len(inbox) : inbox[i] = inbox[k] => i = k
  /\ \A j \in Jids : jobs[j].state = "sent" =>
                       \E i \in 1..Len(inbox) : inbox[i] = j
  /\ \A j, k \in Jids :
       jobs[j].state = "running" /\ jobs[k].state = "running" => j = k

Quiet(v) == \A j \in Jids : Active(j) => jobs[j].vol # v

\* Every job of the volume was published before job j, and none runs once j has
\* a result of its own: a minion that is busy refuses a job.
Latest(v, j) ==
  /\ jobs[j].vol = v
  /\ \A i \in 1..Len(inbox) : jobs[inbox[i]].vol = v =>
       \E k \in i..Len(inbox) : inbox[k] = j
  /\ jobs[j].state \in {"ok", "failed"} =>
       \A k \in Jids : jobs[k].state = "running" => jobs[k].vol # v

\* The lemmas name what of a job no step but a publication changes.
SameJobs == \A j \in Jids : /\ jobs'[j].vol = jobs[j].vol
                            /\ jobs'[j].kind = jobs[j].kind

\* No job becomes active, and what is known of the last job of a volume stays.
Settles ==
  /\ InboxInv' /\ SameJobs
  /\ \A j \in Jids : Active(j)' => Active(j)
  /\ \A v \in Volumes, j \in Jids : Latest(v, j) => Latest(v, j)'

\* The first job of the inbox leaves it.
LEMMA HeadLeaves ==
  ASSUME TypeOK, InboxInv, NEW st \in JobStates, inbox # <<>>,
         inbox' = Tail(inbox),
         jobs' = [jobs EXCEPT ![Head(inbox)].state = st],
         st \notin {"none", "sent"}, st \notin {"busy", "lost"} => ~Busy
  PROVE  Settles
<1> DEFINE h == Head(inbox)
<1>1. /\ inbox \in Seq(Jids) /\ Len(inbox) \in Nat /\ Len(inbox) > 0
      /\ h = inbox[1] /\ h \in Jids /\ jobs[h].state = "sent"
      /\ Len(inbox') = Len(inbox) - 1
      /\ \A i \in 1..Len(inbox') : inbox'[i] = inbox[i + 1]
      /\ \A i \in 1..Len(inbox) : inbox[i] \in Jids
  <2>1. inbox \in Seq(Jids) /\ Len(inbox) \in Nat /\ Len(inbox) > 0
    BY EmptySeq DEF TypeOK
  <2>2. \A i \in 1..Len(inbox) : inbox[i] \in Jids
    BY <2>1
  <2>3. h = inbox[1] /\ 1 \in 1..Len(inbox)
    BY <2>1
  <2>4. h \in Jids /\ jobs[h].state = "sent"
    BY <2>2, <2>3 DEF InboxInv
  <2>5. /\ Len(inbox') = Len(inbox) - 1
        /\ \A i \in 1..Len(inbox') : inbox'[i] = inbox[i + 1]
    BY <2>1, HeadTailProperties
  <2> QED
    BY <2>1, <2>2, <2>3, <2>4, <2>5
<1>2. /\ jobs'[h].state = st
      /\ \A j \in Jids : j # h => jobs'[j] = jobs[j]
      /\ SameJobs
  BY <1>1 DEF TypeOK, Job, SameJobs
<1> HIDE DEF h
<1>3. \A i \in 1..Len(inbox') : i + 1 \in 1..Len(inbox) /\ inbox'[i] # h
  BY <1>1 DEF InboxInv
<1>4. InboxInv'
  <2>1. \A i \in 1..Len(inbox') : jobs'[inbox'[i]].state = "sent"
    BY <1>1, <1>2, <1>3 DEF InboxInv
  <2>2. \A i, k \in 1..Len(inbox') : inbox'[i] = inbox'[k] => i = k
    BY <1>1, <1>3 DEF InboxInv
  <2>3. ASSUME NEW j \in Jids, jobs'[j].state = "sent"
        PROVE  \E i \in 1..Len(inbox') : inbox'[i] = j
    <3>1. j # h /\ jobs[j].state = "sent"
      BY <1>2, <2>3
    <3>2. PICK i \in 1..Len(inbox) : inbox[i] = j
      BY <3>1 DEF InboxInv
    <3>3. i # 1 /\ i - 1 \in 1..Len(inbox')
      BY <1>1, <3>1, <3>2
    <3>4. inbox'[i - 1] = j
      BY <1>1, <3>2, <3>3
    <3> QED
      BY <3>3, <3>4
  <2>4. \A j, k \in Jids :
          jobs'[j].state = "running" /\ jobs'[k].state = "running" => j = k
    BY <1>2 DEF InboxInv, Busy
  <2> QED
    BY <2>1, <2>2, <2>3, <2>4 DEF InboxInv
<1>5. \A j \in Jids : Active(j)' => Active(j)
  BY <1>1, <1>2 DEF Active
<1>6. ASSUME NEW v \in Volumes, NEW j \in Jids, Latest(v, j)
      PROVE  Latest(v, j)'
  <2>1. jobs'[j].vol = v
    BY <1>2, <1>6 DEF Latest, SameJobs
  <2>2. ASSUME NEW i \in 1..Len(inbox'), jobs'[inbox'[i]].vol = v
        PROVE  \E k \in i..Len(inbox') : inbox'[k] = j
    <3>1. i + 1 \in 1..Len(inbox) /\ inbox'[i] = inbox[i + 1] /\ inbox[i + 1] \in Jids
      BY <1>1, <1>3
    <3>2. PICK k \in (i + 1)..Len(inbox) : inbox[k] = j
      BY <1>2, <1>6, <2>2, <3>1 DEF Latest, SameJobs
    <3>3. k - 1 \in i..Len(inbox') /\ k - 1 \in 1..Len(inbox')
      BY <1>1, <3>2
    <3>4. inbox'[k - 1] = j
      BY <1>1, <3>2, <3>3
    <3> QED
      BY <3>3, <3>4
  <2>3. ASSUME jobs'[j].state \in {"ok", "failed"},
               NEW k \in Jids, jobs'[k].state = "running"
        PROVE  jobs'[k].vol # v
    <3>1. CASE j = h
      BY <1>2, <2>3, <3>1 DEF Busy
    <3>2. CASE j # h /\ k # h
      BY <1>2, <1>6, <2>3, <3>2 DEF Latest
    <3>3. CASE j # h /\ k = h
      <4>1. \A i \in 1..Len(inbox) : inbox[i] # j
        BY <1>2, <2>3, <3>3 DEF InboxInv
      <4>2. 1 \in 1..Len(inbox) /\ \A i \in 1..Len(inbox) : i \in 1..Len(inbox)
        BY <1>1
      <4>3. jobs[inbox[1]].vol # v
        BY <1>1, <1>6, <4>1, <4>2 DEF Latest
      <4> QED
        BY <1>1, <1>2, <3>3, <4>3 DEF SameJobs
    <3> QED
      BY <3>1, <3>2, <3>3
  <2> QED
    BY <2>1, <2>2, <2>3 DEF Latest
<1> QED
  BY <1>2, <1>4, <1>5, <1>6 DEF Settles

\* The job that runs has a result.
LEMMA RunEnds ==
  ASSUME TypeOK, InboxInv, NEW h \in Jids, NEW st \in {"ok", "failed"},
         jobs[h].state = "running", UNCHANGED inbox,
         jobs' = [jobs EXCEPT ![h].state = st]
  PROVE  Settles /\ \A k \in Jids : jobs'[k].state # "running"
<1>1. /\ jobs'[h].state = st
      /\ \A j \in Jids : j # h => jobs'[j] = jobs[j]
      /\ SameJobs
  BY DEF TypeOK, Job, SameJobs
<1>2. \A k \in Jids : jobs'[k].state # "running"
  BY <1>1 DEF InboxInv
<1>3. \A i \in 1..Len(inbox) : inbox[i] \in Jids /\ inbox[i] # h
  BY DEF TypeOK, InboxInv
<1>4. InboxInv'
  BY <1>1, <1>2, <1>3 DEF InboxInv
<1>5. \A j \in Jids : Active(j)' => Active(j)
  BY <1>1 DEF Active
<1>6. \A v \in Volumes, j \in Jids : Latest(v, j) => Latest(v, j)'
  BY <1>1, <1>2, <1>3 DEF Latest, SameJobs
<1> QED
  BY <1>1, <1>2, <1>4, <1>5, <1>6 DEF Settles

\* The minion forgets every job.
LEMMA MinionForgets ==
  ASSUME TypeOK, InboxInv, inbox' = <<>>,
         jobs' = [j \in Jids |->
                   [jobs[j] EXCEPT !.state = IF Active(j) THEN "lost" ELSE @]]
  PROVE  Settles
<1>1. /\ SameJobs
      /\ \A j \in Jids : jobs'[j].state = IF Active(j) THEN "lost" ELSE jobs[j].state
  BY DEF TypeOK, Job, SameJobs
<1>2. \A j \in Jids : ~Active(j)' /\ jobs'[j].state \notin {"sent", "running"}
  BY <1>1 DEF Active
<1>3. Len(inbox') = 0 /\ 1..Len(inbox') = {}
  OBVIOUS
<1>4. InboxInv'
  BY <1>2, <1>3 DEF InboxInv
<1>5. \A v \in Volumes, j \in Jids : Latest(v, j) => Latest(v, j)'
  BY <1>1, <1>2, <1>3 DEF Latest, SameJobs
<1> QED
  BY <1>1, <1>2, <1>4, <1>5 DEF Settles

\* The master forgets every job: the minion does not.
LEMMA MasterForgets ==
  ASSUME TypeOK, InboxInv, UNCHANGED inbox,
         jobs' = [j \in Jids |-> [jobs[j] EXCEPT !.known = FALSE]]
  PROVE  Settles /\ \A j \in Jids : jobs'[j].state = jobs[j].state
<1>1. /\ SameJobs
      /\ \A j \in Jids : jobs'[j].state = jobs[j].state
  BY DEF TypeOK, Job, SameJobs
<1>2. inbox' = inbox /\ \A i \in 1..Len(inbox) : inbox[i] \in Jids
  BY DEF TypeOK
<1>3. InboxInv'
  <2>1. \A i \in 1..Len(inbox) : jobs'[inbox[i]].state = "sent"
    BY <1>1, <1>2 DEF InboxInv
  <2> QED
    BY <1>1, <1>2, <2>1 DEF InboxInv
<1>4. ASSUME NEW v \in Volumes, NEW j \in Jids, Latest(v, j)
      PROVE  Latest(v, j)'
  <2>1. jobs'[j].vol = v /\ \A i \in 1..Len(inbox) : jobs'[inbox[i]].vol = v =>
                              \E k \in i..Len(inbox) : inbox[k] = j
    BY <1>1, <1>2, <1>4 DEF Latest, SameJobs
  <2>2. jobs'[j].state \in {"ok", "failed"} =>
          \A k \in Jids : jobs'[k].state = "running" => jobs'[k].vol # v
    BY <1>1, <1>4 DEF Latest, SameJobs
  <2> QED
    BY <1>2, <2>1, <2>2 DEF Latest
<1> QED
  BY <1>1, <1>3, <1>4 DEF Settles, Active

\* A job of the volume that is done is its last one: no other is active.
LEMMA LastIsQuiet ==
  ASSUME InboxInv, NEW v \in Volumes, NEW j \in Jids, Latest(v, j),
         jobs[j].state = "ok"
  PROVE  Quiet(v)
<1> SUFFICES ASSUME NEW k \in Jids, Active(k), jobs[k].vol = v
             PROVE  FALSE
  BY DEF Quiet
<1>1. jobs[k].state = "sent"
  BY DEF Active, Latest
<1>2. PICK i \in 1..Len(inbox) : inbox[i] = k
  BY <1>1 DEF InboxInv
<1>3. PICK n \in i..Len(inbox) : inbox[n] = j
  BY <1>2 DEF Latest
<1>4. n \in 1..Len(inbox)
  BY <1>2, <1>3
<1> QED
  BY <1>3, <1>4 DEF InboxInv

\* A job is published.
LEMMA Appended ==
  ASSUME TypeOK, InboxInv, NEW j \in Jids, NEW kind \in JobKinds, Spawn(j, kind)
  PROVE  /\ InboxInv'
         /\ Len(inbox) \in Nat /\ Len(inbox') = Len(inbox) + 1
         /\ inbox'[Len(inbox) + 1] = j
         /\ \A i \in 1..Len(inbox) : inbox'[i] = inbox[i] /\ inbox[i] \in Jids \ {j}
         /\ jobs'[j].vol = ctl.v /\ jobs'[j].kind = kind /\ jobs'[j].state = "sent"
         /\ \A k \in Jids : k # j => jobs'[k] = jobs[k]
<1>1. /\ inbox \in Seq(Jids) /\ Len(inbox) \in Nat
      /\ \A i \in 1..Len(inbox) : inbox[i] \in Jids
      /\ ~Active(j) /\ inbox' = Append(inbox, j)
  BY DEF Spawn, TypeOK
<1>2. /\ Len(inbox') = Len(inbox) + 1 /\ inbox'[Len(inbox) + 1] = j
      /\ \A i \in 1..Len(inbox) : inbox'[i] = inbox[i]
  BY <1>1, AppendProperties
<1>3. /\ jobs'[j].vol = ctl.v /\ jobs'[j].kind = kind /\ jobs'[j].state = "sent"
      /\ \A k \in Jids : k # j => jobs'[k] = jobs[k]
  BY DEF Spawn, TypeOK
<1>4. \A i \in 1..Len(inbox) : inbox[i] # j
  BY <1>1 DEF InboxInv, Active
<1>5. \A i \in 1..Len(inbox') : i = Len(inbox) + 1 \/ i \in 1..Len(inbox)
  BY <1>1, <1>2
<1>6. \A i \in 1..Len(inbox) : i \in 1..Len(inbox')
  BY <1>1, <1>2
<1>7. Len(inbox) + 1 \in 1..Len(inbox')
  BY <1>1, <1>2
<1>8. InboxInv'
  <2>1. \A i \in 1..Len(inbox') : jobs'[inbox'[i]].state = "sent"
    BY <1>1, <1>2, <1>3, <1>4, <1>5 DEF InboxInv
  <2>2. \A i, k \in 1..Len(inbox') : inbox'[i] = inbox'[k] => i = k
    BY <1>2, <1>4, <1>5 DEF InboxInv
  <2>3. \A k \in Jids : jobs'[k].state = "sent" =>
                          \E i \in 1..Len(inbox') : inbox'[i] = k
    BY <1>2, <1>3, <1>6, <1>7 DEF InboxInv
  <2>4. \A m, k \in Jids :
          jobs'[m].state = "running" /\ jobs'[k].state = "running" => m = k
    BY <1>3 DEF InboxInv
  <2> QED
    BY <2>1, <2>2, <2>3, <2>4 DEF InboxInv
<1> QED
  BY <1>1, <1>2, <1>3, <1>4, <1>8
-----------------------------------------------------------------------------
(* What is left of a Volume on its node, however late the caches are.  The   *)
(* argument is about the current Volume only: a job that reclaims is behind   *)
(* every job that prepares, and a status that an outdated copy led to is      *)
(* refused by the API server.                                                 *)

Prepares(v, j) == jobs[j].vol = v /\ jobs[j].kind = "prepare"

\* What a run that succeeds reports of the storage: the argument is about that,
\* and what a removal may have left comes at its end.
Result(kind) == IF kind = "prepare" THEN "ready" ELSE "raw"

LEMMA ReportedTypes ==
  ASSUME TypeOK
  PROVE  Reported \in [Volumes -> {"raw", "dirty", "ready"}]
BY DEF TypeOK, Reported, Storage

LEMMA ReportedKept ==
  ASSUME UNCHANGED disk
  PROVE  UNCHANGED Reported
BY DEF Reported

\* What is left of a former Volume of a name is not seen of the next one.
LEMMA CreateReports ==
  ASSUME TypeOK, NEW v \in Volumes, CreateVolume(v)
  PROVE  UNCHANGED Reported
<1>1. /\ disk' = [disk EXCEPT ![v] = IF @ = "left" THEN "raw" ELSE @]
      /\ disk \in [Volumes -> Storage]
  BY DEF CreateVolume, TypeOK
<1>2. \A u \in Volumes : disk'[u] = disk[u] \/ (disk[u] = "left" /\ disk'[u] = "raw")
  BY <1>1
<1> QED
  BY <1>2 DEF Reported

LEMMA StartReports ==
  ASSUME TypeOK, Start
  PROVE  LET h == Head(inbox)
         IN /\ \/ Reported' = Reported
               \/ Reported' = [Reported EXCEPT ![jobs[h].vol] =
                                IF @ = Result(jobs[h].kind) THEN @ ELSE "dirty"]
            /\ Reported' # Reported => jobs' = [jobs EXCEPT ![h].state = "running"]
<1>1. PICK h \in Jids : h = Head(inbox)
  BY HeadTypes DEF Start
<1>2. PICK v \in Volumes, k \in JobKinds : v = jobs[h].vol /\ k = jobs[h].kind
  BY DEF TypeOK, Job
<1>3. \/ disk' = disk
      \/ /\ disk' = [disk EXCEPT ![v] = IF @ \in Wanted(k) THEN @ ELSE "dirty"]
         /\ jobs' = [jobs EXCEPT ![h].state = "running"]
  BY <1>1, <1>2 DEF Start
<1>4. CASE disk' = disk
  BY <1>4, ReportedKept
<1>5. CASE /\ disk' = [disk EXCEPT ![v] = IF @ \in Wanted(k) THEN @ ELSE "dirty"]
           /\ jobs' = [jobs EXCEPT ![h].state = "running"]
  <2>1. /\ disk \in [Volumes -> Storage]
        /\ \A u \in Volumes : u # v => disk'[u] = disk[u]
        /\ disk'[v] = IF disk[v] \in Wanted(k) THEN disk[v] ELSE "dirty"
    BY <1>5 DEF TypeOK
  <2>2. disk[v] \in Wanted(k) <=> Reported[v] = Result(k)
    BY <1>2, <2>1 DEF Wanted, Result, JobKinds, Reported, Storage
  <2>3. Reported'[v] = IF Reported[v] = Result(k) THEN Reported[v] ELSE "dirty"
    BY <2>1, <2>2 DEF Reported
  <2>4. Reported' = [Reported EXCEPT ![v] = IF @ = Result(k) THEN @ ELSE "dirty"]
    BY <2>1, <2>3 DEF Reported
  <2> QED
    BY <1>1, <1>2, <1>5, <2>4
<1> QED
  BY <1>3, <1>4, <1>5

LEMMA CompleteReports ==
  ASSUME TypeOK, NEW h \in Jids, Complete(h)
  PROVE  Reported' = [Reported EXCEPT ![jobs[h].vol] = Result(jobs[h].kind)]
<1>1. PICK v \in Volumes, k \in JobKinds : v = jobs[h].vol /\ k = jobs[h].kind
  BY DEF TypeOK, Job
<1>2. PICK s \in Outcomes(k, v) : disk' = [disk EXCEPT ![v] = s]
  BY <1>1 DEF Complete
<1>3. IF s = "left" THEN Result(k) = "raw" ELSE Result(k) = s
  BY <1>1, <1>2 DEF Outcomes, Wanted, Result, JobKinds
<1>4. /\ disk \in [Volumes -> Storage] /\ disk'[v] = s
      /\ \A u \in Volumes : u # v => disk'[u] = disk[u]
  BY <1>2 DEF TypeOK
<1>5. Reported' = [Reported EXCEPT ![v] = Result(k)]
  BY <1>3, <1>4 DEF Reported, Result
<1> QED
  BY <1>1, <1>5

\* Nothing is on the node, and nothing will be.
Empty(v) == Reported[v] = "raw" /\ \A j \in Jids : Active(j) => ~Prepares(v, j)

\* Job j reclaims the storage after all the jobs that prepare it.
Behind(v, j) ==
  /\ jobs[j].vol = v /\ jobs[j].kind = "unprepare"
  /\ \A i \in 1..Len(inbox) : Prepares(v, inbox[i]) =>
       \E k \in i..Len(inbox) : inbox[k] = j
  /\ jobs[j].state = "ok" => Empty(v)

\* What a status says of the reclamation of the storage.
Settled(v, s) ==
  s.phase = "Terminating" =>
    /\ s.job = "DONE" => Empty(v)
    /\ s.job \in Jids => Behind(v, s.job)

\* Only a deleted Volume is Terminating, and only a Volume that waits for a job,
\* or whose job failed, has one.
Sound(o, s) ==
  /\ s.phase = "Terminating" => o.deleting
  /\ s.job # "" => s.phase \in {"Pending", "Failed", "Terminating"}

CurrentInv ==
  \A v \in Volumes :
    /\ vol[v].fin => Exists(vol[v])
    /\ ~vol[v].fin => Empty(v)
    /\ Settled(v, vol[v].status)
    /\ \A o \in {vol[v], vcache[v]} : Sound(o, o.status)

\* The status of the Volume is not the one that the reconciliation has seen.
Outdated == ctl.vol.status.job \in Jids /\ vol[ctl.v].status # ctl.vol.status

WriterInv ==
  /\ ctl.step # "idle" => Exists(ctl.vol) /\ Sound(ctl.vol, ctl.vol.status)
  /\ ctl.step = "protect" => ~Finalizing(ctl.vol)
  /\ ctl.step = "prepare" => vol[ctl.v].fin /\ vol[ctl.v].status.phase # "Terminating"
  /\ ctl.step \in {"unprepare", "dropPv", "dropVolume"} => Finalizing(ctl.vol)
  /\ ctl.step \in {"dropPv", "dropVolume"} => CurrentJob(ctl.vol) = "DONE"
  /\ ctl.step = "poll" =>
       /\ ctl.vol.status.job \in Jids
       /\ Finalizing(ctl.vol) => ctl.vol.status.phase # "Failed"
  /\ ctl.step = "save" => /\ Sound(ctl.vol, ctl.next)
                          /\ Settled(ctl.v, ctl.next) \/ Outdated

EmptyInv == InboxInv /\ CurrentInv /\ WriterInv

-----------------------------------------------------------------------------
(* The minion. *)

\* A storage that nothing will be put on stays so, and so does the order of jobs.
Clears ==
  /\ InboxInv'
  /\ \A v \in Volumes : Empty(v) => Empty(v)'
  /\ \A v \in Volumes, j \in Jids : Behind(v, j) => Behind(v, j)'

LEMMA MinionClears ==
  ASSUME TypeOK, EmptyInv, Clears, UNCHANGED <<vol, vcache, ctl>>
  PROVE  EmptyInv'
<1>1. \A v \in Volumes, s \in Status : Settled(v, s) => Settled(v, s)'
  BY DEF Settled, Clears
<1>2. /\ \A v \in Volumes : vol[v].status \in Status
      /\ ctl.v \in Volumes /\ ctl.next \in Status
  BY DEF TypeOK, Volume, Control
<1>3. CurrentInv'
  <2>1. \A v \in Volumes : Settled(v, vol[v].status)'
    BY <1>1, <1>2 DEF EmptyInv, CurrentInv
  <2> QED BY <2>1 DEF EmptyInv, CurrentInv, Clears
<1>4. WriterInv'
  <2>1. Settled(ctl.v, ctl.next) => Settled(ctl.v, ctl.next)'
    BY <1>1, <1>2
  <2> QED BY <2>1 DEF EmptyInv, WriterInv, Outdated
<1> QED BY <1>3, <1>4 DEF EmptyInv, Clears

\* The jobs that are left in the inbox keep their order.
LEMMA OrderStays ==
  ASSUME TypeOK, inbox # <<>>, inbox' = Tail(inbox), NEW S, NEW j,
         \A i \in 1..Len(inbox) : inbox[i] \in S => \E k \in i..Len(inbox) : inbox[k] = j
  PROVE  \A i \in 1..Len(inbox') :
           inbox'[i] \in S => \E k \in i..Len(inbox') : inbox'[k] = j
<1>1. /\ inbox \in Seq(Jids) /\ Len(inbox) \in Nat /\ Len(inbox) > 0
      /\ Len(inbox') = Len(inbox) - 1
      /\ \A i \in 1..Len(inbox') : inbox'[i] = inbox[i + 1]
  BY EmptySeq, HeadTailProperties DEF TypeOK
<1> SUFFICES ASSUME NEW i \in 1..Len(inbox'), inbox'[i] \in S
             PROVE  \E k \in i..Len(inbox') : inbox'[k] = j
  OBVIOUS
<1>2. i + 1 \in 1..Len(inbox) /\ inbox[i + 1] \in S
  BY <1>1
<1>3. PICK k \in (i + 1)..Len(inbox) : inbox[k] = j
  BY <1>2
<1>4. k - 1 \in i..Len(inbox') /\ k - 1 \in 1..Len(inbox')
  BY <1>1, <1>3
<1>5. inbox'[k - 1] = j
  BY <1>1, <1>3, <1>4
<1> QED BY <1>4, <1>5

\* A job that is behind the ones that prepare, and not in the inbox any more,
\* has none in front of it.
LEMMA NoneInFront ==
  ASSUME TypeOK, InboxInv, NEW v \in Volumes, NEW j \in Jids, Behind(v, j),
         jobs[j].state # "sent", NEW k \in Jids, jobs[k].state = "sent"
  PROVE  ~Prepares(v, k)
<1>1. PICK i \in 1..Len(inbox) : inbox[i] = k
  BY DEF InboxInv
<1>2. \A n \in i..Len(inbox) : n \in 1..Len(inbox)
  BY <1>1
<1> QED BY <1>1, <1>2 DEF Behind, InboxInv

\* The first job leaves the inbox for the state st; it may end at once for a
\* Volume that is gone.
LEMMA HeadClears ==
  ASSUME TypeOK, EmptyInv, Settles, inbox # <<>>, inbox' = Tail(inbox),
         NEW h \in Jids, h = Head(inbox), NEW st \in JobStates,
         jobs' = [jobs EXCEPT ![h].state = st],
         st = "ok" => ~Busy /\ ~Exists(vol[jobs[h].vol]),
         \A v \in Volumes : Reported'[v] # Reported[v] =>
           /\ jobs[h].vol = v /\ Reported[v] # Result(jobs[h].kind)
  PROVE  Clears
<1>1. /\ jobs[h].state = "sent" /\ jobs'[h].state = st /\ SameJobs
      /\ jobs[h].vol \in Volumes /\ jobs[h].kind \in JobKinds
      /\ \A j \in Jids : j # h => jobs'[j] = jobs[j]
  <2>1. h = inbox[1] /\ 1 \in 1..Len(inbox)
    BY EmptySeq DEF TypeOK
  <2>2. jobs[h].state = "sent"
    BY <2>1 DEF EmptyInv, InboxInv
  <2> QED BY <2>2 DEF TypeOK, Job, Settles
<1>2. ASSUME NEW v \in Volumes, Empty(v)
      PROVE  Empty(v)'
  <2>1. Reported'[v] = "raw"
    <3>1. Active(h)
      BY <1>1 DEF Active
    <3>2. jobs[h].vol = v => Result(jobs[h].kind) = "raw"
      BY <1>1, <1>2, <3>1 DEF Empty, Prepares, Result, JobKinds
    <3> QED BY <1>2, <3>2 DEF Empty
  <2> QED BY <1>2, <2>1 DEF Empty, Prepares, Settles, SameJobs
<1>3. ASSUME NEW v \in Volumes, NEW j \in Jids, Behind(v, j)
      PROVE  Behind(v, j)'
  <2>1. jobs'[j].vol = v /\ jobs'[j].kind = "unprepare"
    BY <1>3 DEF Behind, Settles, SameJobs
  <2>2. ASSUME NEW i \in 1..Len(inbox'), Prepares(v, inbox[i])'
        PROVE  \E k \in i..Len(inbox') : inbox'[k] = j
    <3>0. PICK S : S = {k \in Jids : Prepares(v, k)}
      OBVIOUS
    <3>1. \A i1 \in 1..Len(inbox) : inbox[i1] \in S => \E k \in i1..Len(inbox) : inbox[k] = j
      BY <1>3, <3>0 DEF Behind
    <3>2. inbox'[i] \in Jids
      BY HeadTailProperties, EmptySeq DEF TypeOK
    <3>3. inbox'[i] \in S
      BY <2>2, <3>0, <3>2 DEF Prepares, Settles, SameJobs
    <3>4. \A i1 \in 1..Len(inbox') :
            inbox'[i1] \in S => \E k \in i1..Len(inbox') : inbox'[k] = j
      BY <3>1, OrderStays
    <3> QED BY <3>3, <3>4
  <2>3. ASSUME jobs'[j].state = "ok"
        PROVE  Empty(v)'
    <3>1. CASE j = h
      <4>1. ~vol[v].fin
        BY <1>1, <1>3, <2>3, <3>1 DEF Behind, EmptyInv, CurrentInv
      <4> QED BY <1>2, <4>1 DEF EmptyInv, CurrentInv
    <3>2. CASE j # h
      BY <1>1, <1>2, <1>3, <2>3, <3>2 DEF Behind
    <3> QED BY <3>1, <3>2
  <2> QED BY <2>1, <2>2, <2>3 DEF Behind
<1> QED BY <1>2, <1>3 DEF Clears, Settles

LEMMA StartClears ==
  ASSUME TypeOK, EmptyInv, Start
  PROVE  EmptyInv'
<1> DEFINE h == Head(inbox)
<1>1. /\ inbox # <<>> /\ inbox' = Tail(inbox) /\ InboxInv
      /\ UNCHANGED <<vol, vcache, ctl>>
  BY DEF Start, api, cache, EmptyInv
<1>2. h \in Jids /\ jobs[h].vol \in Volumes
  BY <1>1, EmptySeq DEF TypeOK, Job
<1>3. PICK st \in {"busy", "failed", "ok", "running"} :
        /\ jobs' = [jobs EXCEPT ![h].state = st] /\ (st # "busy" => ~Busy)
        /\ st \in {"failed", "ok"} => ~Exists(vol[jobs[h].vol])
        /\ Reported' = Reported \/ Reported' = [Reported EXCEPT ![jobs[h].vol] =
                                     IF @ = Result(jobs[h].kind) THEN @ ELSE "dirty"]
  BY StartReports DEF Start
<1>4. Settles
  BY <1>1, <1>3, HeadLeaves DEF JobStates
<1>5. \A v \in Volumes : Reported'[v] # Reported[v] =>
        jobs[h].vol = v /\ Reported[v] # Result(jobs[h].kind)
  BY <1>2, <1>3, ReportedTypes
<1> HIDE DEF h
<1>6. Clears
  BY <1>1, <1>2, <1>3, <1>4, <1>5, HeadClears DEF h, JobStates
<1> QED BY <1>1, <1>6, MinionClears

LEMMA CompleteClears ==
  ASSUME TypeOK, EmptyInv, NEW h \in Jids, Complete(h) \/ JobFails(h)
  PROVE  EmptyInv'
<1>1. PICK st \in {"ok", "failed"} :
        /\ jobs[h].state = "running" /\ jobs' = [jobs EXCEPT ![h].state = st]
        /\ Reported' = Reported \/ Reported' = [Reported EXCEPT ![jobs[h].vol] = Result(jobs[h].kind)]
        /\ st = "ok" => Reported' = [Reported EXCEPT ![jobs[h].vol] = Result(jobs[h].kind)]
  BY CompleteReports, ReportedKept DEF Complete, JobFails
<1>2. UNCHANGED <<vol, vcache, ctl, inbox>> /\ InboxInv
  BY DEF Complete, JobFails, api, cache, EmptyInv
<1>3. /\ jobs[h].vol \in Volumes /\ jobs[h].kind \in JobKinds /\ Active(h)
      /\ jobs'[h].state = st /\ \A j \in Jids : j # h => jobs'[j] = jobs[j]
      /\ \A i \in 1..Len(inbox) : inbox[i] \in Jids
  BY <1>1 DEF TypeOK, Job, Active
<1>4. Settles /\ \A k \in Jids : jobs'[k].state # "running"
  BY <1>1, <1>2, RunEnds
<1>5. ASSUME NEW v \in Volumes, Empty(v)
      PROVE  Empty(v)'
  <2>1. Reported'[v] = "raw"
    <3>1. jobs[h].vol = v => Result(jobs[h].kind) = "raw"
      BY <1>3, <1>5 DEF Empty, Prepares, Result, JobKinds
    <3> QED BY <1>1, <1>3, <1>5, <3>1, ReportedTypes DEF Empty
  <2> QED BY <1>4, <1>5, <2>1 DEF Empty, Prepares, Settles, SameJobs
<1>6. ASSUME NEW v \in Volumes, NEW j \in Jids, Behind(v, j)
      PROVE  Behind(v, j)'
  <2>1. /\ jobs'[j].vol = v /\ jobs'[j].kind = "unprepare"
        /\ \A i \in 1..Len(inbox) : Prepares(v, inbox[i])' => Prepares(v, inbox[i])
    BY <1>2, <1>3, <1>4, <1>6 DEF Behind, Prepares, Settles, SameJobs
  <2>2. ASSUME jobs'[j].state = "ok"
        PROVE  Empty(v)'
    <3>1. CASE j = h
      <4>1. Reported'[v] = "raw"
        BY <1>1, <1>3, <1>6, <2>2, <3>1, ReportedTypes DEF Behind, Result
      <4>2. ASSUME NEW k \in Jids, Active(k)'
            PROVE  ~Prepares(v, k)'
        <5>1. jobs[k].state = "sent" /\ jobs'[k] = jobs[k]
          BY <1>1, <1>3, <1>4, <4>2 DEF Active
        <5>2. ~Prepares(v, k)
          BY <1>1, <1>2, <1>6, <3>1, <5>1, NoneInFront
        <5> QED BY <5>1, <5>2 DEF Prepares
      <4> QED BY <4>1, <4>2 DEF Empty
    <3>2. CASE j # h
      BY <1>3, <1>5, <1>6, <2>2, <3>2 DEF Behind
    <3> QED BY <3>1, <3>2
  <2> QED BY <1>2, <1>6, <2>1, <2>2 DEF Behind
<1>7. Clears
  BY <1>4, <1>5, <1>6 DEF Clears, Settles
<1> QED BY <1>2, <1>7, MinionClears

\* The jobs that the minion or the master lost.
LEMMA LossClears ==
  ASSUME TypeOK, EmptyInv, LoseMessage \/ MinionRestart \/ MasterRestart
  PROVE  EmptyInv'
<1>1. UNCHANGED <<vol, vcache, ctl, Reported>> /\ InboxInv
  BY ReportedKept
     DEF LoseMessage, MinionRestart, MasterRestart, api, cache, EmptyInv
<1>2. CASE LoseMessage
  <2>1. /\ inbox # <<>> /\ inbox' = Tail(inbox)
        /\ jobs' = [jobs EXCEPT ![Head(inbox)].state = "lost"]
    BY <1>2 DEF LoseMessage
  <2>2. Settles
    BY <1>1, <2>1, HeadLeaves DEF JobStates
  <2>3. Head(inbox) \in Jids
    BY <2>1, EmptySeq DEF TypeOK
  <2>4. Clears
    BY <1>1, <2>1, <2>2, <2>3, HeadClears DEF JobStates
  <2> QED BY <1>1, <2>4, MinionClears
<1>3. CASE MinionRestart \/ MasterRestart
  <2>1. /\ Settles /\ (inbox' = inbox \/ inbox' = <<>>)
        /\ \A j \in Jids : jobs'[j].state = "ok" => jobs[j].state = "ok"
    <3>1. CASE MinionRestart
      <4>1. /\ inbox' = <<>>
            /\ jobs' = [j \in Jids |->
                         [jobs[j] EXCEPT !.state = IF Active(j) THEN "lost" ELSE @]]
        BY <3>1 DEF MinionRestart
      <4>2. Settles
        BY <1>1, <4>1, MinionForgets
      <4> QED BY <4>1, <4>2 DEF TypeOK, Job
    <3>2. CASE MasterRestart
      BY <1>1, <3>2, MasterForgets DEF MasterRestart
    <3> QED BY <1>3, <3>1, <3>2
  <2>2. \A v \in Volumes : Empty(v) => Empty(v)'
    BY <1>1, <2>1 DEF Empty, Prepares, Settles, SameJobs
  <2>3. \A i \in 1..Len(inbox') : i \in 1..Len(inbox) /\ inbox'[i] = inbox[i] /\ inbox[i] \in Jids
    BY <2>1 DEF TypeOK
  <2>4. ASSUME NEW v \in Volumes, NEW j \in Jids, Behind(v, j)
        PROVE  Behind(v, j)'
    <3>1. ASSUME NEW i \in 1..Len(inbox'), Prepares(v, inbox[i])'
          PROVE  \E k \in i..Len(inbox') : inbox'[k] = j
      <4>1. inbox' = inbox
        BY <2>1, <3>1
      <4>2. Prepares(v, inbox[i])
        BY <2>1, <2>3, <3>1 DEF Prepares, Settles, SameJobs
      <4> QED BY <2>3, <2>4, <4>1, <4>2 DEF Behind
    <3>2. jobs'[j].vol = v /\ jobs'[j].kind = "unprepare"
      BY <2>1, <2>4 DEF Behind, Settles, SameJobs
    <3>3. jobs'[j].state = "ok" => Empty(v)'
      BY <2>1, <2>2, <2>4 DEF Behind
    <3> QED BY <3>1, <3>2, <3>3 DEF Behind
  <2>5. Clears
    BY <2>1, <2>2, <2>4 DEF Clears, Settles
  <2> QED BY <1>1, <2>5, MinionClears
<1> QED BY <1>2, <1>3

-----------------------------------------------------------------------------
(* The Volumes. *)

\* What is written of a Volume.
Allowed(v, o) ==
  /\ o.fin => Exists(o)
  /\ ~o.fin => Empty(v)
  /\ Settled(v, o.status) /\ Sound(o, o.status)

LEMMA SettledKept ==
  ASSUME UNCHANGED <<jobs, inbox, Reported>>, NEW v, NEW s, Settled(v, s)
  PROVE  Settled(v, s)'
BY DEF Settled, Behind, Empty, Active, Prepares

\* A cache that catches up, or not.
LEMMA CurrentKept ==
  ASSUME CurrentInv, UNCHANGED <<vol, jobs, inbox, Reported>>,
         \A v \in Volumes : vcache'[v] \in {vol[v], vcache[v]}
  PROVE  CurrentInv'
<1>1. \A v \in Volumes : Empty(v) => Empty(v)'
  BY DEF Empty, Active, Prepares
<1>2. ASSUME NEW v \in Volumes
      PROVE  Settled(v, vol[v].status)'
  <2>1. PICK s : s = vol[v].status
    OBVIOUS
  <2> QED BY <2>1, SettledKept DEF CurrentInv
<1>3. \A v \in Volumes : \A o \in {vol'[v], vcache'[v]} : Sound(o, o.status)
  BY DEF CurrentInv
<1> QED BY <1>1, <1>2, <1>3 DEF CurrentInv

LEMMA AllowedWrite ==
  ASSUME TypeOK, EmptyInv, UNCHANGED <<jobs, inbox, Reported>>,
         NEW v \in Volumes, NEW o \in Volume, SetVolume(v, o), Allowed(v, o)
  PROVE  InboxInv' /\ CurrentInv'
<1>1. /\ vol'[v] = o /\ (vcache'[v] = o \/ vcache'[v] = vcache[v])
      /\ \A u \in Volumes : u # v => vol'[u] = vol[u] /\ vcache'[u] = vcache[u]
  BY DEF SetVolume, TypeOK
<1>2. InboxInv'
  BY DEF EmptyInv, InboxInv
<1>3. ASSUME NEW u \in Volumes
      PROVE  /\ vol'[u].fin => Exists(vol'[u])
             /\ ~vol'[u].fin => Empty(u)
             /\ Settled(u, vol'[u].status)
             /\ \A w \in {vol'[u], vcache'[u]} : Sound(w, w.status)
  BY <1>1 DEF EmptyInv, CurrentInv, Allowed
<1>4. ASSUME NEW u \in Volumes
      PROVE  Settled(u, vol[u].status)'
  <2>1. PICK s : s = vol'[u].status
    OBVIOUS
  <2> QED BY <1>3, <2>1, SettledKept
<1>5. \A u \in Volumes : Empty(u) => Empty(u)'
  BY DEF Empty, Active, Prepares
<1>6. CurrentInv'
  <2> SUFFICES ASSUME NEW u \in Volumes
               PROVE  /\ vol'[u].fin => Exists(vol'[u])
                      /\ ~vol'[u].fin => Empty(u)'
                      /\ Settled(u, vol[u].status)'
                      /\ \A w \in {vol'[u], vcache'[u]} : Sound(w, w.status)
    BY DEF CurrentInv, Exists, Sound
  <2> QED BY <1>3, <1>4, <1>5
<1> QED BY <1>2, <1>6

LEMMA IdleIsAllowed == ASSUME ctl' = Idle PROVE WriterInv'
<1>1. ctl'.step = "idle"
  BY DEF Idle
<1> QED BY <1>1 DEF WriterInv

\* Users: the status that a reconciliation has not seen yet stays out of its sight.
LEMMA UsersAreAllowed ==
  ASSUME TypeOK, TypeOK', EmptyInv, NEW v \in Volumes, CreateVolume(v) \/ DeleteVolume(v)
  PROVE  EmptyInv'
<1>1. /\ UNCHANGED <<ctl, jobs, inbox, Reported>> /\ vol[v] \in Volume /\ vol'[v] \in Volume
      /\ ctl.v \in Volumes
  BY DEF CreateVolume, DeleteVolume, salt, TypeOK, Control, Reported
<1>2. PICK o \in Volume :
        /\ SetVolume(v, o) /\ Allowed(v, o)
        /\ \/ o.status = vol[v].status /\ o.fin = vol[v].fin
           \/ o.status.job = "" /\ ~vol[v].fin
  <2>1. \A u \in Volumes : /\ ~vol[u].fin => Empty(u)
                           /\ Settled(u, vol[u].status) /\ Sound(vol[u], vol[u].status)
    BY DEF EmptyInv, CurrentInv
  <2>2. CASE CreateVolume(v)
    <3>1. PICK valid \in BOOLEAN :
            SetVolume(v, [NoVolume EXCEPT !.uid = born[v] + 1, !.valid = valid])
      BY <2>2 DEF CreateVolume
    <3> DEFINE o == [NoVolume EXCEPT !.uid = born[v] + 1, !.valid = valid]
    <3>2. ~o.fin /\ o.status = NewStatus
      BY DEF NoVolume
    <3>3. ~vol[v].fin
      BY <2>2 DEF CreateVolume, EmptyInv, CurrentInv
    <3>4. vol'[v] = o
      BY <3>1 DEF SetVolume, TypeOK
    <3> HIDE DEF o
    <3>5. Allowed(v, o)
      <4>1. Settled(v, NewStatus) /\ Sound(o, NewStatus)
        BY DEF Settled, Sound, NewStatus
      <4> QED BY <2>1, <3>2, <3>3, <4>1 DEF Allowed
    <3>6. o.status.job = "" /\ o \in Volume /\ SetVolume(v, o)
      <4>1. o \in Volume
        BY <1>1, <3>4
      <4>2. o.status.job = ""
        <5>1. NewStatus.job = ""
          BY DEF NewStatus
        <5> QED BY <3>2, <5>1
      <4>3. SetVolume(v, o)
        BY <3>1 DEF o
      <4> QED BY <4>1, <4>2, <4>3
    <3> QED BY <3>3, <3>5, <3>6
  <2>3. CASE DeleteVolume(v)
    <3> DEFINE q == [vol[v] EXCEPT !.deleting = TRUE]
               o == Collected(q)
    <3>1. SetVolume(v, o) /\ Exists(vol[v])
      BY <2>3 DEF DeleteVolume
    <3>2. /\ q.uid = vol[v].uid /\ q.fin = vol[v].fin /\ q.deleting
          /\ q.status = vol[v].status /\ q \in Volume
      BY <1>1 DEF Volume
    <3>3. IF vol[v].fin THEN o = q ELSE o = NoVolume
      BY <3>2 DEF Collected
    <3> HIDE DEF q, o
    <3>4. CASE vol[v].fin
      <4>1. Allowed(v, o)
        BY <2>1, <3>1, <3>2, <3>3, <3>4 DEF Allowed, Sound, Exists
      <4> QED BY <3>1, <3>2, <3>3, <3>4, <4>1
    <3>5. CASE ~vol[v].fin
      <4>1. Allowed(v, NoVolume)
        BY <2>1, <3>5 DEF Allowed, Settled, Sound, NoVolume, NewStatus
      <4>2. NoVolume.status.job = "" /\ NoVolume \in Volume
        BY VolumeTypes DEF NoVolume, NewStatus
      <4> QED BY <3>1, <3>3, <3>5, <4>1, <4>2
    <3> QED BY <3>4, <3>5
  <2> QED BY <2>2, <2>3
<1>3. InboxInv' /\ CurrentInv'
  BY <1>1, <1>2, AllowedWrite
<1>4. vol'[v] = o /\ \A u \in Volumes : u # v => vol'[u] = vol[u]
  BY <1>2 DEF SetVolume, TypeOK
<1>5. Outdated => Outdated'
  BY <1>1, <1>2, <1>4, JidAssumption DEF Outdated
<1>6. ctl.step = "save" => Settled(ctl.v, ctl.next)' \/ Outdated'
  <2>1. PICK u, s : u = ctl.v /\ s = ctl.next
    OBVIOUS
  <2>2. Settled(u, s) => Settled(u, s)'
    BY <1>1, SettledKept
  <2> QED BY <1>1, <1>5, <2>1, <2>2 DEF EmptyInv, WriterInv
<1>7. ctl.step = "prepare" => vol'[ctl.v].fin /\ vol'[ctl.v].status.phase # "Terminating"
  BY <1>1, <1>2, <1>4 DEF EmptyInv, WriterInv
<1>8. WriterInv'
  BY <1>1, <1>6, <1>7 DEF EmptyInv, WriterInv
<1> QED BY <1>3, <1>8 DEF EmptyInv

\* The writes of the reconciliation: they are refused unless the copy is the
\* current Volume.
LEMMA WritesAreAllowed ==
  ASSUME TypeOK, EmptyInv, Save \/ Protect \/ DropVolume, ~Refused
  PROVE  EmptyInv'
<1>1. /\ UNCHANGED <<jobs, inbox, Reported>> /\ ctl \in Control /\ ctl.v \in Volumes
      /\ ctl.vol \in Volume /\ ctl.next \in Status /\ vol[ctl.v] = ctl.vol
  BY DEF Save, Protect, DropVolume, salt, TypeOK, Control, Reported
<1>2. /\ ctl.vol.fin => Exists(ctl.vol)
      /\ ~ctl.vol.fin => Empty(ctl.v)
      /\ Settled(ctl.v, ctl.vol.status) /\ Sound(ctl.vol, ctl.vol.status)
  BY <1>1 DEF EmptyInv, CurrentInv
<1>3. ASSUME NEW o \in Volume, SetVolume(ctl.v, o), Allowed(ctl.v, o), WriterInv'
      PROVE  EmptyInv'
  BY <1>1, <1>3, AllowedWrite DEF EmptyInv
<1>4. CASE Save
  <2> DEFINE o == [ctl.vol EXCEPT !.status = ctl.next]
  <2>1. /\ SetVolume(ctl.v, o) /\ ctl.step = "save"
        /\ ctl' = Idle \/ ctl' = [ctl EXCEPT !.vol = o, !.step = "failPv"]
    BY <1>4 DEF Save, Finish, Requeue
  <2>2. /\ o \in Volume /\ o.uid = ctl.vol.uid /\ o.fin = ctl.vol.fin
        /\ o.deleting = ctl.vol.deleting /\ o.status = ctl.next
    BY <1>1, VolumeTypes DEF Volume
  <2> HIDE DEF o
  <2>3. Sound(o, o.status) /\ Settled(ctl.v, ctl.next) /\ Exists(o)
    BY <1>1, <2>1, <2>2 DEF EmptyInv, WriterInv, Sound, Outdated, Exists
  <2>4. Allowed(ctl.v, o)
    BY <1>2, <2>2, <2>3 DEF Allowed
  <2>5. CASE ctl' = [ctl EXCEPT !.vol = o, !.step = "failPv"]
    <3>1. ctl'.step = "failPv" /\ ctl'.vol = o
      BY <1>1, <2>5 DEF Control
    <3>2. WriterInv'
      BY <2>3, <3>1 DEF WriterInv, Sound
    <3> QED BY <1>3, <2>1, <2>2, <2>4, <3>2
  <2> QED BY <1>3, <2>1, <2>2, <2>4, <2>5, IdleIsAllowed
<1>5. CASE Protect
  <2> DEFINE o == [ctl.vol EXCEPT !.fin = TRUE]
  <2>1. /\ SetVolume(ctl.v, o) /\ ctl.step = "protect"
        /\ ctl' = [ctl EXCEPT !.vol = o, !.step = "prepare"]
    BY <1>5 DEF Protect
  <2>2. /\ o \in Volume /\ o.uid = ctl.vol.uid /\ o.fin
        /\ o.deleting = ctl.vol.deleting /\ o.status = ctl.vol.status
    BY <1>1, VolumeTypes DEF Volume
  <2> HIDE DEF o
  <2>3. Exists(o) /\ Sound(o, o.status) /\ ~Finalizing(ctl.vol)
    BY <1>2, <2>1, <2>2 DEF EmptyInv, WriterInv, Sound, Exists
  <2>4. Allowed(ctl.v, o) /\ o.status.phase # "Terminating"
    BY <1>2, <2>2, <2>3 DEF Allowed, Sound, Finalizing
  <2>5. ctl'.step = "prepare" /\ ctl'.vol = o /\ ctl'.v = ctl.v /\ vol'[ctl.v] = o
    BY <1>1, <2>1 DEF Control, SetVolume, TypeOK
  <2>6. WriterInv'
    BY <2>2, <2>3, <2>4, <2>5 DEF WriterInv, Sound
  <2> QED BY <1>3, <2>1, <2>2, <2>4, <2>6
<1>6. CASE DropVolume
  <2> DEFINE q == [ctl.vol EXCEPT !.fin = FALSE]
  <2>1. SetVolume(ctl.v, Collected(q)) /\ ctl.step = "dropVolume" /\ ctl' = Idle
    BY <1>6 DEF DropVolume, Finish
  <2>2. Finalizing(ctl.vol) /\ CurrentJob(ctl.vol) = "DONE"
    BY <2>1 DEF EmptyInv, WriterInv
  <2>3. ctl.vol.status.phase = "Terminating" /\ ctl.vol.status.job = "DONE"
    BY <1>2, <2>2 DEF Finalizing, CurrentJob, Sound
  <2>4. Empty(ctl.v)
    BY <1>2, <2>3 DEF Settled
  <2>5. Collected(q) = NoVolume
    BY <1>1, <2>2 DEF Collected, Finalizing, Volume
  <2>6. Allowed(ctl.v, NoVolume) /\ NoVolume \in Volume
    BY <2>4, VolumeTypes DEF Allowed, Settled, Sound, NoVolume, NewStatus
  <2> QED BY <1>3, <2>1, <2>5, <2>6, IdleIsAllowed
<1> QED BY <1>4, <1>5, <1>6

-----------------------------------------------------------------------------
(* The reconciliation. *)

\* A step of the reconciliation that writes nothing.
LEMMA ReadsAreAllowed ==
  ASSUME TypeOK, EmptyInv, UNCHANGED <<vol, vcache, jobs, inbox, Reported>>, WriterInv'
  PROVE  EmptyInv'
BY CurrentKept DEF EmptyInv, InboxInv

\* The statuses that say nothing of the storage.
LEMMA PlainIsAllowed ==
  ASSUME NEW v, NEW o, NEW s, Sound(o, s)
  PROVE  /\ \A why : Sound(o, FailedStatus(s, why)) /\ Settled(v, FailedStatus(s, why))
         /\ Sound(o, AvailableStatus) /\ Settled(v, AvailableStatus)
         /\ \A job : Sound(o, PendingStatus(job)) /\ Settled(v, PendingStatus(job))
         /\ o.deleting => \A job : Sound(o, TerminatingStatus(job))
BY DEF Sound, Settled, FailedStatus, AvailableStatus, PendingStatus, TerminatingStatus

\* A status to save.
LEMMA SavedIsAllowed ==
  ASSUME TypeOK, EmptyInv, UNCHANGED <<vol, vcache, jobs, inbox, Reported>>,
         ctl.step # "idle", NEW s, NEW a, GoSave(ctl, s, a),
         Sound(ctl.vol, s), Settled(ctl.v, s) \/ Outdated
  PROVE  EmptyInv'
<1>1. ctl'.v = ctl.v /\ ctl'.vol = ctl.vol /\ ctl'.step = "save" /\ ctl'.next = s
  BY DEF GoSave, TypeOK, Control
<1>2. Settled(ctl.v, s) => Settled(ctl.v, s)'
  BY <1>1 DEF Settled, Behind, Empty, Active, Prepares
<1>3. Settled(ctl.v, ctl.next)' \/ Outdated'
  BY <1>1, <1>2 DEF Outdated
<1>4. WriterInv'
  BY <1>1, <1>3 DEF EmptyInv, WriterInv, Sound
<1> QED BY <1>4, ReadsAreAllowed

LEMMA FetchIsAllowed ==
  ASSUME TypeOK, EmptyInv, NEW v \in Volumes, Fetch(v)
  PROVE  EmptyInv'
<1> DEFINE o == vcache[v]
           c == [ctl EXCEPT !.v = v, !.vol = o]
           s == FailedStatus(o.status, "InternalError")
<1>1. /\ UNCHANGED <<vol, vcache, jobs, inbox, Reported>> /\ ctl \in Control
      /\ Sound(o, o.status)
  BY DEF Fetch, api, salt, TypeOK, EmptyInv, CurrentInv, Reported
<1>2. \/ ctl' = [Idle EXCEPT !.v = v]
      \/ Exists(o) /\ ctl' = [c EXCEPT !.step = "save", !.next = s, !.after = "requeue"]
      \/ Exists(o) /\ ctl' = [c EXCEPT !.step = "lookup"]
  BY DEF Fetch, GoSave
<1>3. Sound(o, s)
  BY <1>1 DEF Sound, FailedStatus
<1>4. CASE ctl' = [Idle EXCEPT !.v = v]
  <2>1. ctl'.step = "idle"
    BY <1>4 DEF Idle
  <2> QED BY <1>1, <2>1, ReadsAreAllowed DEF WriterInv
<1>5. CASE Exists(o) /\ ctl' = [c EXCEPT !.step = "save", !.next = s, !.after = "requeue"]
  <2>1. ctl'.v = v /\ ctl'.vol = o /\ ctl'.step = "save" /\ ctl'.next = s
    BY <1>1, <1>5 DEF Control
  <2>2. WriterInv'
    <3>1. Settled(ctl.v, ctl.next)'
      <4>1. ctl'.next.phase = "Failed"
        BY <2>1 DEF FailedStatus
      <4> QED BY <4>1 DEF Settled
    <3> QED BY <1>1, <1>3, <1>5, <2>1, <3>1 DEF WriterInv, Sound
  <2> QED BY <1>1, <2>2, ReadsAreAllowed
<1>6. CASE Exists(o) /\ ctl' = [c EXCEPT !.step = "lookup"]
  <2>1. ctl'.vol = o /\ ctl'.step = "lookup"
    BY <1>1, <1>6 DEF Control
  <2>2. WriterInv'
    BY <1>1, <1>6, <2>1 DEF WriterInv, Sound
  <2> QED BY <1>1, <2>2, ReadsAreAllowed
<1> QED BY <1>2, <1>4, <1>5, <1>6

LEMMA LookupIsAllowed ==
  ASSUME TypeOK, EmptyInv, Lookup
  PROVE  EmptyInv'
<1> DEFINE o == ctl.vol
           p == pvcache[ctl.v]
<1>1. /\ UNCHANGED <<vol, vcache, jobs, inbox, Reported>> /\ ctl.step = "lookup"
      /\ ctl \in Control /\ Exists(o) /\ Sound(o, o.status) /\ o.status \in Status
  BY VolumeTypes DEF Lookup, api, salt, TypeOK, Control, EmptyInv, WriterInv, Reported
<1>2. CASE ctl' = Idle
  BY <1>1, <1>2, IdleIsAllowed, ReadsAreAllowed
<1>3. CASE ctl' = [ctl EXCEPT !.step = "deletePv"]
  <2>1. ctl'.vol = o /\ ctl'.step = "deletePv"
    BY <1>1, <1>3 DEF Control
  <2>2. WriterInv'
    BY <1>1, <2>1 DEF WriterInv, Sound
  <2> QED BY <1>1, <2>2, ReadsAreAllowed
<1>4. CASE /\ Finalizing(o)
           /\ ctl' = [[ctl EXCEPT !.pv = p] EXCEPT !.step = ReclaimStep(CurrentJob(o), p)]
  <2>1. ctl'.vol = o /\ ctl'.v = ctl.v /\ ctl'.step = ReclaimStep(CurrentJob(o), p)
    BY <1>1, <1>4 DEF Control
  <2>2. CurrentJob(o) \in JobValues /\ (CurrentJob(o) \in Jids =>
          o.status.job \in Jids /\ o.status.phase # "Failed")
    BY <1>1, JidAssumption DEF CurrentJob, Status, JobValues
  <2>3. \/ ctl'.step = "unprepare"
        \/ ctl'.step \in {"dropPv", "dropVolume"} /\ CurrentJob(o) = "DONE"
        \/ /\ ctl'.step = "poll" /\ o.status.job \in Jids
           /\ o.status.phase # "Failed"
    BY <2>1, <2>2 DEF ReclaimStep, JobValues
  <2>4. WriterInv'
    BY <1>1, <1>4, <2>1, <2>3 DEF WriterInv, Sound
  <2> QED BY <1>1, <2>4, ReadsAreAllowed
<1>5. CASE /\ ~Finalizing(o)
           /\ ctl' = [[ctl EXCEPT !.pv = p] EXCEPT !.step = DeployStep(o.status.job)]
  <2>1. ctl'.vol = o /\ ctl'.step = DeployStep(o.status.job)
    BY <1>1, <1>5 DEF Control
  <2>2. o.status.job \in JobValues
    BY <1>1 DEF Status
  <2>3. ctl'.step \in {"protect", "size"} \/ (ctl'.step = "poll" /\ o.status.job \in Jids)
    BY <2>1, <2>2 DEF DeployStep, JobValues
  <2>4. WriterInv'
    BY <1>1, <1>5, <2>1, <2>3 DEF WriterInv, Sound
  <2> QED BY <1>1, <2>4, ReadsAreAllowed
<1>6. CASE \/ \E a : GoSave(ctl, FailedStatus(o.status, "UnavailableError"), a)
           \/ \E a : GoSave(ctl, AvailableStatus, a)
  BY <1>1, <1>6, PlainIsAllowed, SavedIsAllowed
<1> QED
  BY <1>2, <1>3, <1>4, <1>5, <1>6 DEF Lookup, Go, Requeue, Finish

\* The end of the last job.
LEMMA PollIsAllowed ==
  ASSUME TypeOK, EmptyInv, Poll \/ PollFails
  PROVE  EmptyInv'
<1> DEFINE o == ctl.vol
           job == jobs[o.status.job]
<1>1. /\ UNCHANGED <<vol, vcache, jobs, inbox, Reported>> /\ ctl.step = "poll"
      /\ ctl.v \in Volumes /\ vol[ctl.v].status \in Status
      /\ Exists(o) /\ Sound(o, o.status) /\ o.status.job \in Jids
      /\ Finalizing(o) => o.status.phase # "Failed"
  BY VolumeTypes DEF Poll, PollFails, api, cache, salt, TypeOK, Control, EmptyInv, WriterInv, Reported
<1>2. \/ ctl' = Idle
      \/ \E a : GoSave(ctl, JobStatus(""), a)
      \/ \E a, why : GoSave(ctl, FailedStatus(o.status, why), a)
      \/ PollJob(job) = "ok" /\ \E a : GoSave(ctl, JobStatus("DONE"), a)
  BY DEF Poll, PollFails, Requeue, Finish
<1>3. ASSUME NEW value \in {"", "DONE"}
      PROVE  Sound(o, JobStatus(value))
  BY <1>1, PlainIsAllowed DEF JobStatus, Finalizing
<1>4. Settled(ctl.v, JobStatus(""))
  BY JidAssumption DEF JobStatus, Settled, PendingStatus, TerminatingStatus
<1>5. ASSUME PollJob(job) = "ok"
      PROVE  Settled(ctl.v, JobStatus("DONE")) \/ Outdated
  <2> SUFFICES ASSUME Finalizing(o), vol[ctl.v].status = o.status
               PROVE  Empty(ctl.v)
    BY <1>1, JidAssumption DEF Outdated, JobStatus, Settled, PendingStatus, TerminatingStatus
  <2>1. job.state = "ok"
    BY <1>1, <1>5 DEF PollJob, TypeOK, Job, JobStates
  <2>2. o.status.phase = "Terminating"
    BY <1>1, JidAssumption DEF Finalizing, Sound
  <2>3. Settled(ctl.v, o.status)
    BY <1>1 DEF EmptyInv, CurrentInv
  <2> QED BY <1>1, <2>1, <2>2, <2>3 DEF Settled, Behind
<1> QED
  BY <1>1, <1>2, <1>3, <1>4, <1>5, PlainIsAllowed, SavedIsAllowed, IdleIsAllowed, ReadsAreAllowed

\* The other calls, and the writes that are refused.
LEMMA CallsAreAllowed ==
  ASSUME TypeOK, EmptyInv,
         \/ Size \/ SizeFails \/ CallFails \/ Refused
         \/ FailPv \/ CreatePv \/ DeletePv \/ DropPv
  PROVE  EmptyInv'
<1>1. /\ UNCHANGED <<vol, vcache, jobs, inbox, Reported>> /\ ctl \in Control
  BY DEF Size, SizeFails, CallFails, Refused, FailPv, CreatePv, DeletePv, DropPv,
         api, cache, salt, TypeOK, Reported
<1>2. \/ ctl' = Idle
      \/ ctl.step = "size" /\ ctl' = [ctl EXCEPT !.step = "createPv"]
      \/ ctl.step = "dropPv" /\ ctl' = [ctl EXCEPT !.step = "dropVolume"]
      \/ /\ ctl.step # "idle"
         /\ \E a : \/ GoSave(ctl, FailedStatus(ctl.vol.status, "CreationError"), a)
                   \/ GoSave(ctl, AvailableStatus, a)
  BY DEF Size, SizeFails, CallFails, Refused, FailPv, CreatePv, DeletePv, DropPv,
         Go, Requeue, Finish
<1>3. CASE ctl' = Idle
  BY <1>1, <1>3, IdleIsAllowed, ReadsAreAllowed
<1>4. CASE \/ ctl.step = "size" /\ ctl' = [ctl EXCEPT !.step = "createPv"]
           \/ ctl.step = "dropPv" /\ ctl' = [ctl EXCEPT !.step = "dropVolume"]
  <2>1. /\ ctl'.vol = ctl.vol
        /\ \/ ctl.step = "size" /\ ctl'.step = "createPv"
           \/ ctl.step = "dropPv" /\ ctl'.step = "dropVolume"
    BY <1>1, <1>4 DEF Control
  <2>2. WriterInv'
    BY <2>1 DEF EmptyInv, WriterInv, Sound
  <2> QED BY <1>1, <2>2, ReadsAreAllowed
<1>5. CASE /\ ctl.step # "idle"
           /\ \E a : \/ GoSave(ctl, FailedStatus(ctl.vol.status, "CreationError"), a)
                     \/ GoSave(ctl, AvailableStatus, a)
  <2>1. Sound(ctl.vol, ctl.vol.status)
    BY <1>5 DEF EmptyInv, WriterInv
  <2> QED BY <1>1, <1>5, <2>1, PlainIsAllowed, SavedIsAllowed
<1> QED BY <1>2, <1>3, <1>4, <1>5

\* A new job is behind all the others; one that prepares is only published for a
\* Volume that is not Terminating.
LEMMA SpawnsAreAllowed ==
  ASSUME TypeOK, EmptyInv, NEW j \in Jids,
         PrepareVolume(j) \/ UnprepareVolume(j) \/ AnswerLost(j)
  PROVE  EmptyInv'
<1>1. PICK kind \in JobKinds :
        /\ ctl.step = kind /\ Spawn(j, kind)
        /\ \/ ctl' = Idle
           \/ kind = "prepare" /\ GoSave(ctl, PendingStatus(j), "requeue")
           \/ kind = "unprepare" /\ GoSave(ctl, TerminatingStatus(j), "requeue")
  BY DEF PrepareVolume, UnprepareVolume, AnswerLost, JobKinds, Requeue, Finish
<1>2. /\ UNCHANGED <<vol, vcache, Reported>> /\ ctl.v \in Volumes /\ InboxInv
      /\ ~Active(j) /\ ~Referenced(j)
  BY <1>1, ReportedKept
     DEF PrepareVolume, UnprepareVolume, AnswerLost, api, cache, TypeOK, Control,
         EmptyInv, Spawn
<1>3. /\ InboxInv'
      /\ Len(inbox) \in Nat /\ Len(inbox') = Len(inbox) + 1
      /\ inbox'[Len(inbox) + 1] = j
      /\ \A i \in 1..Len(inbox) : inbox'[i] = inbox[i] /\ inbox[i] \in Jids \ {j}
      /\ jobs'[j].vol = ctl.v /\ jobs'[j].kind = kind /\ jobs'[j].state = "sent"
      /\ \A k \in Jids : k # j => jobs'[k] = jobs[k]
  BY <1>1, <1>2, Appended
<1>4. /\ kind = "prepare" => vol[ctl.v].fin /\ vol[ctl.v].status.phase # "Terminating"
      /\ kind = "unprepare" => Finalizing(ctl.vol)
      /\ Exists(ctl.vol) /\ Sound(ctl.vol, ctl.vol.status)
  BY <1>1 DEF EmptyInv, WriterInv, JobKinds
\* What is promised to the volumes that no preparation is published for stays.
<1>5. ASSUME NEW v \in Volumes, kind = "prepare" => v # ctl.v
      PROVE  /\ Empty(v) => Empty(v)'
             /\ \A k \in Jids \ {j} : Behind(v, k) => Behind(v, k)'
  <2>1. ~Prepares(v, j)'
    BY <1>3, <1>5 DEF Prepares, JobKinds
  <2>2. Empty(v) => Empty(v)'
    BY <1>2, <1>3, <2>1 DEF Empty, Active, Prepares
  <2>3. ASSUME NEW k \in Jids \ {j}, Behind(v, k)
        PROVE  Behind(v, k)'
    <3>1. ASSUME NEW i \in 1..Len(inbox'), Prepares(v, inbox[i])'
          PROVE  \E n \in i..Len(inbox') : inbox'[n] = k
      <4>1. i \in 1..Len(inbox)
        BY <1>3, <2>1, <3>1 DEF Prepares
      <4>2. Prepares(v, inbox[i])
        BY <1>3, <3>1, <4>1 DEF Prepares
      <4>3. PICK n \in i..Len(inbox) : inbox[n] = k
        BY <2>3, <4>1, <4>2 DEF Behind
      <4>4. n \in 1..Len(inbox) /\ n \in i..Len(inbox')
        BY <1>3, <4>1
      <4> QED BY <1>3, <4>3, <4>4
    <3>2. jobs'[k] = jobs[k]
      BY <1>3
    <3> QED BY <2>2, <2>3, <3>1, <3>2 DEF Behind
  <2> QED BY <2>2, <2>3
<1>6. ASSUME kind = "unprepare"
      PROVE  Behind(ctl.v, j)'
  <2>1. ctl'.v = ctl.v
    <3>1. ctl' = Idle => ctl'.v = ctl.v
      BY DEF Idle
    <3>2. \A s, a : GoSave(ctl, s, a) => ctl'.v = ctl.v
      BY DEF GoSave, TypeOK, Control
    <3> QED BY <1>1, <3>1, <3>2
  <2>2. ASSUME NEW i \in 1..Len(inbox')
        PROVE  \E n \in i..Len(inbox') : inbox'[n] = j
    <3>1. Len(inbox) + 1 \in i..Len(inbox')
      BY <1>3, <2>2
    <3> QED BY <1>3, <3>1
  <2> QED BY <1>3, <1>6, <2>1, <2>2 DEF Behind
<1>7. CurrentInv'
  <2> SUFFICES ASSUME NEW v \in Volumes
               PROVE  /\ ~vol[v].fin => Empty(v)'
                      /\ Settled(v, vol[v].status)'
    BY <1>2 DEF EmptyInv, CurrentInv, Sound
  <2>1. /\ ~vol[v].fin => Empty(v)
        /\ Settled(v, vol[v].status) /\ vol[v].status.job # j
    BY <1>2 DEF EmptyInv, CurrentInv, Referenced
  <2>2. CASE kind = "prepare" /\ v = ctl.v
    BY <1>2, <1>4, <2>2 DEF Settled
  <2>3. CASE kind = "prepare" => v # ctl.v
    BY <1>2, <1>5, <2>1, <2>3 DEF Settled
  <2> QED BY <2>2, <2>3
<1>8. WriterInv'
  <2>1. ASSUME NEW s, GoSave(ctl, s, "requeue"), s = PendingStatus(j) \/
                 (s = TerminatingStatus(j) /\ kind = "unprepare")
        PROVE  WriterInv'
    <3>1. ctl'.v = ctl.v /\ ctl'.vol = ctl.vol /\ ctl'.step = "save" /\ ctl'.next = s
      BY <2>1 DEF GoSave, TypeOK, Control
    <3>2. Sound(ctl.vol, s)
      BY <1>4, <2>1, PlainIsAllowed DEF Finalizing
    <3>3. /\ s.job = j /\ j # "DONE"
          /\ s.phase = "Terminating" => kind = "unprepare"
      <4>1. /\ PendingStatus(j).job = j /\ PendingStatus(j).phase = "Pending"
            /\ TerminatingStatus(j).job = j
        BY DEF PendingStatus, TerminatingStatus
      <4>2. j # "DONE"
        BY JidAssumption
      <4> QED BY <2>1, <4>1, <4>2
    <3>4. Settled(ctl.v, ctl.next)'
      BY <1>6, <3>1, <3>3 DEF Settled
    <3> QED BY <1>4, <3>1, <3>2, <3>4 DEF WriterInv, Sound
  <2> QED BY <1>1, <2>1, IdleIsAllowed
<1> QED BY <1>3, <1>7, <1>8 DEF EmptyInv

LEMMA SyncIsAllowed ==
  ASSUME TypeOK, EmptyInv,
         Crash \/ \E v \in Volumes : SyncVolume(v) \/ SyncPv(v)
  PROVE  EmptyInv'
<1>1. /\ UNCHANGED <<vol, jobs, inbox, Reported>> /\ (ctl' = ctl \/ ctl' = Idle)
      /\ \A u \in Volumes : vcache'[u] \in {vol[u], vcache[u]}
  BY DEF Crash, SyncVolume, SyncPv, api, salt, TypeOK, Reported
<1>2. CurrentInv'
  BY <1>1, CurrentKept DEF EmptyInv
<1>3. WriterInv'
  <2>1. CASE ctl' = ctl
    <3>1. Settled(ctl.v, ctl.next) => Settled(ctl.v, ctl.next)'
      BY <1>1, <2>1 DEF Settled, Behind, Empty, Active, Prepares
    <3> QED BY <1>1, <2>1, <3>1 DEF EmptyInv, WriterInv, Sound, Outdated
  <2> QED BY <1>1, <2>1, IdleIsAllowed
<1>4. InboxInv'
  BY <1>1 DEF EmptyInv, InboxInv
<1> QED BY <1>2, <1>3, <1>4 DEF EmptyInv

LEMMA StepIsAllowed ==
  ASSUME TypeOK, TypeOK', EmptyInv, [Next]_vars
  PROVE  EmptyInv'
<1>1. CASE Start \/ \E j \in Jids : Complete(j) \/ JobFails(j)
  BY <1>1, StartClears, CompleteClears
<1>2. CASE LoseMessage \/ MinionRestart \/ MasterRestart
  BY <1>2, LossClears
<1>3. CASE Save \/ Protect \/ DropVolume
  BY <1>3, WritesAreAllowed, CallsAreAllowed
<1>4. CASE Lookup
  BY <1>4, LookupIsAllowed
<1>5. CASE Poll \/ PollFails
  BY <1>5, PollIsAllowed
<1>6. CASE \/ Size \/ SizeFails \/ CallFails
           \/ FailPv \/ CreatePv \/ DeletePv \/ DropPv
  BY <1>6, CallsAreAllowed
<1>7. CASE \E j \in Jids : PrepareVolume(j) \/ UnprepareVolume(j) \/ AnswerLost(j)
  BY <1>7, SpawnsAreAllowed
<1>8. CASE Crash \/ \E v \in Volumes : SyncVolume(v) \/ SyncPv(v)
  BY <1>8, SyncIsAllowed
<1>9. CASE \E v \in Volumes : Fetch(v)
  BY <1>9, FetchIsAllowed
<1>10. CASE \E v \in Volumes : CreateVolume(v) \/ DeleteVolume(v)
  BY <1>10, UsersAreAllowed
<1>11. CASE \/ UNCHANGED vars
            \/ \E v \in Volumes :
                 \/ CreateForeignPv(v) \/ UserDeletePv(v) \/ Bind(v) \/ Release(v)
                 \/ Offer(v) \/ Recover(v) \/ Unprotect(v) \/ PvFails(v)
  <2>1. UNCHANGED <<vol, vcache, jobs, inbox, Reported, ctl>>
    BY <1>11 DEF vars, CreateForeignPv, UserDeletePv, Bind, Release, Offer, Recover,
         Unprotect, PvFails, ChangePv, salt, Reported
  <2>2. Settled(ctl.v, ctl.next) => Settled(ctl.v, ctl.next)'
    BY <2>1 DEF Settled, Behind, Empty, Active, Prepares
  <2>3. WriterInv'
    BY <2>1, <2>2 DEF EmptyInv, WriterInv, Sound, Outdated
  <2> QED BY <2>1, <2>3, ReadsAreAllowed
<1> QED
  BY <1>1, <1>2, <1>3, <1>4, <1>5, <1>6, <1>7, <1>8, <1>9, <1>10, <1>11
     DEF Next, Worker, Minion, FaultStep, Environment

LEMMA InitIsEmpty == Init => EmptyInv
<1> SUFFICES ASSUME Init PROVE EmptyInv
  OBVIOUS
<1>1. /\ ctl.step = "idle" /\ vcache = vol /\ inbox = <<>>
      /\ \A v \in Volumes : vol[v] = NoVolume /\ Reported[v] = "raw"
      /\ \A j \in Jids : jobs[j].state = "none"
  BY DEF Init, Reported
<1>2. \A v \in Volumes : Empty(v)
  BY <1>1 DEF Empty, Active
<1>3. CurrentInv
  <2>1. /\ ~NoVolume.fin
        /\ \A v : Settled(v, NoVolume.status)
        /\ Sound(NoVolume, NoVolume.status)
    BY DEF NoVolume, NewStatus, Settled, Sound
  <2> QED BY <1>1, <1>2, <2>1 DEF CurrentInv
<1>4. InboxInv
  BY <1>1 DEF InboxInv
<1> QED BY <1>1, <1>3, <1>4 DEF EmptyInv, WriterInv

\* Only a removal that had no link to find the file by leaves it.
LeftInv == \A v \in Volumes : disk[v] = "left" => v \in unlinked

LEMMA StepLeaves ==
  ASSUME TypeOK, LeftInv, [Next]_vars
  PROVE  LeftInv'
<1>1. CASE UNCHANGED <<disk, unlinked>>
  BY <1>1 DEF LeftInv
<1>2. ASSUME NEW v \in Volumes, CreateVolume(v)
      PROVE  LeftInv'
  <2>1. /\ disk' = [disk EXCEPT ![v] = IF @ = "left" THEN "raw" ELSE @]
        /\ unlinked' = unlinked \ {v}
    BY <1>2 DEF CreateVolume
  <2> QED
    BY <2>1 DEF LeftInv, TypeOK
<1>3. CASE Start
  <2>1. PICK h \in Jids : h = Head(inbox)
    BY <1>3, HeadTypes DEF Start
  <2>2. PICK v \in Volumes, k \in JobKinds : v = jobs[h].vol /\ k = jobs[h].kind
    BY DEF TypeOK, Job
  <2>3. /\ unlinked' = unlinked
        /\ \/ disk' = disk
           \/ disk' = [disk EXCEPT ![v] = IF @ \in Wanted(k) THEN @ ELSE "dirty"]
    BY <1>3, <2>1, <2>2 DEF Start
  <2> QED
    BY <2>3 DEF LeftInv, TypeOK
<1>4. ASSUME NEW h \in Jids, Complete(h)
      PROVE  LeftInv'
  <2>1. PICK v \in Volumes, k \in JobKinds : v = jobs[h].vol /\ k = jobs[h].kind
    BY DEF TypeOK, Job
  <2>2. PICK s \in Outcomes(k, v) : disk' = [disk EXCEPT ![v] = s]
    BY <1>4, <2>1 DEF Complete
  <2>3. s = "left" => v \in unlinked
    BY <2>2 DEF Outcomes
  <2>4. unlinked' = unlinked
    BY <1>4 DEF Complete
  <2> QED
    BY <2>2, <2>3, <2>4 DEF LeftInv, TypeOK
<1>5. ASSUME UNCHANGED disk, Interrupted
      PROVE  LeftInv'
  BY <1>5 DEF Interrupted, LeftInv
<1>6. CASE Worker
  <2>1. CASE Save \/ FailPv
    <3>1. UNCHANGED salt
      BY <2>1 DEF Save, FailPv, Refused
    <3> QED BY <1>1, <3>1 DEF salt
  <2>2. CASE Lookup \/ Protect \/ Poll \/ Size
    <3>1. UNCHANGED salt
      BY <2>2 DEF Lookup, Protect, Poll, Size, Refused
    <3> QED BY <1>1, <3>1 DEF salt
  <2>3. CASE CreatePv \/ DeletePv \/ DropPv \/ DropVolume
    <3>1. UNCHANGED salt
      BY <2>3 DEF CreatePv, DeletePv, DropPv, DropVolume, Refused
    <3> QED BY <1>1, <3>1 DEF salt
  <2>4. CASE \E j \in Jids : PrepareVolume(j) \/ UnprepareVolume(j)
    BY <1>1, <2>4 DEF PrepareVolume, UnprepareVolume
  <2> QED
    BY <1>6, <2>1, <2>2, <2>3, <2>4 DEF Worker
<1>7. CASE Minion
  BY <1>3, <1>4, <1>7 DEF Minion
<1>8. CASE FaultStep
  <2>1. CASE LoseMessage \/ MasterRestart \/ CallFails \/ PollFails \/ SizeFails \/ Crash
    BY <1>1, <2>1 DEF LoseMessage, MasterRestart, CallFails, PollFails, SizeFails,
                      Crash, salt
  <2>2. CASE MinionRestart \/ \E j \in Jids : JobFails(j)
    BY <1>5, <2>2 DEF MinionRestart, JobFails
  <2>3. CASE \E j \in Jids : AnswerLost(j)
    BY <1>1, <2>3 DEF AnswerLost
  <2>4. CASE \E v \in Volumes : PvFails(v)
    BY <1>1, <2>4 DEF PvFails, ChangePv, salt
  <2> QED
    BY <1>8, <2>1, <2>2, <2>3, <2>4 DEF FaultStep
<1>9. ASSUME NEW v \in Volumes,
             Environment(v) \/ Fetch(v) \/ SyncVolume(v) \/ SyncPv(v)
      PROVE  LeftInv'
  <2>1. CASE DeleteVolume(v) \/ Fetch(v) \/ SyncVolume(v) \/ SyncPv(v)
    BY <1>1, <2>1 DEF DeleteVolume, Fetch, SyncVolume, SyncPv, salt
  <2>2. CASE \/ CreateForeignPv(v) \/ UserDeletePv(v) \/ Bind(v) \/ Release(v)
             \/ Offer(v) \/ Recover(v) \/ Unprotect(v)
    BY <1>1, <2>2 DEF CreateForeignPv, UserDeletePv, Bind, Release, Offer, Recover,
                      Unprotect, ChangePv, salt
  <2> QED
    BY <1>2, <1>9, <2>1, <2>2 DEF Environment
<1>10. CASE UNCHANGED vars
  BY <1>1, <1>10 DEF vars
<1> QED
  BY <1>1, <1>6, <1>7, <1>8, <1>9, <1>10 DEF Next

\* A Volume is collected only when nothing of its storage is on the node, however
\* late the caches are and whatever job the operator lost the answer of.  The one
\* exception is a volume that an interrupted run may have left without a link by
\* UUID: the removal of its file may have ended early, and reported success.
THEOREM NothingIsLeft == Spec => []NothingLeftBehind
<1>1. TypeOK /\ TypeOK' /\ EmptyInv /\ [Next]_vars => EmptyInv'
  BY StepIsAllowed
<1>2. TypeOK /\ LeftInv /\ [Next]_vars => LeftInv'
  BY StepLeaves
<1>3. Init => LeftInv
  BY DEF Init, LeftInv
<1>4. EmptyInv /\ LeftInv => NothingLeftBehind
  <2>1. ASSUME CurrentInv, LeftInv, NEW v \in Volumes, ~vol[v].fin
        PROVE  disk[v] = "raw" \/ (disk[v] = "left" /\ v \in unlinked)
    BY <2>1 DEF CurrentInv, Empty, Reported, LeftInv
  <2>2. ASSUME CurrentInv, NEW v \in Volumes, ~Exists(vol[v])
        PROVE  ~vol[v].fin
    BY <2>2 DEF CurrentInv
  <2> QED
    BY <2>1, <2>2 DEF EmptyInv, NothingLeftBehind
<1> QED
  BY <1>1, <1>2, <1>3, <1>4, InitIsEmpty, TypeCorrect, PTL DEF Spec

-----------------------------------------------------------------------------
(* The storage of a Volume.  The argument is about jobs: which ones may be   *)
(* active, and what their end says of the storage.  It holds however late the *)
(* cache of Volumes is: what a copy of the current Volume says of its storage *)
(* stays true, and what an outdated copy leads to is refused by the API       *)
(* server or changes nothing.                                                 *)

\* The storage is not known to be there, is there, or is what a
\* PersistentVolume is made of.
Waits(s)    == s.phase \in {"", "Pending"} /\ s.job # "DONE"
Prepared(s) == s.phase = "Pending" /\ s.job = "DONE"
Offered(s)  == \/ s.phase = "Available"
               \/ s.phase = "Failed" /\ s.reason = "UnavailableError"
Cleared(s)  == s.phase = "Terminating" /\ s.job = "DONE"

\* What a copy of the current Volume says of it, its jobs and its storage.
Says(v, c) ==
  Exists(c) /\ c.uid = vol[v].uid =>
    /\ Prepared(c.status) => Quiet(v) /\ ~Waits(vol[v].status)
    /\ Offered(c.status) /\ ~Finalizing(c) => c.fin /\ pv[v].owner # 0
    /\ Cleared(c.status) => Empty(v)

\* The job that a Pending Volume waits for is its last one.
Tracks(v, s) == s.phase = "Pending" /\ s.job \in Jids => Latest(v, s.job)

\* What a claim can use is ready.
Backed(v, p) ==
  p.owner # 0 =>
    /\ p.fin
    /\ IF p.inuse THEN Reported[v] = "ready" ELSE p.deleting /\ p.phase # "Bound"

ObjectsInv ==
  \A v \in Volumes :
    /\ vol[v].fin => vcache[v].uid = vol[v].uid
    /\ Says(v, vol[v]) /\ Says(v, vcache[v])
    /\ Tracks(v, vol[v].status)
    /\ Backed(v, pv[v])

\* The storage may be destroyed ...
Reclaims(v) == Finalizing(vol[v]) /\ (pv[v].owner # 0 => ~pv[v].inuse)

\* ... or there is none, until the job has been run: what an outdated copy of
\* a former Volume asked for comes before all that prepares the current one.
Harmless(v, j) ==
  /\ Reported[v] = "raw"
  /\ \A k \in Jids : jobs[k].state = "running" => ~Prepares(v, k)
  /\ \A i, k \in 1..Len(inbox) :
       inbox[i] = j /\ Prepares(v, inbox[k]) => i < k

\* What a job that has no result yet may count on.
ActiveInv ==
  \A j \in Jids : Active(j) =>
    LET v == jobs[j].vol
    IN /\ jobs[j].kind = "prepare" => pv[v].owner = 0
       /\ jobs[j].kind = "unprepare" => Reclaims(v) \/ Harmless(v, j)

\* A reconciliation works on a copy that the cache has had.
SeenInv ==
  /\ ctl.step # "idle" =>
       /\ vol[ctl.v].uid = ctl.vol.uid => vcache[ctl.v].uid = ctl.vol.uid
       /\ vol[ctl.v].fin => vol[ctl.v].uid = ctl.vol.uid
  /\ Says(ctl.v, ctl.vol)

\* The copy is not outdated: only a deletion may have come since.
Fresh == /\ vol[ctl.v].uid = ctl.vol.uid /\ vol[ctl.v].fin = ctl.vol.fin
         /\ vol[ctl.v].status = ctl.vol.status

\* What a reconciliation counts on when it makes its next call.
NextInv ==
  /\ ctl.step \in {"lookup", "protect"} /\ ~Finalizing(ctl.vol) =>
       ~InUnrecoverableFailedState(ctl.vol)
  /\ ctl.step \in Deploying => pv[ctl.v].owner = 0
  /\ ctl.step \in {"protect", "prepare"} => ctl.vol.status.job = ""
  /\ ctl.step = "prepare" => /\ Fresh /\ Waits(ctl.vol.status)
                             /\ vcache[ctl.v].status.phase # "Terminating"
  /\ ctl.step = "unprepare" => (pv[ctl.v].owner # 0 => ~pv[ctl.v].inuse)
  /\ ctl.step \in {"size", "createPv"} => Prepared(ctl.vol.status)
  /\ ctl.step = "createPv" => Reported[ctl.v] = "ready"
  /\ ctl.step = "poll" /\ ~Finalizing(ctl.vol) => ctl.vol.status.phase = "Pending"
  /\ ctl.step = "dropPv" => ctl.pv.owner # 0
  /\ ctl.step = "save" =>
       /\ Waits(ctl.next) => Waits(ctl.vol.status)
       /\ Offered(ctl.next) => pv[ctl.v].owner # 0
       /\ Fresh => Tracks(ctl.v, ctl.next) /\ (Prepared(ctl.next) => Quiet(ctl.v))

WorkInv == ObjectsInv /\ ActiveInv /\ SeenInv /\ NextInv

\* All that is known of the objects, the copies and the jobs.
StateInv == TypeOK /\ OutlivesInv /\ EmptyInv /\ WorkInv

-----------------------------------------------------------------------------
(* The minion leaves what is known of the objects as it is. *)

\* A step of the minion changes a storage for one of its jobs only.
RunsAJob ==
  \A v \in Volumes : Reported'[v] # Reported[v] =>
    \E j \in Jids : /\ Active(j) /\ jobs[j].vol = v
                    /\ Reported[v] # Result(jobs[j].kind)
                    /\ Reported'[v] \in {"dirty", Result(jobs[j].kind)}

\* A harmless job that is left stays harmless.
StaysHarmless ==
  \A v \in Volumes, j \in Jids : Active(j)' /\ Harmless(v, j) => Harmless(v, j)'

\* A job that changes a storage that is not raw may do so.
LEMMA RunsForGood ==
  ASSUME TypeOK, ActiveInv, RunsAJob, NEW v \in Volumes, Reported'[v] # Reported[v]
  PROVE  \E j \in Jids :
           /\ Active(j) /\ jobs[j].vol = v
           /\ \/ /\ jobs[j].kind = "prepare" /\ pv[v].owner = 0
                 /\ Reported[v] # "ready" /\ Reported'[v] \in {"dirty", "ready"}
              \/ /\ jobs[j].kind = "unprepare" /\ Reclaims(v)
                 /\ Reported[v] # "raw" /\ Reported'[v] \in {"dirty", "raw"}
<1>1. PICK j \in Jids : /\ Active(j) /\ jobs[j].vol = v
                        /\ Reported[v] # Result(jobs[j].kind)
                        /\ Reported'[v] \in {"dirty", Result(jobs[j].kind)}
  BY DEF RunsAJob
<1>2. jobs[j].kind \in JobKinds
  BY DEF TypeOK, Job
<1>3. CASE jobs[j].kind = "prepare"
  BY <1>1, <1>3 DEF ActiveInv, Result
<1>4. CASE jobs[j].kind = "unprepare"
  BY <1>1, <1>4 DEF ActiveInv, Result, Harmless
<1> QED
  BY <1>2, <1>3, <1>4 DEF JobKinds

LEMMA MinionKeeps ==
  ASSUME StateInv, Settles, RunsAJob, StaysHarmless,
         UNCHANGED <<vol, vcache, pv, ctl>>
  PROVE  WorkInv'
<1>0. TypeOK /\ ObjectsInv /\ ActiveInv /\ SeenInv /\ NextInv
  BY DEF StateInv, WorkInv
<1>1. \A v \in Volumes : /\ Quiet(v) => Quiet(v)' /\ Reported'[v] = Reported[v]
                         /\ Empty(v) => Empty(v)'
  <2>1. \A v \in Volumes : Quiet(v) => Quiet(v)' /\ Reported'[v] = Reported[v]
    BY DEF Settles, SameJobs, Quiet, RunsAJob
  <2>2. ASSUME NEW v \in Volumes, Empty(v)
        PROVE  Empty(v)'
    <3>1. Reported'[v] = Reported[v]
      BY <1>0, <2>2, RunsForGood DEF Empty, Prepares
    <3> QED
      BY <2>2, <3>1 DEF Empty, Prepares, Settles, SameJobs
  <2> QED
    BY <2>1, <2>2
<1>2. \A v \in Volumes : \A c : Says(v, c) => Says(v, c)'
  BY <1>1 DEF Says
<1>3. \A v \in Volumes : \A s : Tracks(v, s) => Tracks(v, s)'
  BY DEF Tracks, Settles
<1>4. ASSUME NEW v \in Volumes
      PROVE  /\ vol'[v].fin => vcache'[v].uid = vol'[v].uid
             /\ Says(v, vol[v])' /\ Says(v, vcache[v])'
             /\ Tracks(v, vol[v].status)'
             /\ Backed(v, pv[v])'
  <2>1. /\ vol[v].fin => vcache[v].uid = vol[v].uid
        /\ Says(v, vol[v]) /\ Says(v, vcache[v])
        /\ Tracks(v, vol[v].status) /\ Backed(v, pv[v])
    BY <1>0 DEF ObjectsInv
  <2>2. PICK o, c : o = vol[v] /\ c = vcache[v]
    OBVIOUS
  <2>3. Says(v, o)' /\ Says(v, c)' /\ Tracks(v, o.status)'
    BY <1>2, <1>3, <2>1, <2>2
  <2>4. Backed(v, pv[v])'
    BY <1>0, <2>1, RunsForGood DEF Backed, Reclaims
  <2> QED
    BY <2>1, <2>2, <2>3, <2>4
<1>5. ActiveInv'
  <2> SUFFICES ASSUME NEW j \in Jids, Active(j)'
               PROVE  /\ jobs'[j].kind = "prepare" => pv'[jobs'[j].vol].owner = 0
                      /\ jobs'[j].kind = "unprepare" =>
                           Reclaims(jobs[j].vol)' \/ Harmless(jobs[j].vol, j)'
    BY DEF ActiveInv
  <2>1. /\ Active(j) /\ jobs'[j].vol = jobs[j].vol /\ jobs'[j].kind = jobs[j].kind
        /\ jobs[j].vol \in Volumes
    BY <1>0 DEF Settles, SameJobs, TypeOK, Job
  <2>2. PICK v \in Volumes : v = jobs[j].vol
    BY <2>1
  <2>3. Reclaims(v) => Reclaims(v)'
    BY DEF Reclaims
  <2>4. Harmless(v, j) => Harmless(v, j)'
    BY DEF StaysHarmless
  <2>5. /\ jobs[j].kind = "prepare" => pv[v].owner = 0
        /\ jobs[j].kind = "unprepare" => Reclaims(v) \/ Harmless(v, j)
    BY <1>0, <2>1, <2>2 DEF ActiveInv
  <2> QED
    BY <2>1, <2>2, <2>3, <2>4, <2>5
<1>6. PICK v, c, s : /\ v \in Volumes
                    /\ v = ctl.v /\ c = ctl.vol /\ s = ctl.next
  BY <1>0 DEF TypeOK, Control
<1>7. SeenInv'
  <2>1. Says(v, c)'
    BY <1>0, <1>2, <1>6 DEF SeenInv
  <2> QED
    BY <1>0, <1>6, <2>1 DEF SeenInv
<1>8. NextInv'
  <2>1. ctl.step = "createPv" => Reported'[v] = Reported[v]
    <3> SUFFICES ASSUME ctl.step = "createPv" PROVE Quiet(v)
      BY <1>1, <1>6
    <3>1. /\ Prepared(c.status) /\ Exists(c) /\ ~Finalizing(c) /\ c.fin
          /\ Copy(v, c)
      BY <1>0, <1>6 DEF NextInv, StateInv, OutlivesInv, StepInv, CtlInv, Deploying
    <3> QED
      BY <1>0, <1>6, <3>1 DEF Copy, Held, SeenInv, Says
  <2>2. (Tracks(v, s) => Tracks(v, s)') /\ (Quiet(v) => Quiet(v)')
    BY <1>1, <1>3, <1>6
  <2>3. ctl.step = "save" =>
          /\ Waits(ctl.next) => Waits(ctl.vol.status)
          /\ Offered(ctl.next) => pv[ctl.v].owner # 0
          /\ Fresh => Tracks(v, s)' /\ (Prepared(ctl.next) => Quiet(v)')
    BY <1>0, <1>6, <2>2 DEF NextInv
  <2>4. Tracks(ctl.v, ctl.next)' <=> Tracks(v, s)'
    BY <1>6
  <2>5. Quiet(ctl.v)' <=> Quiet(v)'
    BY <1>6
  <2>6. Fresh' <=> Fresh
    BY DEF Fresh
  <2> QED
    BY <1>0, <1>6, <2>1, <2>3, <2>4, <2>5, <2>6 DEF NextInv
<1>9. ObjectsInv'
  BY <1>4 DEF ObjectsInv
<1> QED
  BY <1>5, <1>7, <1>8, <1>9 DEF WorkInv

\* The first job of the inbox leaves it.
LEMMA HeadIsHarmless ==
  ASSUME TypeOK, InboxInv, inbox # <<>>, inbox' = Tail(inbox),
         NEW h \in Jids, h = Head(inbox), NEW st \in JobStates \ {"none", "sent"},
         jobs' = [jobs EXCEPT ![h].state = st], st = "running" => ~Busy,
         NEW v \in Volumes, NEW j \in Jids, Active(j)', Harmless(v, j)
  PROVE  /\ st = "running" => ~Prepares(v, h)
         /\ Reported'[v] = "raw" => Harmless(v, j)'
<1>1. /\ inbox \in Seq(Jids) /\ Len(inbox) \in Nat /\ Len(inbox) > 0
      /\ h = inbox[1] /\ Len(inbox') = Len(inbox) - 1
      /\ \A i \in 1..Len(inbox') : inbox'[i] = inbox[i + 1]
      /\ \A i \in 1..Len(inbox) : inbox[i] \in Jids
  <2>1. inbox \in Seq(Jids) /\ Len(inbox) \in Nat /\ Len(inbox) > 0
    BY EmptySeq DEF TypeOK
  <2> QED
    BY <2>1, HeadTailProperties
<1>2. /\ jobs'[h].state = st
      /\ \A k \in Jids : /\ k # h => jobs'[k] = jobs[k]
                         /\ jobs'[k].vol = jobs[k].vol /\ jobs'[k].kind = jobs[k].kind
  BY DEF TypeOK, Job
<1>3. Active(j) /\ \A k \in Jids : Prepares(v, k)' <=> Prepares(v, k)
  BY <1>1, <1>2 DEF Active, Prepares, InboxInv
<1>4. \A i \in 1..Len(inbox') : i + 1 \in 1..Len(inbox) /\ inbox'[i] \in Jids
  BY <1>1
<1>5. st = "running" => ~Prepares(v, h)
  <2> SUFFICES ASSUME st = "running", Prepares(v, h)
               PROVE  FALSE
    OBVIOUS
  <2>1. jobs[j].state = "sent"
    BY <1>3 DEF Active, Busy
  <2>2. PICK i \in 1..Len(inbox) : inbox[i] = j
    BY <2>1 DEF InboxInv
  <2>3. 1 \in 1..Len(inbox) /\ ~(i < 1)
    BY <1>1, <2>2
  <2> QED
    BY <1>1, <2>2, <2>3 DEF Harmless
<1>6. \A k \in Jids : jobs'[k].state = "running" => ~Prepares(v, k)'
  BY <1>2, <1>3, <1>5 DEF Harmless
<1>7. ASSUME NEW i \in 1..Len(inbox'), NEW k \in 1..Len(inbox'),
             inbox'[i] = j, Prepares(v, inbox'[k])
      PROVE  i < k
  <2>1. inbox[i + 1] = j /\ Prepares(v, inbox[k + 1])
    BY <1>1, <1>7
  <2>2. i + 1 < k + 1
    BY <1>4, <2>1 DEF Harmless
  <2> QED
    BY <1>1, <2>2
<1>8. \A i, k \in 1..Len(inbox') :
        inbox'[i] = j /\ Prepares(v, inbox[k])' => i < k
  BY <1>3, <1>4, <1>7 DEF Prepares
<1> QED
  BY <1>5, <1>6, <1>8 DEF Harmless

LEMMA StartKeeps ==
  ASSUME StateInv, Start
  PROVE  WorkInv' /\ RunsAJob
<1> DEFINE h == Head(inbox)
           v0 == jobs[h].vol
<1>0. TypeOK /\ InboxInv
  BY DEF StateInv, EmptyInv
<1>1. /\ inbox # <<>> /\ inbox' = Tail(inbox)
      /\ UNCHANGED <<vol, vcache, pv, ctl>>
  BY DEF Start, api, cache
<1>2. h \in Jids /\ jobs[h].state = "sent" /\ v0 \in Volumes
  <2>1. inbox \in Seq(Jids) /\ Len(inbox) \in Nat /\ Len(inbox) > 0
    BY <1>0, <1>1, EmptySeq DEF TypeOK
  <2>2. h = inbox[1] /\ 1 \in 1..Len(inbox) /\ inbox[1] \in Jids
    BY <2>1
  <2> QED
    BY <1>0, <2>2 DEF InboxInv, TypeOK, Job
<1>3. PICK st \in JobStates \ {"none", "sent"} :
        /\ jobs' = [jobs EXCEPT ![h].state = st]
        /\ st \notin {"busy", "lost"} => ~Busy
        /\ \/ Reported' = Reported
           \/ /\ st = "running"
              /\ Reported' = [Reported EXCEPT ![v0] =
                           IF @ = Result(jobs[h].kind) THEN @ ELSE "dirty"]
  <2>1. PICK st \in {"busy", "failed", "ok", "running"} :
          jobs' = [jobs EXCEPT ![h].state = st] /\ (st # "busy" => ~Busy)
    BY DEF Start
  <2>2. st \in JobStates \ {"none", "sent"}
    BY DEF JobStates
  <2>3. /\ jobs'[h].state = st
        /\ [jobs EXCEPT ![h].state = "running"][h].state = "running"
    BY <1>0, <1>2, <2>1 DEF TypeOK, Job
  <2>4. \/ Reported' = Reported
        \/ /\ jobs' = [jobs EXCEPT ![h].state = "running"]
           /\ Reported' = [Reported EXCEPT ![v0] =
                            IF @ = Result(jobs[h].kind) THEN @ ELSE "dirty"]
    <3>1. \/ Reported' = Reported
          \/ Reported' = [Reported EXCEPT ![v0] =
                            IF @ = Result(jobs[h].kind) THEN @ ELSE "dirty"]
      BY <1>0, StartReports
    <3>2. Reported' # Reported => jobs' = [jobs EXCEPT ![h].state = "running"]
      BY <1>0, StartReports
    <3> QED
      BY <3>1, <3>2
  <2> HIDE DEF h, v0
  <2>5. Reported' = Reported \/ st = "running"
    BY <2>3, <2>4
  <2> QED
    BY <2>1, <2>2, <2>4, <2>5
<1>4. Settles
  BY <1>0, <1>1, <1>3, HeadLeaves
<1>5. RunsAJob
  BY <1>0, <1>2, <1>3, ReportedTypes DEF RunsAJob, Active
<1>6. ASSUME NEW v \in Volumes, NEW j \in Jids, Active(j)', Harmless(v, j)
      PROVE  Harmless(v, j)'
  <2>1. /\ st = "running" => ~Prepares(v, h)
        /\ Reported'[v] = "raw" => Harmless(v, j)'
    BY <1>0, <1>1, <1>2, <1>3, <1>6, HeadIsHarmless
  <2>2. v = v0 /\ st = "running" => Result(jobs[h].kind) = "raw"
    BY <2>1 DEF Prepares, Result
  <2>3. Reported'[v] = "raw"
    BY <1>0, <1>3, <1>6, <2>2, ReportedTypes DEF Harmless
  <2> QED
    BY <2>1, <2>3
<1> QED
  BY <1>1, <1>4, <1>5, <1>6, MinionKeeps DEF StaysHarmless

\* Other steps leave the inbox as it is, or empty it.
LEMMA OthersAreHarmless ==
  ASSUME TypeOK, SameJobs,
         \A j \in Jids : /\ Active(j)' => Active(j)
                         /\ jobs'[j].state = "running" => jobs[j].state = "running",
         UNCHANGED inbox \/ \A j \in Jids : ~Active(j)',
         \A v \in Volumes, j \in Jids : Harmless(v, j) => Reported'[v] = "raw"
  PROVE  StaysHarmless
<1> SUFFICES ASSUME NEW v \in Volumes, NEW j \in Jids, Active(j)', Harmless(v, j)
             PROVE  Harmless(v, j)'
  BY DEF StaysHarmless
<1>1. inbox' = inbox /\ \A i \in 1..Len(inbox) : inbox[i] \in Jids
  BY DEF TypeOK
<1>2. \A k \in Jids : Prepares(v, k)' <=> Prepares(v, k)
  BY DEF SameJobs, Prepares
<1>3. \A k \in Jids : jobs'[k].state = "running" => ~Prepares(v, k)'
  BY <1>2 DEF Harmless
<1>4. \A i, k \in 1..Len(inbox) : inbox[i] = j /\ Prepares(v, inbox[k])' => i < k
  BY <1>1, <1>2 DEF Harmless
<1> QED
  BY <1>1, <1>3, <1>4 DEF Harmless, Prepares

LEMMA CompleteKeeps ==
  ASSUME StateInv, NEW h \in Jids, Complete(h)
  PROVE  WorkInv' /\ RunsAJob
<1>0. TypeOK /\ InboxInv
  BY DEF StateInv, EmptyInv
<1>1. /\ jobs[h].state = "running" /\ jobs' = [jobs EXCEPT ![h].state = "ok"]
      /\ Reported' = [Reported EXCEPT ![jobs[h].vol] = Result(jobs[h].kind)]
      /\ UNCHANGED <<vol, vcache, pv, ctl, inbox>>
  BY <1>0, CompleteReports DEF Complete, api, cache
<1>2. Active(h) /\ jobs[h].vol \in Volumes
  BY <1>0, <1>1 DEF Active, TypeOK, Job
<1>3. Settles /\ \A k \in Jids : jobs'[k].state # "running"
  BY <1>0, <1>1, RunEnds
<1>4. RunsAJob
  BY <1>0, <1>1, <1>2, ReportedTypes DEF RunsAJob
<1>5. ASSUME NEW v \in Volumes, NEW j \in Jids, Harmless(v, j)
      PROVE  Reported'[v] = "raw"
  <2>1. ~Prepares(v, h) /\ Reported[v] = "raw"
    BY <1>1, <1>5 DEF Harmless
  <2> QED
    BY <1>0, <1>1, <2>1, ReportedTypes DEF TypeOK, Job, JobKinds, Prepares, Result
<1>6. StaysHarmless
  BY <1>0, <1>1, <1>3, <1>5, OthersAreHarmless DEF Settles
<1> QED
  BY <1>1, <1>3, <1>4, <1>6, MinionKeeps

LEMMA MinionFaultsKeep ==
  ASSUME StateInv,
         \/ LoseMessage \/ MinionRestart \/ MasterRestart
         \/ \E j \in Jids : JobFails(j)
  PROVE  WorkInv'
<1>0. TypeOK /\ InboxInv
  BY DEF StateInv, EmptyInv
<1>1. UNCHANGED <<vol, vcache, pv, ctl, Reported>>
  BY ReportedKept DEF LoseMessage, MinionRestart, MasterRestart, JobFails, api, cache
<1>2. RunsAJob /\ \A v \in Volumes, j \in Jids : Harmless(v, j) => Reported'[v] = "raw"
  BY <1>1 DEF RunsAJob, Harmless
<1>3. Settles /\ StaysHarmless
  <2>1. CASE LoseMessage
    <3> DEFINE h == Head(inbox)
    <3>1. /\ inbox # <<>> /\ inbox' = Tail(inbox)
          /\ jobs' = [jobs EXCEPT ![h].state = "lost"]
      BY <2>1 DEF LoseMessage
    <3>2. Settles
      BY <1>0, <3>1, HeadLeaves DEF JobStates
    <3>3. h \in Jids
      BY <1>0, <3>1, EmptySeq DEF TypeOK
    <3>4. ASSUME NEW v \in Volumes, NEW j \in Jids, Active(j)', Harmless(v, j)
          PROVE  Harmless(v, j)'
      <4>1. "lost" \in JobStates \ {"none", "sent"} /\ "lost" # "running"
        BY DEF JobStates
      <4>2. Reported'[v] = "raw" => Harmless(v, j)'
        BY <1>0, <3>1, <3>3, <3>4, <4>1, HeadIsHarmless
      <4> QED
        BY <1>2, <3>4, <4>2
    <3> QED
      BY <3>2, <3>4 DEF StaysHarmless
  <2>2. CASE MinionRestart
    <3>1. /\ inbox' = <<>>
          /\ jobs' = [j \in Jids |->
                       [jobs[j] EXCEPT !.state = IF Active(j) THEN "lost" ELSE @]]
      BY <2>2 DEF MinionRestart
    <3>2. Settles
      BY <1>0, <3>1, MinionForgets
    <3>3. \A j \in Jids : ~Active(j)'
      BY <1>0, <3>1 DEF Active, TypeOK, Job
    <3>4. StaysHarmless
      BY <3>3 DEF StaysHarmless
    <3> QED
      BY <3>2, <3>4
  <2>3. CASE MasterRestart
    <3>1. inbox' = inbox /\ Settles /\ \A j \in Jids : jobs'[j].state = jobs[j].state
      BY <1>0, <2>3, MasterForgets DEF MasterRestart
    <3> QED
      BY <1>0, <1>2, <3>1, OthersAreHarmless DEF Settles
  <2>4. CASE \E j \in Jids : JobFails(j)
    <3>1. PICK h \in Jids : /\ jobs[h].state = "running" /\ inbox' = inbox
                            /\ jobs' = [jobs EXCEPT ![h].state = "failed"]
      BY <2>4 DEF JobFails
    <3>2. Settles /\ \A k \in Jids : jobs'[k].state # "running"
      BY <1>0, <3>1, RunEnds
    <3> QED
      BY <1>0, <1>2, <3>1, <3>2, OthersAreHarmless DEF Settles
  <2> QED
    BY <2>1, <2>2, <2>3, <2>4
<1> QED
  BY <1>1, <1>2, <1>3, MinionKeeps

-----------------------------------------------------------------------------
(* The reconciliation: what it reads.                                       *)

LEMMA JobsKept ==
  ASSUME UNCHANGED <<jobs, inbox, Reported>>, NEW v
  PROVE  /\ Quiet(v)' <=> Quiet(v)
         /\ Empty(v)' <=> Empty(v)
         /\ \A s : Tracks(v, s) => Tracks(v, s)'
BY DEF Quiet, Empty, Active, Prepares, Tracks, Latest

\* What is said stays true when neither the objects nor the jobs change.
LEMMA SaysKept ==
  ASSUME UNCHANGED <<vol, pv, jobs, inbox, Reported>>, NEW v
  PROVE  /\ \A c : Says(v, c) => Says(v, c)'
         /\ \A s : Tracks(v, s) => Tracks(v, s)'
         /\ Quiet(v) => Quiet(v)'
BY JobsKept DEF Says

\* A cache that catches up, or not.
LEMMA ObjectsKept ==
  ASSUME ObjectsInv, ActiveInv, UNCHANGED <<vol, pv, jobs, inbox, Reported>>,
         \A v \in Volumes : vcache'[v] \in {vol[v], vcache[v]}
  PROVE  ObjectsInv' /\ ActiveInv'
<1>1. ASSUME NEW v \in Volumes
      PROVE  /\ vol'[v].fin => vcache'[v].uid = vol'[v].uid
             /\ Says(v, vol[v])' /\ Says(v, vcache[v])'
             /\ Tracks(v, vol[v].status)'
             /\ Backed(v, pv[v])'
  <2>1. PICK o, c : o = vol[v] /\ c = vcache'[v]
    OBVIOUS
  <2>2. Says(v, o) /\ Says(v, c) /\ Tracks(v, o.status)
    BY <2>1 DEF ObjectsInv
  <2>3. Says(v, o)' /\ Says(v, c)' /\ Tracks(v, o.status)'
    BY <2>2, SaysKept
  <2>4. Backed(v, pv[v])'
    BY DEF ObjectsInv, Backed
  <2> QED
    BY <2>1, <2>3, <2>4 DEF ObjectsInv
<1>2. ActiveInv'
  BY DEF ActiveInv, Active, Reclaims, Harmless, Prepares
<1> QED
  BY <1>1, <1>2 DEF ObjectsInv

\* No reconciliation is in progress.
LEMMA NothingSeen == ASSUME ctl' = Idle PROVE SeenInv' /\ NextInv'
<1>1. ctl'.step = "idle" /\ ~Exists(ctl'.vol)
  BY DEF Idle, Exists, NoVolume
<1> QED
  BY <1>1 DEF SeenInv, NextInv, Deploying, Says

LEMMA StoppedKeeps ==
  ASSUME WorkInv, ctl' = Idle, UNCHANGED <<vol, pv, jobs, inbox, Reported>>,
         \A v \in Volumes : vcache'[v] \in {vol[v], vcache[v]}
  PROVE  WorkInv'
BY ObjectsKept, NothingSeen DEF WorkInv

\* A reconciliation that goes on with the same copy.
LEMMA SeenKept ==
  ASSUME SeenInv, UNCHANGED <<vol, vcache, pv, jobs, inbox, Reported>>,
         ctl.step # "idle", ctl'.v = ctl.v, ctl'.vol = ctl.vol
  PROVE  SeenInv'
<1>1. PICK v, c : v = ctl.v /\ c = ctl.vol
  OBVIOUS
<1>2. Says(v, c)'
  BY <1>1, SaysKept DEF SeenInv
<1> QED
  BY <1>1, <1>2 DEF SeenInv

\* What a reconciliation may say of a volume.
Sayable(s) ==
  /\ Waits(s) => Waits(ctl.vol.status)
  /\ Offered(s) => pv[ctl.v].owner # 0
  /\ Fresh => Tracks(ctl.v, s) /\ (Prepared(s) => Quiet(ctl.v))

LEMMA SaveKeeps ==
  ASSUME TypeOK, WorkInv, NEW s, NEW a, GoSave(ctl, s, a), ctl.step # "idle",
         Sayable(s), UNCHANGED <<vol, vcache, pv, jobs, inbox, Reported>>
  PROVE  WorkInv'
<1>1. /\ ctl'.v = ctl.v /\ ctl'.vol = ctl.vol /\ ctl'.step = "save"
      /\ ctl'.next = s
  BY DEF GoSave, TypeOK, Control
<1>2. SeenInv'
  BY <1>1, SeenKept DEF WorkInv
<1>3. ObjectsInv' /\ ActiveInv'
  BY ObjectsKept DEF WorkInv
<1>4. PICK v : v = ctl.v
  OBVIOUS
<1>5. (Tracks(v, s) => Tracks(v, s)') /\ (Quiet(v) => Quiet(v)')
  BY SaysKept
<1>6. /\ Tracks(ctl.v, ctl.next)' <=> Tracks(v, s)'
      /\ Quiet(ctl.v)' <=> Quiet(v)'
  BY <1>1, <1>4
<1>7. Fresh' <=> Fresh
  BY <1>1 DEF Fresh
<1>8. NextInv'
  BY <1>1, <1>4, <1>5, <1>6, <1>7 DEF NextInv, Sayable, Deploying
<1> QED
  BY <1>2, <1>3, <1>8 DEF WorkInv

\* A status that does not say that a job or the storage is done.
LEMMA PlainSayable ==
  /\ \A s, why : why # "UnavailableError" => Sayable(FailedStatus(s, why))
  /\ pv[ctl.v].owner # 0 =>
       /\ \A s : Sayable(FailedStatus(s, "UnavailableError"))
       /\ Sayable(AvailableStatus)
  /\ \A job : Sayable(TerminatingStatus(job))
BY DEF Sayable, Waits, Prepared, Offered, Tracks, FailedStatus, AvailableStatus,
       TerminatingStatus

LEMMA FetchKeeps ==
  ASSUME StateInv, NEW v \in Volumes, Fetch(v)
  PROVE  WorkInv'
<1>0. TypeOK /\ WorkInv
  BY DEF StateInv
<1>1. UNCHANGED <<vol, vcache, pv, jobs, inbox, Reported>>
  BY DEF Fetch, api, salt, Reported
<1>2. ObjectsInv' /\ ActiveInv'
  BY <1>0, <1>1, ObjectsKept DEF WorkInv
<1>3. PICK o : o = vcache[v]
  OBVIOUS
<1>4. Says(v, o)'
  BY <1>0, <1>1, <1>3, SaysKept DEF WorkInv, ObjectsInv
<1>5. CASE ctl' = [Idle EXCEPT !.v = v]
  <2>1. ctl'.step = "idle" /\ ~Exists(ctl'.vol)
    BY <1>5 DEF Idle, Exists, NoVolume
  <2>2. SeenInv' /\ NextInv'
    BY <2>1 DEF SeenInv, NextInv, Deploying, Says
  <2> QED
    BY <1>2, <2>2 DEF WorkInv
<1>6. ASSUME ctl'.v = v, ctl'.vol = o, ctl'.step \in {"lookup", "save"},
             ctl'.step = "lookup" =>
               Finalizing(o) \/ ~InUnrecoverableFailedState(o),
             ctl'.step = "save" => /\ ctl'.next.phase = "Failed"
                                   /\ ctl'.next.reason = "InternalError"
      PROVE  WorkInv'
  <2>1. SeenInv'
    BY <1>0, <1>1, <1>3, <1>4, <1>6 DEF SeenInv, WorkInv, ObjectsInv
  <2>2. NextInv'
    BY <1>6 DEF NextInv, Deploying, Waits, Offered, Tracks, Prepared
  <2> QED
    BY <1>2, <2>1, <2>2 DEF WorkInv
<1>7. CASE GoSave([ctl EXCEPT !.v = v, !.vol = o],
                  FailedStatus(o.status, "InternalError"), "requeue")
  <2>1. /\ ctl'.v = v /\ ctl'.vol = o /\ ctl'.step = "save"
        /\ ctl'.next.phase = "Failed" /\ ctl'.next.reason = "InternalError"
    BY <1>0, <1>7 DEF GoSave, FailedStatus, TypeOK, Control
  <2> QED
    BY <1>6, <2>1
<1>8. CASE /\ ctl' = [ctl EXCEPT !.v = v, !.vol = o, !.step = "lookup"]
           /\ Finalizing(o) \/ ~InUnrecoverableFailedState(o)
  <2>1. ctl'.v = v /\ ctl'.vol = o /\ ctl'.step = "lookup"
    BY <1>0, <1>8 DEF TypeOK, Control
  <2> QED
    BY <1>6, <1>8, <2>1
<1> QED
  BY <1>3, <1>5, <1>7, <1>8 DEF Fetch

LEMMA LookupKeeps ==
  ASSUME StateInv, Lookup
  PROVE  WorkInv'
<1> DEFINE o == ctl.vol
           p == pv[ctl.v]
<1>0. TypeOK /\ WorkInv /\ ctl \in Control /\ ctl.v \in Volumes
  BY DEF StateInv, TypeOK, Control
<1>1. /\ UNCHANGED <<vol, vcache, pv, jobs, inbox, Reported>> /\ ctl.step = "lookup"
      /\ pvcache[ctl.v] = p
  BY DEF Lookup, api, salt, StateInv, OutlivesInv, CacheInv, Reported
<1>2. /\ Exists(o) /\ o.uid # 0 /\ o.status.job \in JobValues
      /\ p.owner # 0 => p.there
      /\ o.status.job # "" => o.fin
      /\ o.fin /\ ~Finalizing(o) => vol[ctl.v].uid = o.uid
      /\ Sound(o, o.status)
  BY <1>0, <1>1 DEF StateInv, OutlivesInv, StepInv, PvInv, CtlInv, Copy, WellFormed,
     Held, EmptyInv, WriterInv, Exists, Control, Volume, Status
<1>3. ASSUME NEW step, ctl'.v = ctl.v, ctl'.vol = o, ctl'.step = step,
             step \notin {"idle", "lookup", "save", "createPv", "prepare"},
             step \in {"protect", "size"} => p.owner = 0,
             step = "protect" =>
               /\ o.status.job = ""
               /\ ~Finalizing(o) => ~InUnrecoverableFailedState(o),
             step = "unprepare" => (p.owner # 0 => ~p.inuse),
             step = "size" => Prepared(o.status),
             step = "poll" /\ ~Finalizing(o) => o.status.phase = "Pending",
             step = "dropPv" => ctl'.pv.owner # 0
      PROVE  WorkInv'
  <2>1. SeenInv'
    BY <1>0, <1>1, <1>3, SeenKept DEF WorkInv
  <2>2. ObjectsInv' /\ ActiveInv'
    BY <1>0, <1>1, ObjectsKept DEF WorkInv
  <2>3. NextInv'
    BY <1>1, <1>3 DEF NextInv, Deploying
  <2> QED
    BY <2>1, <2>2, <2>3 DEF WorkInv
<1>4. CASE Go("deletePv")
  <2>1. ctl'.v = ctl.v /\ ctl'.vol = o /\ ctl'.step = "deletePv"
    BY <1>0, <1>4 DEF Go, Control
  <2> QED
    BY <1>3, <2>1
<1>5. CASE /\ ControlledBy(p, o) /\ Finalizing(o)
           /\ p.there => PersistentVolumeUnused(p)
           /\ ctl' = [ctl EXCEPT !.pv = p, !.step = ReclaimStep(CurrentJob(o), p)]
  <2> DEFINE step == ReclaimStep(CurrentJob(o), p)
  <2>1. ctl'.v = ctl.v /\ ctl'.vol = o /\ ctl'.step = step /\ ctl'.pv = p
    BY <1>0, <1>5 DEF Control
  <2>2. \/ step \in {"unprepare", "poll", "dropVolume"}
        \/ step = "dropPv" /\ p.there
    BY DEF ReclaimStep
  <2> HIDE DEF step
  <2>3. p.owner # 0 => ~p.inuse
    BY <1>2, <1>5 DEF PersistentVolumeUnused
  <2>4. p.there => p.owner # 0
    BY <1>2, <1>5 DEF ControlledBy
  <2> QED
    BY <1>3, <1>5, <2>1, <2>2, <2>3, <2>4
<1>6. CASE /\ ~Finalizing(o) /\ ~p.there
           /\ ctl' = [ctl EXCEPT !.pv = p, !.step = DeployStep(o.status.job)]
  <2> DEFINE step == DeployStep(o.status.job)
  <2>1. ctl'.v = ctl.v /\ ctl'.vol = o /\ ctl'.step = step
    BY <1>0, <1>6 DEF Control
  <2>2. p.owner = 0
    BY <1>2, <1>6
  <2>3. o.status.job # "" => o.status.phase = "Pending"
    <3> SUFFICES ASSUME o.status.job # ""
                 PROVE  o.status.phase = "Pending"
      OBVIOUS
    <3>1. ~Offered(o.status)
      BY <1>0, <1>2, <1>6, <2>2 DEF WorkInv, SeenInv, Says
    <3>2. o.status.phase # "Failed"
      BY <1>0, <1>1, <1>6, <3>1
         DEF WorkInv, NextInv, InUnrecoverableFailedState, Offered
    <3> QED
      BY <1>2, <1>6, <3>2 DEF Sound, Finalizing
  <2>4. \/ step = "protect" /\ o.status.job = ""
        \/ step = "size" /\ o.status.job = "DONE"
        \/ step = "poll" /\ o.status.job # ""
    BY DEF DeployStep
  <2>5. ~InUnrecoverableFailedState(o)
    BY <1>0, <1>1, <1>6 DEF WorkInv, NextInv
  <2> HIDE DEF step
  <2> QED
    BY <1>3, <2>1, <2>2, <2>3, <2>4, <2>5 DEF Prepared
<1>7. CASE /\ ControlledBy(p, o) /\ p.there
           /\ \/ GoSave(ctl, FailedStatus(o.status, "UnavailableError"), "requeue")
              \/ GoSave(ctl, AvailableStatus, "end")
  <2>1. p.owner # 0
    BY <1>2, <1>7 DEF ControlledBy
  <2> QED
    BY <1>0, <1>1, <1>7, <2>1, PlainSayable, SaveKeeps
<1>8. CASE ctl' = Idle
  BY <1>0, <1>1, <1>8, StoppedKeeps
<1> QED
  BY <1>1, <1>4, <1>5, <1>6, <1>7, <1>8 DEF Lookup, Requeue, Finish

LEMMA CallsKeep ==
  ASSUME StateInv, Poll \/ Size \/ CallFails \/ PollFails \/ SizeFails \/ Refused
  PROVE  WorkInv'
<1> DEFINE o == ctl.vol
<1>0. TypeOK /\ WorkInv /\ ctl \in Control /\ ctl.v \in Volumes /\ InboxInv
  BY DEF StateInv, EmptyInv, TypeOK, Control
<1>1. UNCHANGED <<vol, vcache, pv, jobs, inbox, Reported>>
  BY DEF Poll, Size, CallFails, PollFails, SizeFails, Refused, api, cache, salt, Reported
<1>2. CASE ctl' = Idle
  BY <1>0, <1>1, <1>2, StoppedKeeps
<1>3. ASSUME NEW s, NEW a, GoSave(ctl, s, a), ctl.step # "idle", Sayable(s)
      PROVE  WorkInv'
  BY <1>0, <1>1, <1>3, SaveKeeps
<1>4. ASSUME ctl.step # "idle",
             \E why \in {"CreationError", "DestructionError"}, a \in AfterSave :
               GoSave(ctl, FailedStatus(o.status, why), a)
      PROVE  WorkInv'
  BY <1>3, <1>4, PlainSayable
<1>5. ASSUME ctl.step = "poll"
      PROVE  /\ o.status.job \in Jids
             /\ ~Finalizing(o) => o.status.phase = "Pending"
             /\ Sayable(JobStatus(""))
  <2>1. /\ o.status.job \in Jids /\ "" \notin Jids
        /\ ~Finalizing(o) => o.status.phase = "Pending"
    BY <1>0, <1>5, JidAssumption DEF WorkInv, NextInv, StateInv, EmptyInv, WriterInv
  <2>2. CASE Finalizing(o)
    BY <2>1, <2>2, PlainSayable DEF JobStatus
  <2>3. CASE ~Finalizing(o)
    BY <2>1, <2>3, JidAssumption
       DEF JobStatus, PendingStatus, Sayable, Waits, Offered, Tracks, Prepared
  <2> QED
    BY <2>1, <2>2, <2>3
<1>6. CASE Poll
  <2> DEFINE job == jobs[o.status.job]
  <2>1. ctl.step = "poll"
    BY <1>6 DEF Poll
  <2>2. CASE PollJob(job) = "ok" /\ GoSave(ctl, JobStatus("DONE"), "requeue")
    <3>1. job.state = "ok"
      BY <1>0, <1>5, <2>1, <2>2 DEF PollJob, TypeOK, Job, JobStates
    <3>2. CASE Finalizing(o)
      BY <1>3, <2>1, <2>2, <3>2, PlainSayable DEF JobStatus
    <3>3. CASE ~Finalizing(o)
      <4>1. Fresh => Tracks(ctl.v, o.status)
        BY <1>0 DEF WorkInv, ObjectsInv, Fresh
      <4>2. Fresh => Quiet(ctl.v)
        BY <1>0, <1>5, <2>1, <3>1, <3>3, <4>1, LastIsQuiet DEF Tracks
      <4>3. Sayable(PendingStatus("DONE"))
        BY <4>2, JidAssumption
           DEF Sayable, PendingStatus, Waits, Offered, Tracks
      <4> QED
        BY <1>3, <2>1, <2>2, <3>3, <4>3 DEF JobStatus
    <3> QED
      BY <3>2, <3>3
  <2>3. CASE GoSave(ctl, JobStatus(""), "requeue")
    BY <1>3, <1>5, <2>1, <2>3
  <2>4. \/ ctl' = Idle
        \/ GoSave(ctl, JobStatus(""), "requeue")
        \/ \E why \in {"CreationError", "DestructionError"} :
             GoSave(ctl, FailedStatus(o.status, why), "failPv")
        \/ PollJob(job) = "ok" /\ GoSave(ctl, JobStatus("DONE"), "requeue")
    BY <1>6 DEF Poll, Requeue, Finish
  <2> QED
    BY <1>2, <1>4, <2>1, <2>2, <2>3, <2>4 DEF AfterSave
<1>7. CASE Size
  <2>1. CASE ctl.step = "size" /\ Reported[ctl.v] = "ready" /\ Go("createPv")
    <3>1. ctl'.v = ctl.v /\ ctl'.vol = o /\ ctl'.step = "createPv"
      BY <1>0, <2>1 DEF Go, Control
    <3>2. SeenInv' /\ ObjectsInv' /\ ActiveInv'
      BY <1>0, <1>1, <2>1, <3>1, SeenKept, ObjectsKept DEF WorkInv
    <3>3. NextInv'
      BY <1>0, <1>1, <2>1, <3>1 DEF WorkInv, NextInv, Deploying
    <3> QED
      BY <3>2, <3>3 DEF WorkInv
  <2>2. CASE /\ ctl.step = "size"
             /\ GoSave(ctl, FailedStatus(o.status, "CreationError"), "requeue")
    BY <1>4, <2>2 DEF AfterSave
  <2> QED
    BY <1>0, <1>7, <2>1, <2>2 DEF Size, Reported, Control
<1>8. CASE PollFails
  BY <1>3, <1>5, <1>8 DEF PollFails
<1>9. CASE SizeFails
  BY <1>4, <1>9 DEF SizeFails, AfterSave
<1>10. CASE CallFails \/ Refused
  BY <1>2, <1>10 DEF CallFails, Refused, Requeue, Finish
<1> QED
  BY <1>6, <1>7, <1>8, <1>9, <1>10

\* The cache catches up, or the operator restarts.
LEMMA CachesKeep ==
  ASSUME StateInv, (\E v \in Volumes : SyncVolume(v)) \/ Crash
  PROVE  WorkInv'
<1>0. TypeOK /\ WorkInv /\ ctl.v \in Volumes
  BY DEF StateInv, TypeOK, Control
<1>1. /\ UNCHANGED <<vol, pv, jobs, inbox, Reported>>
      /\ \A v \in Volumes : vcache'[v] \in {vol[v], vcache[v]}
  BY <1>0 DEF SyncVolume, Crash, api, salt, TypeOK, Reported
<1>2. CASE Crash
  BY <1>0, <1>1, <1>2, StoppedKeeps DEF Crash
<1>3. CASE UNCHANGED ctl
  <2>1. ObjectsInv' /\ ActiveInv'
    BY <1>0, <1>1, ObjectsKept DEF WorkInv
  <2>2. PICK v, c, s : /\ v \in Volumes
                      /\ v = ctl.v /\ c = ctl.vol /\ s = ctl.next
    BY <1>0
  <2>3. /\ Says(v, c) => Says(v, c)'
        /\ Tracks(v, s) => Tracks(v, s)'
        /\ Quiet(v) => Quiet(v)'
    BY <1>1, SaysKept
  <2>4. SeenInv'
    <3>1. Says(v, c)'
      BY <1>0, <2>2, <2>3 DEF WorkInv, SeenInv
    <3> QED
      BY <1>0, <1>1, <1>3, <2>2, <3>1 DEF WorkInv, SeenInv
  <2>5. /\ Fresh' <=> Fresh
        /\ Fresh /\ Waits(ctl.vol.status) => vol[v].status.phase # "Terminating"
    BY <1>1, <1>3, <2>2 DEF Fresh, Waits
  <2>6. /\ Tracks(ctl.v, ctl.next)' <=> Tracks(v, s)'
        /\ Quiet(ctl.v)' <=> Quiet(v)'
    BY <1>3, <2>2
  <2>7. NextInv'
    BY <1>0, <1>1, <1>3, <2>2, <2>3, <2>5, <2>6 DEF WorkInv, NextInv
  <2> QED
    BY <2>1, <2>4, <2>7 DEF WorkInv
<1> QED
  BY <1>2, <1>3 DEF SyncVolume

-----------------------------------------------------------------------------
(* The writes of a Volume.                                                  *)

\* A copy of the new Volume is one of the former Volume too.
Follows(v, o, c) ==
  Exists(c) /\ c.uid = o.uid =>
    vol[v].uid = o.uid /\ (Waits(o.status) => Waits(vol[v].status))

\* What a write of a Volume leaves true.
Writable(v, o) ==
  /\ o.fin => vcache[v].uid = o.uid
  /\ Prepared(o.status) => Quiet(v)
  /\ Offered(o.status) /\ ~Finalizing(o) => pv[v].owner # 0
  /\ Tracks(v, o.status)
  /\ Finalizing(vol[v]) => Finalizing(o) \/ Empty(v)
  /\ Follows(v, o, vcache[v])

LEMMA EmptyIsHarmless ==
  ASSUME TypeOK, InboxInv, NEW v, NEW j, Empty(v)
  PROVE  Harmless(v, j)
<1>1. \A i \in 1..Len(inbox) : inbox[i] \in Jids
  BY DEF TypeOK
<1>2. \A i \in 1..Len(inbox) : ~Prepares(v, inbox[i])
  BY <1>1 DEF InboxInv, Empty, Active
<1> QED
  BY <1>2 DEF Harmless, Empty, Active

LEMMA VolumeWritten ==
  ASSUME StateInv, OutlivesInv', EmptyInv', UNCHANGED <<pv, jobs, inbox, Reported>>,
         NEW v \in Volumes, NEW o \in Volume, SetVolume(v, o), Writable(v, o)
  PROVE  /\ ObjectsInv' /\ ActiveInv'
         /\ vol'[v] = o /\ vcache'[v] \in {o, vcache[v]} /\ Says(v, o)'
         /\ \A u \in Volumes \ {v} : vol'[u] = vol[u] /\ vcache'[u] = vcache[u]
         /\ \A u \in Volumes : \A c :
              Says(u, c) /\ (u = v => Follows(v, o, c)) => Says(u, c)'
<1>0. TypeOK /\ InboxInv /\ ObjectsInv /\ ActiveInv
  BY DEF StateInv, WorkInv, EmptyInv
<1>1. /\ vol'[v] = o /\ vcache'[v] \in {o, vcache[v]}
      /\ \A u \in Volumes \ {v} : vol'[u] = vol[u] /\ vcache'[u] = vcache[u]
  BY <1>0 DEF SetVolume, TypeOK
<1>2. ASSUME NEW u \in Volumes, NEW c, Says(u, c), u = v => Follows(v, o, c)
      PROVE  Says(u, c)'
  BY <1>1, <1>2, JobsKept DEF Says, Follows
<1>3. Says(v, o)'
  <2> SUFFICES ASSUME Exists(o)
               PROVE  /\ Prepared(o.status) => Quiet(v)' /\ ~Waits(o.status)
                      /\ Offered(o.status) /\ ~Finalizing(o) =>
                           o.fin /\ pv[v].owner # 0
                      /\ Cleared(o.status) => Empty(v)'
    BY <1>1 DEF Says
  <2>1. Cleared(o.status) => Empty(v)'
    <3>1. PICK s : s = o.status
      OBVIOUS
    <3>2. Settled(v, vol[v].status)' <=> Settled(v, s)'
      BY <1>1, <3>1
    <3> QED
      BY <3>1, <3>2 DEF EmptyInv, CurrentInv, Settled, Cleared
  <2>2. pv[v].owner # 0 => o.fin
    BY <1>1 DEF OutlivesInv, PvInv
  <2> QED
    BY <2>1, <2>2, JobsKept DEF Writable, Prepared, Waits
<1>4. ASSUME NEW u \in Volumes
      PROVE  /\ vol'[u].fin => vcache'[u].uid = vol'[u].uid
             /\ Says(u, vol[u])' /\ Says(u, vcache[u])'
             /\ Tracks(u, vol[u].status)'
             /\ Backed(u, pv[u])'
  <2>1. PICK q, c : q = vol'[u] /\ c = vcache'[u]
    OBVIOUS
  <2>2. Says(u, q)' /\ Says(u, c)'
    BY <1>0, <1>1, <1>2, <1>3, <2>1 DEF ObjectsInv, Writable
  <2>3. Tracks(u, q.status)'
    BY <1>0, <1>1, <2>1, JobsKept DEF ObjectsInv, Writable
  <2>4. Backed(u, pv[u])'
    BY <1>0 DEF ObjectsInv, Backed
  <2>5. vol'[u].fin => vcache'[u].uid = vol'[u].uid
    BY <1>0, <1>1 DEF ObjectsInv, Writable
  <2> QED
    BY <2>1, <2>2, <2>3, <2>4, <2>5
<1>5. ActiveInv'
  <2> SUFFICES ASSUME NEW j \in Jids, Active(j)'
               PROVE  /\ jobs'[j].kind = "prepare" => pv'[jobs'[j].vol].owner = 0
                      /\ jobs'[j].kind = "unprepare" =>
                           Reclaims(jobs[j].vol)' \/ Harmless(jobs[j].vol, j)'
    BY DEF ActiveInv
  <2>1. Active(j) /\ jobs[j].vol \in Volumes
    BY <1>0 DEF Active, TypeOK, Job
  <2>2. PICK u \in Volumes : u = jobs[j].vol
    BY <2>1
  <2>3. Harmless(u, j) => Harmless(u, j)'
    BY DEF Harmless, Prepares
  <2>4. /\ jobs[j].kind = "prepare" => pv[u].owner = 0
        /\ jobs[j].kind = "unprepare" => Reclaims(u) \/ Harmless(u, j)
    BY <1>0, <2>1, <2>2 DEF ActiveInv
  <2>5. Reclaims(u) => Reclaims(u)' \/ Harmless(u, j)
    BY <1>0, <1>1, EmptyIsHarmless DEF Reclaims, Writable
  <2> QED
    BY <2>2, <2>3, <2>4, <2>5
<1> QED
  BY <1>1, <1>2, <1>3, <1>4, <1>5 DEF ObjectsInv

\* The finalization is done when the reconciliation comes to drop its objects.
LEMMA Reclaimed ==
  ASSUME StateInv, ctl.step \in {"dropPv", "dropVolume"}, vol[ctl.v].uid = ctl.vol.uid
  PROVE  /\ Finalizing(ctl.vol) /\ Finalizing(vol[ctl.v]) /\ Exists(vol[ctl.v])
         /\ Empty(ctl.v)
<1>1. /\ Finalizing(ctl.vol) /\ CurrentJob(ctl.vol) = "DONE" /\ Exists(ctl.vol)
      /\ Sound(ctl.vol, ctl.vol.status) /\ Onward(ctl.v, ctl.vol)
      /\ Says(ctl.v, ctl.vol)
  BY DEF StateInv, EmptyInv, WriterInv, OutlivesInv, CtlInv, Copy, WorkInv, SeenInv
<1>2. Cleared(ctl.vol.status)
  BY <1>1 DEF Cleared, CurrentJob, Sound, Finalizing
<1> QED
  BY <1>1, <1>2 DEF Says, Onward, Exists

LEMMA DropVolumeWrites ==
  ASSUME StateInv, DropVolume, ~Refused
  PROVE  /\ SetVolume(ctl.v, NoVolume) /\ ctl' = Idle
         /\ UNCHANGED <<pv, jobs, inbox, Reported>>
         /\ Exists(vol[ctl.v]) /\ Empty(ctl.v) /\ pv[ctl.v].owner = 0
<1> DEFINE q == [ctl.vol EXCEPT !.fin = FALSE]
<1>1. /\ SetVolume(ctl.v, Collected(q)) /\ ctl.step = "dropVolume" /\ ctl' = Idle
      /\ vol[ctl.v] = ctl.vol /\ UNCHANGED <<pv, jobs, inbox, Reported>>
  BY DEF DropVolume, Finish, salt, Reported
<1>2. Finalizing(ctl.vol) /\ Exists(vol[ctl.v]) /\ Empty(ctl.v)
  BY <1>1, Reclaimed
<1>3. Collected(q) = NoVolume
  BY <1>2 DEF Collected, Finalizing, Volume, StateInv, TypeOK, Control
<1>4. pv[ctl.v].owner = 0
  BY <1>1 DEF StateInv, OutlivesInv, StepInv
<1> HIDE DEF q
<1> QED
  BY <1>1, <1>2, <1>3, <1>4

\* The writes of the reconciliation: they are refused unless the copy is the
\* current Volume.
LEMMA WritesKeep ==
  ASSUME StateInv, OutlivesInv', EmptyInv', Save \/ Protect \/ DropVolume, ~Refused
  PROVE  WorkInv'
<1>0. /\ TypeOK /\ WorkInv /\ ctl \in Control /\ ctl.v \in Volumes
      /\ ctl.vol \in Volume /\ ctl.next \in Status
  BY DEF StateInv, TypeOK, Control
<1>1. UNCHANGED <<pv, jobs, inbox, Reported>> /\ vol[ctl.v] = ctl.vol /\ ctl.step # "idle"
  BY DEF Save, Protect, DropVolume, salt, Reported
<1>2. PICK v, c : v = ctl.v /\ c = ctl.vol /\ v \in Volumes /\ c \in Volume
  BY <1>0
<1>3. /\ vol[v] = c /\ Exists(c) /\ vcache[v].uid = c.uid
      /\ Tracks(v, c.status) /\ Says(v, c)
  BY <1>0, <1>1, <1>2 DEF StateInv, OutlivesInv, StepInv, WorkInv, SeenInv, ObjectsInv
<1>4. ASSUME NEW o \in Volume, SetVolume(v, o), Writable(v, o), ctl' = Idle
      PROVE  WorkInv'
  BY <1>1, <1>2, <1>4, NothingSeen, VolumeWritten DEF WorkInv
<1>5. CASE Save
  <2> DEFINE q == [ctl.vol EXCEPT !.status = ctl.next]
  <2>1. /\ SetVolume(ctl.v, q) /\ ctl.step = "save"
        /\ ctl' = Idle \/ ctl' = [ctl EXCEPT !.vol = q, !.step = "failPv"]
    BY <1>1, <1>5 DEF Save, Finish, Requeue
  <2>2. /\ q \in Volume /\ q.uid = c.uid /\ q.fin = c.fin
        /\ q.deleting = c.deleting /\ q.status = ctl.next
    BY <1>0, <1>2, VolumeTypes DEF Volume
  <2>3. PICK o, s : o = q /\ s = ctl.next
    OBVIOUS
  <2> HIDE DEF q
  <2>4. o \in Volume /\ SetVolume(v, o) /\ o.status = s
    BY <1>2, <2>1, <2>2, <2>3
  <2>5. Fresh
    BY <1>1 DEF Fresh
  <2>6. Writable(v, o)
    <3>1. /\ Waits(s) => Waits(c.status)
          /\ Offered(s) => pv[v].owner # 0
          /\ Tracks(v, s) /\ (Prepared(s) => Quiet(v))
          /\ Finalizing(c) => s.phase # "Pending"
      BY <1>0, <1>2, <2>1, <2>3, <2>5
         DEF WorkInv, NextInv, StateInv, OutlivesInv, StepInv
    <3>2. Follows(v, o, vcache[v])
      BY <1>3, <2>2, <2>3, <3>1 DEF Follows
    <3> QED
      BY <1>3, <2>2, <2>3, <3>1, <3>2 DEF Writable, Finalizing
  <2>7. CASE ctl' = [ctl EXCEPT !.vol = o, !.step = "failPv"]
    <3>1. ctl'.step = "failPv" /\ ctl'.vol = o /\ ctl'.v = v
      BY <1>0, <1>2, <2>7 DEF Control
    <3>2. /\ ObjectsInv' /\ ActiveInv' /\ vol'[v] = o
          /\ vcache'[v] \in {o, vcache[v]} /\ Says(v, o)'
      BY <1>1, <1>2, <2>4, <2>6, VolumeWritten
    <3>3. SeenInv'
      BY <1>2, <1>3, <2>2, <2>3, <3>1, <3>2 DEF SeenInv
    <3>4. NextInv'
      BY <3>1 DEF NextInv, Deploying
    <3> QED
      BY <3>2, <3>3, <3>4 DEF WorkInv
  <2> QED
    BY <1>4, <2>1, <2>3, <2>4, <2>6, <2>7
<1>6. CASE Protect
  <2> DEFINE q == [ctl.vol EXCEPT !.fin = TRUE]
  <2>1. /\ SetVolume(ctl.v, q) /\ ctl.step = "protect"
        /\ ctl' = [ctl EXCEPT !.vol = q, !.step = "prepare"]
    BY <1>1, <1>6 DEF Protect
  <2>2. /\ q \in Volume /\ q.uid = c.uid /\ q.fin
        /\ q.deleting = c.deleting /\ q.status = c.status
    BY <1>0, <1>2, VolumeTypes DEF Volume
  <2>3. PICK o : o = q
    OBVIOUS
  <2> HIDE DEF q
  <2>4. o \in Volume /\ SetVolume(v, o)
    BY <1>2, <2>1, <2>2, <2>3
  <2>5. /\ ~Finalizing(c) /\ pv[v].owner = 0 /\ c.status.job = ""
        /\ ~InUnrecoverableFailedState(c)
    BY <1>0, <1>2, <2>1
       DEF WorkInv, NextInv, StateInv, OutlivesInv, StepInv, Deploying
  <2>6. Waits(c.status)
    <3>1. ~Offered(c.status)
      BY <1>2, <1>3, <2>5 DEF Says
    <3>2. c.status.phase # "Terminating"
      BY <1>2, <2>1, <2>5 DEF StateInv, EmptyInv, WriterInv, Sound, Finalizing
    <3>3. c.status.phase \in Phases
      BY <1>2 DEF Volume, Status
    <3> QED
      BY <2>5, <3>1, <3>2, <3>3
         DEF Waits, Offered, InUnrecoverableFailedState, Phases
  <2>7. Writable(v, o)
    BY <1>3, <2>2, <2>3, <2>5, <2>6
       DEF Writable, Follows, Waits, Offered, Prepared, Finalizing
  <2>8. /\ ObjectsInv' /\ ActiveInv' /\ vol'[v] = o
        /\ vcache'[v] \in {o, vcache[v]} /\ Says(v, o)'
    BY <1>1, <1>2, <2>4, <2>7, VolumeWritten
  <2>9. ctl'.step = "prepare" /\ ctl'.vol = o /\ ctl'.v = v
    BY <1>0, <1>2, <2>1, <2>3 DEF Control
  <2>10. SeenInv'
    BY <1>2, <1>3, <2>2, <2>3, <2>8, <2>9 DEF SeenInv
  <2>11. vcache'[v].status.phase # "Terminating"
    <3>1. CASE vcache'[v] = o
      BY <2>2, <2>3, <2>6, <3>1 DEF Waits
    <3>2. CASE vcache'[v] = vcache[v]
      <4>1. Onward(v, vcache[v]) /\ Sound(vcache[v], vcache[v].status)
        BY <1>2 DEF StateInv, OutlivesInv, CacheInv, Copy, EmptyInv, CurrentInv
      <4> QED
        BY <1>3, <2>5, <3>2, <4>1 DEF Onward, Sound, Finalizing
    <3> QED
      BY <2>8, <3>1, <3>2
  <2>12. Fresh'
    BY <2>8, <2>9 DEF Fresh
  <2>13. NextInv'
    BY <1>1, <2>2, <2>3, <2>5, <2>6, <2>9, <2>11, <2>12 DEF NextInv, Deploying
  <2> QED
    BY <2>8, <2>10, <2>13 DEF WorkInv
<1>7. CASE DropVolume
  <2>1. SetVolume(v, NoVolume) /\ NoVolume \in Volume /\ Empty(v) /\ ctl' = Idle
    BY <1>2, <1>7, DropVolumeWrites, VolumeTypes
  <2>2. Writable(v, NoVolume)
    BY <2>1 DEF Writable, Follows, NoVolume, NewStatus, Prepared, Offered, Tracks,
       Exists
  <2> QED
    BY <1>4, <2>1, <2>2
<1> QED
  BY <1>5, <1>6, <1>7

\* Users.
LEMMA UserWrites ==
  ASSUME StateInv, TypeOK', NEW v \in Volumes, CreateVolume(v) \/ DeleteVolume(v)
  PROVE  \E o \in Volume :
           /\ SetVolume(v, o)
           /\ \/ /\ vol[v].fin /\ o.uid = vol[v].uid /\ o.fin = vol[v].fin
                 /\ o.status = vol[v].status /\ o.deleting
              \/ /\ ~vol[v].fin /\ ~o.fin /\ o.status = NewStatus /\ ~o.deleting
                 /\ o.uid = 0 \/ o.uid > born[v]
                 /\ Exists(o) <=> ~Exists(vol[v])
                 /\ ~Exists(o) => o = NoVolume
<1>0. TypeOK /\ vol[v] \in Volume /\ vol'[v] \in Volume
  BY DEF StateInv, TypeOK
<1>1. CASE CreateVolume(v)
  <2>1. PICK valid \in BOOLEAN :
          SetVolume(v, [NoVolume EXCEPT !.uid = born[v] + 1, !.valid = valid])
    BY <1>1 DEF CreateVolume
  <2> DEFINE q == [NoVolume EXCEPT !.uid = born[v] + 1, !.valid = valid]
  <2>2. ~q.fin /\ q.status = NewStatus /\ ~q.deleting /\ q.uid = born[v] + 1
    BY DEF NoVolume
  <2>3. ~vol[v].fin /\ ~Exists(vol[v]) /\ born[v] \in Nat
    <3>1. ~Exists(vol[v])
      BY <1>1 DEF CreateVolume
    <3>2. vol[v].fin => Exists(vol[v])
      BY DEF StateInv, EmptyInv, CurrentInv
    <3>3. born[v] \in 0..MaxUid
      BY <1>0 DEF TypeOK
    <3> QED
      BY <3>1, <3>2, <3>3
  <2>4. vol'[v] = q
    BY <1>0, <2>1 DEF SetVolume, TypeOK
  <2>5. SetVolume(v, q) /\ q \in Volume
    BY <1>0, <2>1, <2>4
  <2> HIDE DEF q
  <2> QED
    BY <2>2, <2>3, <2>5 DEF Exists
<1>2. CASE DeleteVolume(v)
  <2> DEFINE m == [vol[v] EXCEPT !.deleting = TRUE]
             q == Collected(m)
  <2>1. SetVolume(v, q) /\ Exists(vol[v])
    BY <1>2 DEF DeleteVolume
  <2>2. /\ m.uid = vol[v].uid /\ m.fin = vol[v].fin /\ m.deleting
        /\ m.status = vol[v].status /\ m \in Volume
    BY <1>0 DEF Volume
  <2>3. IF vol[v].fin THEN q = m ELSE q = NoVolume
    BY <2>2 DEF Collected
  <2> HIDE DEF m, q
  <2>4. /\ NoVolume \in Volume /\ ~NoVolume.fin /\ ~NoVolume.deleting
        /\ NoVolume.uid = 0 /\ ~Exists(NoVolume) /\ NoVolume.status = NewStatus
    BY VolumeTypes DEF NoVolume, Exists
  <2> QED
    BY <2>1, <2>2, <2>3, <2>4
<1> QED
  BY <1>1, <1>2

LEMMA UsersKeep ==
  ASSUME StateInv, OutlivesInv', EmptyInv', TypeOK', NEW v \in Volumes,
         CreateVolume(v) \/ DeleteVolume(v)
  PROVE  WorkInv'
<1>0. TypeOK /\ WorkInv /\ ctl.v \in Volumes /\ vol[v] \in Volume /\ vol'[v] \in Volume
  BY DEF StateInv, TypeOK, Control
<1>1. UNCHANGED <<pv, ctl, jobs, inbox, Reported>>
  BY <1>0, CreateReports, ReportedKept DEF CreateVolume, DeleteVolume, salt
<1>2. PICK o \in Volume :
        /\ SetVolume(v, o)
        /\ \/ /\ vol[v].fin /\ o.uid = vol[v].uid /\ o.fin = vol[v].fin
              /\ o.status = vol[v].status /\ o.deleting
           \/ /\ ~vol[v].fin /\ ~o.fin /\ o.status = NewStatus
              /\ o.uid = 0 \/ o.uid > born[v]
              /\ Exists(o) => ~Exists(vol[v])
  BY UserWrites
<1>3. ASSUME NEW c, c.uid <= born[v], c \in Volume
      PROVE  Follows(v, o, c)
  <2>1. c.uid \in Nat /\ born[v] \in Nat
    BY <1>0, <1>3, BoundsAssumption DEF TypeOK, Volume
  <2> QED
    BY <1>2, <1>3, <2>1 DEF Follows, Exists
<1>4. /\ Follows(v, o, vcache[v]) /\ ctl.vol \in Volume
      /\ ctl.v = v => Follows(v, o, ctl.vol)
  BY <1>0, <1>3 DEF StateInv, OutlivesInv, CacheInv, CtlInv, Copy, TypeOK, Control
<1>5. Writable(v, o)
  <2>1. CASE vol[v].fin
    <3>1. PvInv /\ ObjectsInv
      BY <1>0 DEF StateInv, OutlivesInv, WorkInv
    <3>2. Says(v, vol[v]) /\ Exists(vol[v]) /\ vcache[v].uid = vol[v].uid
          /\ Tracks(v, vol[v].status)
      BY <2>1, <3>1 DEF ObjectsInv, StateInv, EmptyInv, CurrentInv
    <3>3. /\ o.uid = vol[v].uid /\ o.status = vol[v].status /\ o.deleting
      BY <1>2, <2>1
    <3>4. Finalizing(vol[v]) => Finalizing(o)
      BY <3>3 DEF Finalizing
    <3>5. Offered(vol[v].status) /\ ~Finalizing(o) => pv[v].owner # 0
      BY <3>2, <3>3, <3>4 DEF Says
    <3>6. Prepared(vol[v].status) => Quiet(v)
      BY <3>2 DEF Says
    <3> QED
      BY <1>4, <3>2, <3>3, <3>4, <3>5, <3>6 DEF Writable
  <2>2. CASE ~vol[v].fin
    <3>1. Empty(v)
      BY <2>2 DEF StateInv, EmptyInv, CurrentInv
    <3>2. ~o.fin /\ o.status = NewStatus
      BY <1>2, <2>2
    <3>3. o.status.phase = ""
      <4>1. NewStatus.phase = ""
        BY DEF NewStatus
      <4> QED
        BY <3>2, <4>1
    <3> QED
      BY <1>4, <3>1, <3>2, <3>3 DEF Writable, Prepared, Offered, Tracks
  <2> QED
    BY <2>1, <2>2
<1>6. /\ ObjectsInv' /\ ActiveInv' /\ vol'[v] = o
      /\ vcache'[v] \in {o, vcache[v]}
      /\ \A u \in Volumes \ {v} : vol'[u] = vol[u] /\ vcache'[u] = vcache[u]
      /\ \A u \in Volumes : \A c :
           Says(u, c) /\ (u = v => Follows(v, o, c)) => Says(u, c)'
  BY <1>1, <1>2, <1>5, VolumeWritten
<1>7. PICK u, c, s : u = ctl.v /\ c = ctl.vol /\ s = ctl.next /\ u \in Volumes
  BY <1>0
<1>8. ctl.step # "idle" /\ vol[u] # vol'[u] =>
        /\ u = v /\ Exists(c)
        /\ \/ /\ vol[v].fin /\ o.uid = vol[v].uid /\ o.fin = vol[v].fin
              /\ o.status = vol[v].status
           \/ ~vol[v].fin /\ ~o.fin /\ o.uid # c.uid
  <2>1. ctl.step # "idle" => Exists(c)
    BY <1>7 DEF StateInv, OutlivesInv, StepInv
  <2>2. u = v /\ Exists(c) /\ c.uid = o.uid => vol[v].uid = o.uid
    BY <1>4, <1>7 DEF Follows
  <2> QED
    BY <1>2, <1>6, <1>7, <2>1, <2>2 DEF Exists
<1>9. SeenInv'
  <2>1. Says(u, c)'
    BY <1>0, <1>4, <1>6, <1>7 DEF WorkInv, SeenInv
  <2> QED
    BY <1>0, <1>1, <1>2, <1>6, <1>7, <1>8, <2>1 DEF WorkInv, SeenInv
<1>10. ctl.step # "idle" /\ Fresh' => Fresh
  BY <1>1, <1>6, <1>7, <1>8 DEF Fresh
<1>11. ctl.step = "prepare" =>
         Fresh' /\ vcache'[ctl.v].status.phase # "Terminating"
  <2> SUFFICES ASSUME ctl.step = "prepare"
               PROVE  Fresh' /\ vcache'[ctl.v].status.phase # "Terminating"
    OBVIOUS
  <2>1. /\ Fresh /\ Waits(c.status) /\ vcache[u].status.phase # "Terminating"
        /\ vol[u].fin
    BY <1>0, <1>7 DEF WorkInv, NextInv, StateInv, EmptyInv, WriterInv
  <2>2. Fresh'
    BY <1>1, <1>6, <1>7, <1>8, <2>1 DEF Fresh
  <2>3. vcache'[u] \in {vcache[u], vol'[u]}
    BY <1>6, <1>7
  <2>4. vol'[u].status = c.status
    BY <1>1, <1>7, <2>2 DEF Fresh
  <2> QED
    BY <1>1, <1>7, <2>1, <2>2, <2>3, <2>4 DEF Waits
<1>12. /\ Tracks(u, s) => Tracks(ctl.v, ctl.next)'
       /\ Quiet(u) => Quiet(ctl.v)'
  <2>1. (Tracks(u, s) => Tracks(u, s)') /\ (Quiet(u) => Quiet(u)')
    BY <1>1, JobsKept
  <2> QED
    BY <1>1, <1>7, <2>1
<1>13. NextInv'
  BY <1>0, <1>1, <1>7, <1>10, <1>11, <1>12 DEF WorkInv, NextInv
<1> QED
  BY <1>6, <1>9, <1>13 DEF WorkInv

-----------------------------------------------------------------------------
(* The writes of a PersistentVolume.                                        *)

\* A copy does not count on the PersistentVolume that is withdrawn.
Releases(v, p, c) ==
  pv[v].owner # 0 /\ p.owner = 0 /\ c.uid = vol[v].uid =>
    ~Offered(c.status) \/ Finalizing(c)

\* What a write of a PersistentVolume leaves true.
PvWritable(v, p) ==
  /\ Backed(v, p)
  /\ p.owner # 0 => pv[v].owner # 0 \/ Quiet(v)
  /\ p.owner # 0 /\ p.inuse => pv[v].inuse \/ Quiet(v)
  /\ Releases(v, p, vol[v]) /\ Releases(v, p, vcache[v])

LEMMA OfferWritten ==
  ASSUME StateInv, UNCHANGED <<vol, vcache, jobs, inbox, Reported>>,
         NEW v \in Volumes, NEW p, SetPv(v, p), PvWritable(v, p)
  PROVE  /\ ObjectsInv' /\ ActiveInv'
         /\ pv'[v] = p /\ \A u \in Volumes \ {v} : pv'[u] = pv[u]
         /\ \A u \in Volumes : \A c :
              Says(u, c) /\ (u = v => Releases(v, p, c)) => Says(u, c)'
<1>0. TypeOK /\ ObjectsInv /\ ActiveInv
  BY DEF StateInv, WorkInv
<1>1. pv'[v] = p /\ \A u \in Volumes \ {v} : pv'[u] = pv[u]
  BY <1>0 DEF SetPv, TypeOK
<1>2. ASSUME NEW u \in Volumes, NEW c, Says(u, c), u = v => Releases(v, p, c)
      PROVE  Says(u, c)'
  BY <1>1, <1>2, JobsKept DEF Says, Releases
<1>3. ASSUME NEW u \in Volumes
      PROVE  /\ vol'[u].fin => vcache'[u].uid = vol'[u].uid
             /\ Says(u, vol[u])' /\ Says(u, vcache[u])'
             /\ Tracks(u, vol[u].status)'
             /\ Backed(u, pv[u])'
  <2>1. PICK q, c : q = vol[u] /\ c = vcache[u]
    OBVIOUS
  <2>2. Says(u, q)' /\ Says(u, c)'
    BY <1>0, <1>2, <2>1 DEF ObjectsInv, PvWritable
  <2>3. Tracks(u, q.status)'
    BY <1>0, <2>1, JobsKept DEF ObjectsInv
  <2>4. Backed(u, pv[u])'
    BY <1>0, <1>1 DEF ObjectsInv, PvWritable, Backed
  <2> QED
    BY <1>0, <2>1, <2>2, <2>3, <2>4 DEF ObjectsInv
<1>4. ActiveInv'
  <2> SUFFICES ASSUME NEW j \in Jids, Active(j)'
               PROVE  /\ jobs'[j].kind = "prepare" => pv'[jobs'[j].vol].owner = 0
                      /\ jobs'[j].kind = "unprepare" =>
                           Reclaims(jobs[j].vol)' \/ Harmless(jobs[j].vol, j)'
    BY DEF ActiveInv
  <2>1. Active(j) /\ jobs[j].vol \in Volumes
    BY <1>0 DEF Active, TypeOK, Job
  <2>2. PICK u \in Volumes : u = jobs[j].vol
    BY <2>1
  <2>3. Harmless(u, j) => Harmless(u, j)'
    BY DEF Harmless, Prepares
  <2>4. u = v => ~Quiet(v)
    BY <2>1, <2>2 DEF Quiet
  <2>5. /\ jobs[j].kind = "prepare" => pv[u].owner = 0
        /\ jobs[j].kind = "unprepare" => Reclaims(u) \/ Harmless(u, j)
    BY <1>0, <2>1, <2>2 DEF ActiveInv
  <2>6. Reclaims(u) => Reclaims(u)'
    BY <1>1, <2>4 DEF Reclaims, PvWritable
  <2>7. pv[u].owner = 0 => pv'[u].owner = 0
    BY <1>1, <2>4 DEF PvWritable
  <2> QED
    BY <2>2, <2>3, <2>5, <2>6, <2>7
<1> QED
  BY <1>1, <1>2, <1>3, <1>4 DEF ObjectsInv

\* A change of a PersistentVolume that neither gives nor takes an owner.
TouchesPv(v, p) ==
  /\ SetPv(v, p) /\ UNCHANGED <<vol, vcache, jobs, inbox, Reported>>
  /\ p.owner = pv[v].owner /\ Backed(v, p)
  /\ p.owner # 0 /\ p.inuse => pv[v].inuse

LEMMA TouchKeeps ==
  ASSUME StateInv, NEW v \in Volumes, NEW p \in Pv, TouchesPv(v, p),
         ctl' = Idle \/ ctl' = ctl
  PROVE  WorkInv'
<1>0. TypeOK /\ WorkInv /\ ctl.v \in Volumes
  BY DEF StateInv, TypeOK, Control
<1>1. /\ SetPv(v, p) /\ UNCHANGED <<vol, vcache, jobs, inbox, Reported>>
      /\ p.owner = pv[v].owner /\ PvWritable(v, p)
      /\ \A c : Releases(v, p, c)
  BY DEF TouchesPv, PvWritable, Releases
<1>2. /\ ObjectsInv' /\ ActiveInv'
      /\ pv'[v] = p /\ \A u \in Volumes \ {v} : pv'[u] = pv[u]
      /\ \A u \in Volumes : \A c : Says(u, c) => Says(u, c)'
  BY <1>1, OfferWritten
<1>3. CASE ctl' = Idle
  BY <1>2, <1>3, NothingSeen DEF WorkInv
<1>4. CASE ctl' = ctl
  <2>1. PICK u, c, s : u = ctl.v /\ c = ctl.vol /\ s = ctl.next /\ u \in Volumes
    BY <1>0
  <2>2. Says(u, c)'
    BY <1>0, <1>2, <2>1 DEF WorkInv, SeenInv
  <2>3. SeenInv'
    BY <1>0, <1>1, <1>4, <2>1, <2>2 DEF WorkInv, SeenInv
  <2>4. /\ pv'[u].owner = pv[u].owner
        /\ pv'[u].owner # 0 /\ pv'[u].inuse => pv[u].inuse
    BY <1>1, <1>2, <2>1 DEF TouchesPv
  <2>5. /\ Tracks(u, s) => Tracks(ctl.v, ctl.next)'
        /\ Quiet(u) => Quiet(ctl.v)'
    <3>1. (Tracks(u, s) => Tracks(u, s)') /\ (Quiet(u) => Quiet(u)')
      BY <1>1, JobsKept
    <3> QED
      BY <1>4, <2>1, <3>1
  <2>6. Fresh' <=> Fresh
    BY <1>1, <1>4 DEF Fresh
  <2>7. NextInv'
    BY <1>0, <1>1, <1>4, <2>1, <2>4, <2>5, <2>6 DEF WorkInv, NextInv
  <2> QED
    BY <1>2, <2>3, <2>7 DEF WorkInv
<1> QED
  BY <1>3, <1>4

\* What is known of the PersistentVolume of a volume.
LEMMA PvBacked ==
  ASSUME StateInv, NEW v \in Volumes
  PROVE  /\ pv[v] \in Pv /\ Backed(v, pv[v])
         /\ pv[v].owner # 0 => pv[v].there /\ pv[v].fin
BY DEF StateInv, TypeOK, WorkInv, ObjectsInv, Backed, OutlivesInv, PvInv

\* Changes of a PersistentVolume, its finalizer apart, while it is there.
LEMMA Touched ==
  ASSUME StateInv, NEW v \in Volumes,
         UNCHANGED <<vol, vcache, jobs, inbox, Reported>>,
         NEW p,
         SetPv(v, p),
         \/ /\ p = [NoPv EXCEPT !.there = TRUE, !.phase = "Available",
                                !.inuse = TRUE]
            /\ ~pv[v].there
         \/ p = CollectedPv([pv[v] EXCEPT !.deleting = TRUE])
         \/ p = NoPv /\ ~pv[v].there
         \/ /\ p = CollectedPv([pv[v] EXCEPT !.inuse = FALSE])
            /\ pv[v].deleting /\ pv[v].phase # "Bound"
         \/ /\ p = [pv[v] EXCEPT !.phase = "Bound"]
            /\ ~pv[v].deleting
         \/ \E phase \in PvPhases \ {"Bound"} : p = [pv[v] EXCEPT !.phase = phase]
  PROVE  p \in Pv /\ TouchesPv(v, p)
<1> DEFINE q == pv[v]
<1>1. /\ q \in Pv /\ Backed(v, q)
      /\ q.owner # 0 => q.there /\ q.fin
  BY PvBacked
<1>2. p \in Pv
  <2>1. /\ [NoPv EXCEPT !.there = TRUE, !.phase = "Available", !.inuse = TRUE] \in Pv
        /\ NoPv \in Pv
    BY PvTypes DEF PvPhases
  <2>2. \A phase \in PvPhases : [q EXCEPT !.phase = phase] \in Pv
    BY <1>1, PvTypes
  <2>3. /\ CollectedPv([q EXCEPT !.deleting = TRUE]) \in Pv
        /\ CollectedPv([q EXCEPT !.inuse = FALSE]) \in Pv
    BY <1>1, PvTypes
  <2>4. "Bound" \in PvPhases
    BY DEF PvPhases
  <2> HIDE DEF q
  <2> QED
    BY <2>1, <2>2, <2>3, <2>4 DEF q
<1>3. CASE q.owner = 0
  <2>1. NoPv.owner = 0
    BY DEF NoPv
  <2>2. [NoPv EXCEPT !.there = TRUE, !.phase = "Available", !.inuse = TRUE].owner = 0
    BY DEF NoPv
  <2>3. /\ [q EXCEPT !.deleting = TRUE].owner = 0
        /\ [q EXCEPT !.inuse = FALSE].owner = 0
        /\ \A phase : [q EXCEPT !.phase = phase].owner = 0
    BY <1>1, <1>3 DEF Pv
  <2>4. p.owner = 0
    BY <2>1, <2>2, <2>3 DEF CollectedPv
  <2> QED
    BY <1>2, <1>3, <2>4 DEF TouchesPv, Backed
<1>4. CASE q.owner # 0
  <2>1. q.there /\ q.fin
    BY <1>1, <1>4
  <2>2. ASSUME p.owner = q.owner, p.fin, p.inuse => q.inuse,
               q.deleting => p.deleting, ~p.inuse => p.deleting,
               p.deleting /\ ~p.inuse => p.phase # "Bound"
        PROVE  p \in Pv /\ TouchesPv(v, p)
    BY <1>1, <1>2, <1>4, <2>2 DEF TouchesPv, Backed
  <2>3. CASE p = CollectedPv([q EXCEPT !.deleting = TRUE])
    <3>1. p = [q EXCEPT !.deleting = TRUE]
      BY <1>1, <2>1, <2>3 DEF CollectedPv, Pv
    <3>2. /\ p.owner = q.owner /\ p.fin /\ p.inuse = q.inuse /\ p.phase = q.phase
          /\ p.deleting
      BY <1>1, <2>1, <3>1 DEF Pv
    <3> QED
      BY <1>1, <1>4, <2>2, <3>2 DEF Backed
  <2>4. CASE /\ p = CollectedPv([q EXCEPT !.inuse = FALSE])
             /\ q.deleting /\ q.phase # "Bound"
    <3>1. p = [q EXCEPT !.inuse = FALSE]
      BY <1>1, <2>1, <2>4 DEF CollectedPv, Pv
    <3>2. /\ p.owner = q.owner /\ p.fin /\ ~p.inuse /\ p.phase # "Bound"
          /\ p.deleting
      BY <1>1, <2>1, <2>4, <3>1 DEF Pv
    <3> QED
      BY <2>2, <3>2
  <2>5. CASE p = [q EXCEPT !.phase = "Bound"] /\ ~q.deleting
    <3>1. /\ p.owner = q.owner /\ p.fin /\ p.inuse = q.inuse
          /\ p.deleting = q.deleting
      BY <1>1, <2>1, <2>5 DEF Pv
    <3> QED
      BY <1>1, <1>4, <2>2, <2>5, <3>1 DEF Backed
  <2>6. CASE \E phase \in PvPhases \ {"Bound"} : p = [q EXCEPT !.phase = phase]
    <3>1. /\ p.owner = q.owner /\ p.fin /\ p.inuse = q.inuse /\ p.phase # "Bound"
          /\ p.deleting = q.deleting
      BY <1>1, <2>1, <2>6 DEF Pv
    <3> QED
      BY <1>1, <1>4, <2>2, <3>1 DEF Backed
  <2> QED
    BY <2>1, <2>3, <2>4, <2>5, <2>6
<1> QED
  BY <1>3, <1>4

\* The writes of a PersistentVolume by the worker.
LEMMA PvTouchedByWorker ==
  ASSUME StateInv, (FailPv /\ ~Refused) \/ DeletePv
  PROVE  ctl' = Idle /\ \E p \in Pv : TouchesPv(ctl.v, p)
<1>1. ctl.v \in Volumes
  BY DEF StateInv, TypeOK, Control
<1>2. CASE FailPv /\ ~Refused
  <2>1. /\ SetPv(ctl.v, [pv[ctl.v] EXCEPT !.phase = "Failed"]) /\ ctl' = Idle
        /\ UNCHANGED <<vol, vcache, jobs, inbox, Reported>>
    BY <1>2 DEF FailPv, Requeue, Finish, salt, Reported
  <2>2. "Failed" \in PvPhases \ {"Bound"}
    BY DEF PvPhases
  <2> QED
    BY <1>1, <2>1, <2>2, Touched
<1>3. CASE DeletePv
  <2>1. PICK p : /\ SetPv(ctl.v, p) /\ ctl' = Idle
                 /\ UNCHANGED <<vol, vcache, jobs, inbox, Reported>>
                 /\ \/ p = CollectedPv([pv[ctl.v] EXCEPT !.deleting = TRUE])
                    \/ p = NoPv /\ ~pv[ctl.v].there
    BY <1>3 DEF DeletePv, Requeue, Finish, salt, Reported
  <2> QED
    BY <1>1, <2>1, Touched
<1> QED
  BY <1>2, <1>3

LEMMA CreatePvWrites ==
  ASSUME StateInv, CreatePv, ~Refused
  PROVE  LET p == NewPv(ctl.vol.uid)
         IN /\ p \in Pv /\ SetPv(ctl.v, p) /\ Backed(ctl.v, p) /\ p.inuse
            /\ p.owner # 0 /\ pv[ctl.v].owner = 0
            /\ Quiet(ctl.v) /\ Reported[ctl.v] = "ready"
            /\ Exists(vol[ctl.v])
            /\ UNCHANGED <<vol, vcache, jobs, inbox, Reported>>
            /\ GoSave(ctl, AvailableStatus, "requeue")
<1> DEFINE p == NewPv(ctl.vol.uid)
<1>0. TypeOK /\ NextInv /\ SeenInv /\ ctl.v \in Volumes /\ ctl.vol \in Volume
  BY DEF StateInv, WorkInv, TypeOK, Control
<1>1. /\ ctl.step = "createPv" /\ SetPv(ctl.v, p)
      /\ GoSave(ctl, AvailableStatus, "requeue")
      /\ UNCHANGED <<vol, vcache, jobs, inbox, Reported>>
  BY DEF CreatePv, salt, Reported
<1>2. Reported[ctl.v] = "ready" /\ pv[ctl.v].owner = 0 /\ Prepared(ctl.vol.status)
  BY <1>0, <1>1 DEF NextInv, Deploying
<1>3. /\ Exists(ctl.vol) /\ ~Finalizing(ctl.vol) /\ ctl.vol.fin
      /\ Copy(ctl.v, ctl.vol)
  BY <1>1 DEF StateInv, OutlivesInv, StepInv, CtlInv, Deploying
<1>4. Quiet(ctl.v) /\ Exists(vol[ctl.v])
  BY <1>0, <1>2, <1>3 DEF Copy, Held, SeenInv, Says, Exists
<1>5. p \in Pv /\ p.fin /\ p.inuse /\ p.owner # 0
  BY <1>0, <1>3, PvTypes DEF NewPv, Volume, Exists
<1> HIDE DEF p
<1>6. Backed(ctl.v, p)
  BY <1>2, <1>5 DEF Backed
<1> QED
  BY <1>1, <1>2, <1>4, <1>5, <1>6 DEF p

LEMMA DropPvWrites ==
  ASSUME StateInv, DropPv, ~Refused
  PROVE  /\ SetPv(ctl.v, NoPv) /\ Go("dropVolume")
         /\ UNCHANGED <<vol, vcache, jobs, inbox, Reported>>
         /\ pv[ctl.v].owner # 0 /\ ~pv[ctl.v].inuse /\ Reported[ctl.v] = "raw"
         /\ Finalizing(vol[ctl.v]) /\ Exists(vol[ctl.v])
         /\ vol[ctl.v].uid = ctl.vol.uid /\ Finalizing(ctl.vol)
         /\ ctl.step = "dropPv"
<1> DEFINE p == CollectedPv([ctl.pv EXCEPT !.fin = FALSE])
<1>0. TypeOK /\ NextInv /\ SeenInv /\ ctl.v \in Volumes /\ ctl.pv \in Pv
  BY DEF StateInv, WorkInv, TypeOK, Control
<1>1. /\ ctl.step = "dropPv" /\ SetPv(ctl.v, p) /\ Go("dropVolume")
      /\ pv[ctl.v] = ctl.pv
      /\ UNCHANGED <<vol, vcache, jobs, inbox, Reported>>
  BY DEF DropPv, salt, Reported
<1>2. ctl.pv.deleting /\ ~ctl.pv.inuse /\ ctl.pv.owner # 0
  BY <1>0, <1>1 DEF StateInv, OutlivesInv, StepInv, NextInv
<1>3. p = NoPv
  BY <1>0, <1>2 DEF CollectedPv, Pv
<1>4. vol[ctl.v].fin /\ Exists(vol[ctl.v]) /\ vol[ctl.v].uid = ctl.vol.uid
  BY <1>0, <1>1, <1>2 DEF StateInv, OutlivesInv, PvInv, SeenInv, EmptyInv, CurrentInv
<1>5. Finalizing(ctl.vol) /\ Finalizing(vol[ctl.v]) /\ Empty(ctl.v)
  BY <1>1, <1>4, Reclaimed
<1> HIDE DEF p
<1> QED
  BY <1>1, <1>2, <1>3, <1>4, <1>5 DEF Empty

LEMMA PvWritesKeep ==
  ASSUME StateInv, FailPv \/ CreatePv \/ DeletePv \/ DropPv, ~Refused
  PROVE  WorkInv'
<1>0. TypeOK /\ WorkInv /\ ctl \in Control /\ ctl.v \in Volumes
  BY DEF StateInv, TypeOK, Control
<1>1. PICK v, c : v = ctl.v /\ c = ctl.vol /\ v \in Volumes
  BY <1>0
<1>2. CASE FailPv \/ DeletePv
  BY <1>0, <1>2, PvTouchedByWorker, TouchKeeps
<1>3. CASE CreatePv
  <2> DEFINE p == NewPv(ctl.vol.uid)
  <2>1. /\ p \in Pv /\ SetPv(v, p) /\ Backed(v, p)
        /\ pv[v].owner = 0 /\ p.owner # 0 /\ Quiet(v)
        /\ UNCHANGED <<vol, vcache, jobs, inbox, Reported>>
        /\ GoSave(ctl, AvailableStatus, "requeue") /\ ctl.step # "idle"
    BY <1>1, <1>3, CreatePvWrites DEF CreatePv
  <2> HIDE DEF p
  <2>2. PvWritable(v, p) /\ \A q : Releases(v, p, q)
    BY <2>1 DEF PvWritable, Releases
  <2>3. /\ ObjectsInv' /\ ActiveInv' /\ pv'[v] = p
        /\ \A q : Says(v, q) => Says(v, q)'
    BY <1>1, <2>1, <2>2, OfferWritten
  <2>4. /\ ctl'.v = v /\ ctl'.vol = c /\ ctl'.step = "save"
        /\ ctl'.next.phase = "Available"
    BY <1>0, <1>1, <2>1 DEF GoSave, Control, AvailableStatus
  <2>5. Says(v, c)'
    BY <1>0, <1>1, <2>3 DEF WorkInv, SeenInv
  <2>6. SeenInv'
    BY <1>0, <1>1, <2>1, <2>4, <2>5 DEF WorkInv, SeenInv
  <2>7. NextInv'
    BY <2>1, <2>3, <2>4 DEF NextInv, Deploying, Waits, Offered, Tracks, Prepared
  <2> QED
    BY <2>3, <2>6, <2>7 DEF WorkInv
<1>4. CASE DropPv
  <2>1. /\ SetPv(v, NoPv) /\ Go("dropVolume")
        /\ UNCHANGED <<vol, vcache, jobs, inbox, Reported>>
        /\ Finalizing(vol[v]) /\ Exists(vol[v]) /\ vol[v].uid = c.uid
        /\ Finalizing(c) /\ ctl.step = "dropPv"
    BY <1>1, <1>4, DropPvWrites
  <2>2. NoPv.owner = 0
    BY DEF NoPv
  <2>3. Releases(v, NoPv, vol[v]) /\ Releases(v, NoPv, c)
    BY <2>1 DEF Releases
  <2>4. Releases(v, NoPv, vcache[v])
    <3>1. vcache[v].uid = vol[v].uid /\ Offered(vcache[v].status) =>
            Finalizing(vcache[v]) \/ vcache[v].fin
      BY <1>0, <1>1, <2>1 DEF WorkInv, ObjectsInv, Says, Exists
    <3>2. vcache[v].fin => Finalizing(vcache[v])
      BY <1>1, <2>1 DEF StateInv, OutlivesInv, CtlInv, Caught
    <3> QED
      BY <3>1, <3>2 DEF Releases
  <2>5. PvWritable(v, NoPv)
    BY <2>2, <2>3, <2>4 DEF PvWritable, Backed
  <2>6. /\ ObjectsInv' /\ ActiveInv'
        /\ Says(v, c) => Says(v, c)'
    BY <1>1, <2>1, <2>3, <2>5, OfferWritten
  <2>7. ctl'.v = v /\ ctl'.vol = c /\ ctl'.step = "dropVolume"
    BY <1>0, <1>1, <2>1 DEF Go, Control
  <2>8. SeenInv'
    BY <1>0, <1>1, <2>1, <2>6, <2>7 DEF WorkInv, SeenInv
  <2>9. NextInv'
    BY <2>7 DEF NextInv, Deploying
  <2> QED
    BY <2>6, <2>8, <2>9 DEF WorkInv
<1> QED
  BY <1>2, <1>3, <1>4

\* The other writers of a PersistentVolume.
LEMMA PvTouchedByOthers ==
  ASSUME StateInv, NEW v \in Volumes,
         \/ CreateForeignPv(v) \/ UserDeletePv(v) \/ Bind(v) \/ Release(v)
         \/ Offer(v) \/ Recover(v) \/ Unprotect(v) \/ PvFails(v)
  PROVE  UNCHANGED ctl /\ \E p \in Pv : TouchesPv(v, p)
<1>1. PICK p :
        /\ ChangePv(v, p)
        /\ \/ /\ p = [NoPv EXCEPT !.there = TRUE, !.phase = "Available",
                                  !.inuse = TRUE]
              /\ ~pv[v].there
           \/ p = CollectedPv([pv[v] EXCEPT !.deleting = TRUE])
           \/ /\ p = CollectedPv([pv[v] EXCEPT !.inuse = FALSE])
              /\ pv[v].deleting /\ pv[v].phase # "Bound"
           \/ /\ p = [pv[v] EXCEPT !.phase = "Bound"]
              /\ ~pv[v].deleting
           \/ \E phase \in PvPhases \ {"Bound"} : p = [pv[v] EXCEPT !.phase = phase]
  BY DEF CreateForeignPv, UserDeletePv, Bind, Release, Offer, Recover,
         Unprotect, PvFails, PvPhases
<1>2. SetPv(v, p) /\ UNCHANGED <<vol, vcache, jobs, inbox, Reported, ctl>>
  BY <1>1 DEF ChangePv, salt, Reported
<1> QED
  BY <1>1, <1>2, Touched

LEMMA OthersKeep ==
  ASSUME StateInv, NEW v \in Volumes,
         \/ CreateForeignPv(v) \/ UserDeletePv(v) \/ Bind(v) \/ Release(v)
         \/ Offer(v) \/ Recover(v) \/ Unprotect(v) \/ PvFails(v)
  PROVE  WorkInv'
BY PvTouchedByOthers, TouchKeeps

-----------------------------------------------------------------------------
(* A job is published.                                                      *)

\* What is known of the volumes that the new job is not for, and of those that
\* it does not prepare.
LEMMA PublishedElsewhere ==
  ASSUME TypeOK, InboxInv, NEW j \in Jids, NEW kind \in JobKinds, Spawn(j, kind),
         UNCHANGED <<vol, pv, Reported>>, NEW v \in Volumes
  PROVE  /\ v # ctl.v \/ kind # "prepare" => (Empty(v) => Empty(v)')
         /\ v # ctl.v => /\ Quiet(v) => Quiet(v)'
                         /\ \A c : Says(v, c) => Says(v, c)'
                         /\ \A s : Tracks(v, s) /\ s.job # j => Tracks(v, s)'
                         /\ \A k \in Jids \ {j} : Latest(v, k) => Latest(v, k)'
         /\ v = ctl.v => Latest(v, j)'
         /\ \A k \in Jids \ {j} : Active(k) /\ Harmless(v, k) => Harmless(v, k)'
<1>1. /\ InboxInv' /\ ~Active(j)
      /\ Len(inbox) \in Nat /\ Len(inbox') = Len(inbox) + 1
      /\ inbox'[Len(inbox) + 1] = j
      /\ \A i \in 1..Len(inbox) : inbox'[i] = inbox[i] /\ inbox[i] \in Jids \ {j}
      /\ jobs'[j].vol = ctl.v /\ jobs'[j].kind = kind /\ jobs'[j].state = "sent"
      /\ \A k \in Jids : k # j => jobs'[k] = jobs[k]
  BY Appended DEF Spawn
<1>2. \A i \in 1..Len(inbox') : i = Len(inbox) + 1 \/ i \in 1..Len(inbox)
  BY <1>1
<1>3. v # ctl.v \/ kind # "prepare" => (Empty(v) => Empty(v)')
  BY <1>1 DEF Empty, Active, Prepares
<1>4. v # ctl.v => (Quiet(v) => Quiet(v)')
  BY <1>1 DEF Quiet, Active
<1>5. ASSUME v # ctl.v, NEW k \in Jids, k # j, Latest(v, k)
      PROVE  Latest(v, k)'
  <2>1. ASSUME NEW i \in 1..Len(inbox'), jobs'[inbox'[i]].vol = v
        PROVE  \E n \in i..Len(inbox') : inbox'[n] = k
    <3>1. i \in 1..Len(inbox) /\ inbox'[i] = inbox[i] /\ jobs[inbox[i]].vol = v
      BY <1>1, <1>2, <1>5, <2>1
    <3>2. PICK n \in i..Len(inbox) : inbox[n] = k
      BY <1>5, <3>1 DEF Latest
    <3>3. n \in 1..Len(inbox) /\ n \in i..Len(inbox')
      BY <1>1, <3>1
    <3> QED
      BY <1>1, <3>2, <3>3
  <2>2. jobs'[k].vol = v
    BY <1>1, <1>5 DEF Latest
  <2>3. jobs'[k].state \in {"ok", "failed"} =>
          \A m \in Jids : jobs'[m].state = "running" => jobs'[m].vol # v
    BY <1>1, <1>5 DEF Latest
  <2> QED
    BY <2>1, <2>2, <2>3 DEF Latest
<1>6. ASSUME v = ctl.v
      PROVE  Latest(v, j)'
  <2>1. ASSUME NEW i \in 1..Len(inbox')
        PROVE  \E n \in i..Len(inbox') : inbox'[n] = j
    <3>1. Len(inbox) + 1 \in i..Len(inbox')
      BY <1>1, <2>1
    <3> QED
      BY <1>1, <3>1
  <2> QED
    BY <1>1, <1>6, <2>1 DEF Latest
<1>7. v # ctl.v => \A c : Says(v, c) => Says(v, c)'
  BY <1>3, <1>4 DEF Says
<1>8. v # ctl.v => \A s : Tracks(v, s) /\ s.job # j => Tracks(v, s)'
  BY <1>5 DEF Tracks
<1>9. ASSUME NEW k \in Jids \ {j}, Active(k), Harmless(v, k)
      PROVE  Harmless(v, k)'
  <2>1. \A m \in Jids : jobs'[m].state = "running" => ~Prepares(v, m)'
    BY <1>1, <1>9 DEF Harmless, Prepares
  <2>2. ASSUME NEW i \in 1..Len(inbox'), NEW m \in 1..Len(inbox'),
               inbox'[i] = k, Prepares(v, inbox[m])'
        PROVE  i < m
    <3>1. i \in 1..Len(inbox) /\ inbox[i] = k
      BY <1>1, <1>2, <2>2
    <3>2. CASE m = Len(inbox) + 1
      BY <1>1, <3>1, <3>2
    <3>3. CASE m \in 1..Len(inbox)
      <4>1. Prepares(v, inbox[m])
        BY <1>1, <2>2, <3>3 DEF Prepares
      <4> QED
        BY <1>9, <3>1, <3>3, <4>1 DEF Harmless
    <3> QED
      BY <1>2, <3>2, <3>3
  <2>3. \A i, m \in 1..Len(inbox') :
          inbox'[i] = k /\ Prepares(v, inbox[m])' => i < m
    BY <2>2
  <2> QED
    BY <1>9, <2>1, <2>3 DEF Harmless
<1> QED
  BY <1>3, <1>4, <1>5, <1>6, <1>7, <1>8, <1>9

\* What the reconciliation has seen when it publishes a job.
LEMMA SeenWhenPublished ==
  ASSUME StateInv, ctl.step \in JobKinds
  PROVE  /\ Exists(ctl.vol)
         /\ ctl.step = "prepare" =>
              /\ pv[ctl.v].owner = 0 /\ vol[ctl.v].status.job = ""
              /\ Waits(vol[ctl.v].status) /\ Waits(ctl.vol.status)
              /\ \A c \in {vol[ctl.v], vcache[ctl.v], ctl.vol} :
                   c.status.phase # "Terminating"
         /\ ctl.step = "unprepare" =>
              /\ pv[ctl.v].owner # 0 => ~pv[ctl.v].inuse
              /\ vol[ctl.v].fin => Finalizing(vol[ctl.v])
              /\ \A c \in {vol[ctl.v], vcache[ctl.v], ctl.vol} :
                   c.uid = vol[ctl.v].uid => ~Prepared(c.status)
              /\ ~(vol[ctl.v].status.phase = "Pending" /\ vol[ctl.v].status.job # "")
<1>1. /\ Exists(ctl.vol) /\ NextInv /\ SeenInv /\ ctl.v \in Volumes
      /\ ctl.step = "unprepare" => Finalizing(ctl.vol)
      /\ Copy(ctl.v, ctl.vol) /\ Caught(ctl.v, ctl.vol)
      /\ WellFormed(vol[ctl.v]) /\ Copy(ctl.v, vcache[ctl.v])
  BY DEF StateInv, WorkInv, OutlivesInv, StepInv, CtlInv, CacheInv, JobKinds,
         Reclaiming, TypeOK, Control
<1>2. CASE ctl.step = "prepare"
  <2>1. /\ pv[ctl.v].owner = 0 /\ vol[ctl.v].status = ctl.vol.status
        /\ ctl.vol.status.job = "" /\ Waits(ctl.vol.status)
        /\ vcache[ctl.v].status.phase # "Terminating"
    BY <1>1, <1>2 DEF NextInv, Deploying, Fresh
  <2>2. ctl.vol.status.phase # "Terminating"
    BY <2>1 DEF Waits
  <2> QED
    BY <1>1, <1>2, <2>1, <2>2
<1>3. CASE ctl.step = "unprepare"
  <2>1. /\ pv[ctl.v].owner # 0 => ~pv[ctl.v].inuse
        /\ Finalizing(ctl.vol) /\ ctl.step # "idle"
    BY <1>1, <1>3 DEF NextInv
  <2>2. vol[ctl.v].fin => Finalizing(vol[ctl.v]) /\ vol[ctl.v].uid = ctl.vol.uid
    BY <1>1, <2>1 DEF SeenInv, Copy, Onward
  <2>3. ~(vol[ctl.v].status.phase = "Pending" /\ vol[ctl.v].status.job # "")
    BY <1>1, <2>2 DEF WellFormed, Finalizing
  <2>4. ASSUME vcache[ctl.v].uid = vol[ctl.v].uid, Prepared(vcache[ctl.v].status)
        PROVE  FALSE
    <3>1. vcache[ctl.v].fin /\ ~Finalizing(vcache[ctl.v])
      BY <1>1, <2>4 DEF Copy, WellFormed, Prepared, Finalizing
    <3>2. vol[ctl.v].fin
      BY <1>1, <3>1 DEF Copy, Held
    <3> QED
      BY <1>1, <2>1, <2>2, <3>1, <3>2 DEF Caught
  <2>5. ~Prepared(vol[ctl.v].status) /\ ~Prepared(ctl.vol.status)
    BY <2>1, <2>3 DEF Prepared, Finalizing
  <2> QED
    BY <1>1, <1>3, <2>1, <2>2, <2>3, <2>4, <2>5
<1> QED
  BY <1>2, <1>3 DEF JobKinds

LEMMA SpawnsKeep ==
  ASSUME StateInv, TypeOK', NEW j \in Jids,
         PrepareVolume(j) \/ UnprepareVolume(j) \/ AnswerLost(j)
  PROVE  WorkInv'
<1>1. PICK kind \in JobKinds :
        /\ ctl.step = kind /\ Spawn(j, kind)
        /\ \/ ctl' = Idle
           \/ kind = "prepare" /\ GoSave(ctl, PendingStatus(j), "requeue")
           \/ kind = "unprepare" /\ GoSave(ctl, TerminatingStatus(j), "requeue")
  BY DEF PrepareVolume, UnprepareVolume, AnswerLost, JobKinds, Requeue, Finish
<1>2. UNCHANGED <<vol, vcache, pv, Reported>>
  BY ReportedKept DEF PrepareVolume, UnprepareVolume, AnswerLost, api, cache
<1>3. /\ TypeOK /\ InboxInv /\ ObjectsInv /\ ActiveInv /\ SeenInv /\ NextInv
      /\ ctl \in Control /\ ~Referenced(j)
  BY <1>1 DEF StateInv, WorkInv, EmptyInv, TypeOK, Spawn
<1>4. PICK v, c : v = ctl.v /\ c = ctl.vol /\ v \in Volumes
  BY <1>3 DEF Control
<1>5. ASSUME NEW u \in Volumes
      PROVE  /\ u # v \/ kind # "prepare" => (Empty(u) => Empty(u)')
             /\ u # v => /\ Quiet(u) => Quiet(u)'
                         /\ \A q : Says(u, q) => Says(u, q)'
                         /\ \A s : Tracks(u, s) /\ s.job # j => Tracks(u, s)'
             /\ u = v => Latest(u, j)'
             /\ \A k \in Jids \ {j} : Active(k) /\ Harmless(u, k) => Harmless(u, k)'
  BY <1>1, <1>2, <1>3, <1>4, PublishedElsewhere
<1>6. /\ Exists(c)
      /\ kind = "prepare" =>
           /\ pv[v].owner = 0 /\ vol[v].status.job = ""
           /\ Waits(vol[v].status) /\ Waits(c.status)
           /\ \A q \in {vol[v], vcache[v], c} : q.status.phase # "Terminating"
      /\ kind = "unprepare" =>
           /\ pv[v].owner # 0 => ~pv[v].inuse
           /\ vol[v].fin => Finalizing(vol[v])
           /\ \A q \in {vol[v], vcache[v], c} :
                q.uid = vol[v].uid => ~Prepared(q.status)
           /\ ~(vol[v].status.phase = "Pending" /\ vol[v].status.job # "")
  BY <1>1, <1>4, SeenWhenPublished
<1>7. /\ InboxInv' /\ jobs'[j].vol = v /\ jobs'[j].kind = kind
      /\ \A k \in Jids : k # j => jobs'[k] = jobs[k]
  BY <1>1, <1>3, <1>4, Appended
<1>8. ASSUME NEW q, q \in {vol[v], vcache[v], c}, Says(v, q)
      PROVE  Says(v, q)'
  <2>1. CASE kind = "prepare"
    BY <1>2, <1>6, <1>8, <2>1 DEF Says, Cleared
  <2>2. CASE kind = "unprepare"
    BY <1>2, <1>4, <1>5, <1>6, <1>8, <2>2 DEF Says
  <2> QED
    BY <2>1, <2>2 DEF JobKinds
<1>9. ObjectsInv'
  <2> SUFFICES ASSUME NEW u \in Volumes
               PROVE  /\ vol'[u].fin => vcache'[u].uid = vol'[u].uid
                      /\ Says(u, vol[u])' /\ Says(u, vcache[u])'
                      /\ Tracks(u, vol[u].status)'
                      /\ Backed(u, pv[u])'
    BY DEF ObjectsInv
  <2>1. PICK q, r : q = vol[u] /\ r = vcache[u]
    OBVIOUS
  <2>2. Says(u, q) /\ Says(u, r) /\ Tracks(u, q.status) /\ q.status.job # j
    BY <1>3, <2>1 DEF ObjectsInv, Referenced
  <2>3. Says(u, q)' /\ Says(u, r)'
    BY <1>5, <1>8, <2>1, <2>2
  <2>4. Tracks(u, q.status)'
    <3>1. CASE u # v
      BY <1>5, <2>2, <3>1
    <3>2. CASE u = v
      <4>1. ~(q.status.phase = "Pending" /\ q.status.job # "")
             \/ q.status.job = ""
        BY <1>6, <2>1, <3>2 DEF JobKinds
      <4> QED
        BY <4>1, JidAssumption DEF Tracks
    <3> QED
      BY <3>1, <3>2
  <2>5. Backed(u, pv[u])'
    BY <1>2, <1>3 DEF ObjectsInv, Backed
  <2> QED
    BY <1>2, <1>3, <2>1, <2>3, <2>4, <2>5 DEF ObjectsInv
<1>10. kind = "unprepare" => Reclaims(v)' \/ Harmless(v, j)'
  <2> SUFFICES ASSUME kind = "unprepare", ~Reclaims(v)
               PROVE  Harmless(v, j)'
    BY <1>2 DEF Reclaims
  <2>1. Empty(v)'
    BY <1>3, <1>4, <1>5, <1>6 DEF Reclaims, StateInv, EmptyInv, CurrentInv
  <2>2. \A i \in 1..Len(inbox') : inbox'[i] \in Jids
    BY DEF TypeOK
  <2>3. \A i \in 1..Len(inbox') : ~Prepares(v, inbox[i])'
    BY <1>7, <2>1, <2>2 DEF InboxInv, Empty, Active, Prepares
  <2> QED
    BY <2>1, <2>3 DEF Harmless, Empty, Active, Prepares
<1>11. ActiveInv'
  <2> SUFFICES ASSUME NEW k \in Jids, Active(k)'
               PROVE  /\ jobs'[k].kind = "prepare" => pv'[jobs'[k].vol].owner = 0
                      /\ jobs'[k].kind = "unprepare" =>
                           Reclaims(jobs[k].vol)' \/ Harmless(jobs[k].vol, k)'
    BY DEF ActiveInv
  <2>1. PICK u \in Volumes : u = jobs'[k].vol
    BY DEF TypeOK, Job
  <2>2. CASE k = j
    <3>1. u = v /\ jobs'[k].kind = kind
      BY <1>7, <2>1, <2>2
    <3>2. kind = "unprepare" => Reclaims(u)' \/ Harmless(u, k)'
      BY <1>10, <2>2, <3>1
    <3> QED
      BY <1>2, <1>6, <2>1, <3>1, <3>2
  <2>3. CASE k # j
    <3>1. Active(k) /\ jobs'[k] = jobs[k]
      BY <1>7, <2>3 DEF Active
    <3>2. Harmless(u, k) => Harmless(u, k)'
      BY <1>5, <2>3, <3>1
    <3>3. Reclaims(u) => Reclaims(u)'
      BY <1>2 DEF Reclaims
    <3>4. /\ jobs[k].kind = "prepare" => pv[u].owner = 0
          /\ jobs[k].kind = "unprepare" => Reclaims(u) \/ Harmless(u, k)
      BY <1>3, <2>1, <3>1 DEF ActiveInv
    <3> QED
      BY <1>2, <2>1, <3>1, <3>2, <3>3, <3>4
  <2> QED
    BY <2>2, <2>3
<1>12. CASE ctl' = Idle
  BY <1>9, <1>11, <1>12, NothingSeen DEF WorkInv
<1>13. ASSUME NEW s, GoSave(ctl, s, "requeue"), s.job = j,
              \/ kind = "prepare" /\ s.phase = "Pending"
              \/ s.phase = "Terminating"
       PROVE  WorkInv'
  <2>1. ctl'.v = v /\ ctl'.vol = c /\ ctl'.step = "save" /\ ctl'.next = s
    BY <1>3, <1>4, <1>13 DEF GoSave, Control
  <2>2. Says(v, c)'
    BY <1>3, <1>4, <1>8 DEF SeenInv
  <2>3. SeenInv'
    <3>1. ctl.step # "idle"
      BY <1>1 DEF JobKinds
    <3> QED
      BY <1>2, <1>3, <1>4, <2>1, <2>2, <3>1 DEF SeenInv
  <2>4. /\ Waits(s) => Waits(c.status)
        /\ ~Offered(s) /\ ~Prepared(s)
    BY <1>6, <1>13, JidAssumption DEF Waits, Offered, Prepared
  <2>5. Tracks(v, s)'
    BY <1>4, <1>5, <1>13 DEF Tracks
  <2>6. Tracks(ctl.v, ctl.next)'
    BY <2>1, <2>5
  <2>7. NextInv'
    BY <2>1, <2>4, <2>6 DEF NextInv, Deploying
  <2> QED
    BY <1>9, <1>11, <2>3, <2>7 DEF WorkInv
<1>14. /\ PendingStatus(j).job = j /\ PendingStatus(j).phase = "Pending"
       /\ TerminatingStatus(j).job = j /\ TerminatingStatus(j).phase = "Terminating"
  BY DEF PendingStatus, TerminatingStatus
<1> QED
  BY <1>1, <1>12, <1>13, <1>14

-----------------------------------------------------------------------------
(* The steps.                                                               *)

LEMMA InitKeeps == Init => WorkInv
<1> SUFFICES ASSUME Init PROVE WorkInv
  OBVIOUS
<1>1. /\ ctl.step = "idle" /\ ctl.vol = NoVolume /\ vcache = vol
      /\ \A v \in Volumes : vol[v] = NoVolume /\ pv[v] = NoPv
      /\ \A j \in Jids : jobs[j].state = "none"
  BY DEF Init
<1>2. \A j \in Jids : ~Active(j)
  BY <1>1 DEF Active
<1>3. /\ ~Exists(NoVolume) /\ ~NoVolume.fin /\ NoVolume.status = NewStatus
      /\ NoPv.owner = 0 /\ NewStatus.phase = ""
  BY DEF NoVolume, NoPv, Exists, NewStatus
<1>4. \A v : Says(v, NoVolume) /\ Tracks(v, NewStatus)
  BY <1>3 DEF Says, Tracks
<1>5. ObjectsInv
  BY <1>1, <1>3, <1>4 DEF ObjectsInv, Backed
<1>6. ActiveInv
  BY <1>2 DEF ActiveInv
<1>7. SeenInv /\ NextInv
  BY <1>1, <1>4 DEF SeenInv, NextInv, Deploying
<1> QED
  BY <1>5, <1>6, <1>7 DEF WorkInv

LEMMA StepKeeps ==
  ASSUME StateInv, TypeOK', OutlivesInv', EmptyInv', ~LagPv, [Next]_vars
  PROVE  WorkInv'
<1>1. CASE Worker
  <2>1. CASE Lookup
    BY <2>1, LookupKeeps
  <2>2. CASE (Save \/ Protect \/ DropVolume) /\ ~Refused
    BY <2>2, WritesKeep
  <2>3. CASE (FailPv \/ CreatePv \/ DeletePv \/ DropPv) /\ ~Refused
    BY <2>3, PvWritesKeep
  <2>4. CASE Poll \/ Size \/ Refused
    BY <2>4, CallsKeep
  <2>5. CASE \E j \in Jids : PrepareVolume(j) \/ UnprepareVolume(j)
    BY <2>5, SpawnsKeep
  <2> QED
    BY <1>1, <2>1, <2>2, <2>3, <2>4, <2>5 DEF Worker
<1>2. CASE Minion
  BY <1>2, StartKeeps, CompleteKeeps DEF Minion
<1>3. CASE \/ LoseMessage \/ MinionRestart \/ MasterRestart
           \/ \E j \in Jids : JobFails(j)
  BY <1>3, MinionFaultsKeep
<1>4. CASE CallFails \/ PollFails \/ SizeFails
  BY <1>4, CallsKeep
<1>5. CASE \E j \in Jids : AnswerLost(j)
  BY <1>5, SpawnsKeep
<1>6. CASE Crash
  BY <1>6, CachesKeep
<1>7. ASSUME NEW v \in Volumes, Fetch(v) \/ SyncVolume(v)
      PROVE  WorkInv'
  BY <1>7, FetchKeeps, CachesKeep
<1>8. ASSUME NEW v \in Volumes, SyncPv(v)
      PROVE  WorkInv'
  BY <1>8 DEF SyncPv
<1>9. ASSUME NEW v \in Volumes, Environment(v) \/ PvFails(v)
      PROVE  WorkInv'
  BY <1>9, UsersKeep, OthersKeep DEF Environment
<1>10. CASE UNCHANGED vars
  <2>1. /\ UNCHANGED <<vol, vcache, pv, jobs, inbox, Reported>> /\ ctl' = ctl
        /\ WorkInv /\ ctl.v \in Volumes
    BY <1>10, ReportedKept DEF vars, StateInv, TypeOK, Control
  <2>2. ObjectsInv' /\ ActiveInv'
    BY <2>1, ObjectsKept DEF WorkInv
  <2>3. PICK v, c, s : v = ctl.v /\ c = ctl.vol /\ s = ctl.next
    OBVIOUS
  <2>4. /\ Says(v, c) => Says(v, c)'
        /\ Tracks(v, s) => Tracks(v, s)'
        /\ Quiet(v) => Quiet(v)'
    BY <2>1, SaysKept
  <2>5. SeenInv'
    <3>1. Says(v, c)'
      BY <2>1, <2>3, <2>4 DEF WorkInv, SeenInv
    <3> QED
      BY <2>1, <2>3, <3>1 DEF WorkInv, SeenInv
  <2>6. /\ Fresh' <=> Fresh
        /\ Tracks(ctl.v, ctl.next)' <=> Tracks(v, s)'
        /\ Quiet(ctl.v)' <=> Quiet(v)'
    BY <2>1, <2>3 DEF Fresh
  <2>7. NextInv'
    BY <2>1, <2>3, <2>4, <2>6 DEF WorkInv, NextInv
  <2> QED
    BY <2>2, <2>5, <2>7 DEF WorkInv
<1> QED
  BY <1>1, <1>2, <1>3, <1>4, <1>5, <1>6, <1>7, <1>8, <1>9, <1>10
     DEF Next, FaultStep

LEMMA StateHolds ==
  ASSUME ~LagPv
  PROVE  Init => StateInv
BY InitTypes, InitOutlives, InitIsEmpty, InitKeeps DEF StateInv

LEMMA StateStays ==
  ASSUME ~LagPv, StateInv, [Next]_vars
  PROVE  StateInv'
<1>1. TypeOK' /\ EmptyInv'
  BY StepTypes, StepIsAllowed DEF StateInv
<1>2. OutlivesInv'
  BY <1>1, StepOutlives DEF StateInv
<1> QED
  BY <1>1, <1>2, StepKeeps DEF StateInv

\* A claim that can use the PersistentVolume of a Volume finds its storage
\* provisioned, whatever crashed, was lost or was done twice before, and however
\* late the cache of Volumes is.
THEOREM StorageIsBehindPv == ~LagPv /\ Spec => []StorageBehindPv
<1> SUFFICES ASSUME ~LagPv PROVE Spec => []StorageBehindPv
  OBVIOUS
<1>1. Init => StateInv
  BY StateHolds
<1>2. StateInv /\ [Next]_vars => StateInv'
  BY StateStays
<1>3. StateInv => StorageBehindPv
  BY DEF StateInv, WorkInv, ObjectsInv, Backed, StorageBehindPv, Reported
<1> QED
  BY <1>1, <1>2, <1>3, PTL DEF Spec

-----------------------------------------------------------------------------
(* What a step does to the objects and to the storage of the volumes.       *)

\* A Volume is created, is marked by its user, or only its status changes...
KeepsVolume(v, o) ==
  /\ SetVolume(v, o) /\ UNCHANGED <<pv, Reported>>
  /\ Exists(o) /\ (Exists(vol[v]) \/ ~o.deleting)
  /\ vol[v].deleting => o.deleting

\* ... or goes once nothing is left of it.
RemovesVolume(v) ==
  /\ SetVolume(v, NoVolume) /\ UNCHANGED <<pv, Reported>>
  /\ Exists(vol[v]) /\ Reported[v] = "raw" /\ pv[v].owner = 0

\* The PersistentVolume of a volume that is ready is made...
PublishesPv(v, p) ==
  /\ SetPv(v, p) /\ UNCHANGED <<vol, Reported>>
  /\ p.owner # 0 /\ p.inuse
  /\ pv[v].owner = 0 /\ Reported[v] = "ready" /\ Exists(vol[v])

\* ... and goes with its storage.
WithdrawsPv(v) ==
  /\ SetPv(v, NoPv) /\ UNCHANGED <<vol, Reported>>
  /\ pv[v].owner # 0 /\ ~pv[v].inuse /\ Reported[v] = "raw"
  /\ vol[v].deleting /\ Exists(vol[v])

\* The storage of at most one volume changes, by one of its jobs.
StorageStep ==
  /\ RunsAJob /\ UNCHANGED <<vol, pv>>
  /\ \E v \in Volumes : \A u \in Volumes : u # v => Reported'[u] = Reported[u]

Change(v) ==
  \/ \E o \in Volume : KeepsVolume(v, o)
  \/ RemovesVolume(v)
  \/ \E p \in Pv : TouchesPv(v, p) \/ PublishesPv(v, p)
  \/ WithdrawsPv(v)

LEMMA WorkerChanges ==
  ASSUME StateInv, Worker
  PROVE  UNCHANGED <<vol, pv, Reported>> \/ \E v \in Volumes : Change(v)
<1>0. TypeOK /\ ctl.v \in Volumes /\ ctl.vol \in Volume /\ ctl.next \in Status
  BY DEF StateInv, TypeOK, Control
<1>1. CASE \/ Lookup \/ Poll \/ Size \/ Refused
           \/ \E j \in Jids : PrepareVolume(j) \/ UnprepareVolume(j)
  BY <1>1 DEF Lookup, Poll, Size, Refused, PrepareVolume, UnprepareVolume, api, salt, Reported
<1>2. ASSUME ctl.step # "idle", vol[ctl.v] = ctl.vol, UNCHANGED <<pv, Reported>>,
             NEW o \in Volume, SetVolume(ctl.v, o), o.uid = ctl.vol.uid,
             o.deleting = ctl.vol.deleting
      PROVE  Change(ctl.v)
  <2>1. Exists(ctl.vol)
    BY <1>2 DEF StateInv, OutlivesInv, StepInv
  <2> QED
    BY <1>2, <2>1 DEF Change, KeepsVolume, Exists
<1>3. CASE Save /\ ~Refused
  <2> DEFINE o == [ctl.vol EXCEPT !.status = ctl.next]
  <2>1. o \in Volume /\ o.uid = ctl.vol.uid /\ o.deleting = ctl.vol.deleting
    BY <1>0, VolumeTypes DEF Volume
  <2>2. /\ ctl.step = "save" /\ vol[ctl.v] = ctl.vol /\ SetVolume(ctl.v, o)
        /\ UNCHANGED <<pv, Reported>>
    BY <1>3 DEF Save, salt, Reported
  <2> HIDE DEF o
  <2> QED
    BY <1>0, <1>2, <2>1, <2>2
<1>4. CASE Protect /\ ~Refused
  <2> DEFINE o == [ctl.vol EXCEPT !.fin = TRUE]
  <2>1. o \in Volume /\ o.uid = ctl.vol.uid /\ o.deleting = ctl.vol.deleting
    BY <1>0, VolumeTypes DEF Volume
  <2>2. /\ ctl.step = "protect" /\ vol[ctl.v] = ctl.vol /\ SetVolume(ctl.v, o)
        /\ UNCHANGED <<pv, Reported>>
    BY <1>4 DEF Protect, salt, Reported
  <2> HIDE DEF o
  <2> QED
    BY <1>0, <1>2, <2>1, <2>2
<1>5. CASE DropVolume /\ ~Refused
  BY <1>0, <1>5, DropVolumeWrites DEF Change, RemovesVolume, Empty
<1>6. CASE (FailPv /\ ~Refused) \/ DeletePv
  BY <1>0, <1>6, PvTouchedByWorker DEF Change
<1>7. CASE CreatePv /\ ~Refused
  BY <1>0, <1>7, CreatePvWrites DEF Change, PublishesPv
<1>8. CASE DropPv /\ ~Refused
  BY <1>0, <1>8, DropPvWrites DEF Change, WithdrawsPv, Finalizing
<1> QED
  BY <1>0, <1>1, <1>3, <1>4, <1>5, <1>6, <1>7, <1>8 DEF Worker

LEMMA EnvironmentChanges ==
  ASSUME StateInv, TypeOK', NEW v \in Volumes, Environment(v) \/ PvFails(v)
  PROVE  Change(v)
<1>1. CASE CreateVolume(v) \/ DeleteVolume(v)
  <2>1. PICK o \in Volume :
          /\ SetVolume(v, o)
          /\ \/ vol[v].fin /\ o.uid = vol[v].uid /\ o.deleting
             \/ /\ ~vol[v].fin /\ ~o.fin /\ o.status = NewStatus /\ ~o.deleting
                /\ Exists(o) <=> ~Exists(vol[v])
                /\ ~Exists(o) => o = NoVolume
    BY <1>1, UserWrites
  <2>2. UNCHANGED <<pv, Reported>>
    BY <1>1, CreateReports, ReportedKept DEF StateInv, CreateVolume, DeleteVolume, salt
  <2>3. /\ vol[v].deleting => vol[v].fin
        /\ vol[v].fin => Exists(vol[v])
        /\ ~vol[v].fin => Reported[v] = "raw" /\ pv[v].owner = 0
    BY DEF StateInv, OutlivesInv, CacheInv, WellFormed, PvInv, EmptyInv,
           CurrentInv, Empty
  <2>4. CASE Exists(o)
    BY <2>1, <2>2, <2>3, <2>4 DEF Change, KeepsVolume, Exists
  <2>5. CASE ~Exists(o)
    BY <2>1, <2>2, <2>3, <2>5 DEF Change, RemovesVolume, Exists
  <2> QED
    BY <2>4, <2>5
<1>2. CASE \/ CreateForeignPv(v) \/ UserDeletePv(v) \/ Bind(v) \/ Release(v)
           \/ Offer(v) \/ Recover(v) \/ Unprotect(v) \/ PvFails(v)
  BY <1>2, PvTouchedByOthers DEF Change
<1> QED
  BY <1>1, <1>2 DEF Environment

LEMMA MinionChanges ==
  ASSUME StateInv, Minion
  PROVE  StorageStep
<1>1. RunsAJob
  BY StartKeeps, CompleteKeeps DEF Minion
<1>2. UNCHANGED <<vol, pv>>
  BY DEF Minion, Start, Complete, api
<1>3. \/ UNCHANGED Reported
      \/ \E u : \E x : Reported' = [Reported EXCEPT ![u] = x]
  BY StartReports, CompleteReports DEF StateInv, Minion
<1>4. \A u, x, w : w \in Volumes /\ w # u => [Reported EXCEPT ![u] = x][w] = Reported[w]
  BY ReportedTypes DEF StateInv
<1>5. ASSUME NEW u, NEW x, Reported' = [Reported EXCEPT ![u] = x]
      PROVE  \E v \in Volumes : \A w \in Volumes : w # v => Reported'[w] = Reported[w]
  <2>1. ctl.v \in Volumes
    BY DEF StateInv, TypeOK, Control
  <2>2. CASE u \in Volumes
    BY <1>4, <1>5, <2>2
  <2>3. CASE u \notin Volumes
    BY <1>4, <1>5, <2>1, <2>3
  <2> QED
    BY <2>2, <2>3
<1>6. ctl.v \in Volumes
  BY DEF StateInv, TypeOK, Control
<1> QED
  BY <1>1, <1>2, <1>3, <1>5, <1>6 DEF StorageStep

LEMMA StepChanges ==
  ASSUME StateInv, TypeOK', [Next]_vars
  PROVE  \/ UNCHANGED <<vol, pv, Reported>>
         \/ StorageStep
         \/ \E v \in Volumes : Change(v)
<1>1. CASE Worker
  BY <1>1, WorkerChanges
<1>2. CASE Minion
  BY <1>2, MinionChanges
<1>3. CASE \/ LoseMessage \/ MinionRestart \/ MasterRestart
           \/ \E j \in Jids : JobFails(j) \/ AnswerLost(j)
           \/ CallFails \/ PollFails \/ SizeFails \/ Crash
  BY <1>3 DEF LoseMessage, MinionRestart, MasterRestart, JobFails, AnswerLost,
              CallFails, PollFails, SizeFails, Crash, api, salt, Reported
<1>4. ASSUME NEW v \in Volumes, Fetch(v) \/ SyncVolume(v) \/ SyncPv(v)
      PROVE  UNCHANGED <<vol, pv, Reported>>
  BY <1>4 DEF Fetch, SyncVolume, SyncPv, api, salt, Reported
<1>5. ASSUME NEW v \in Volumes, Environment(v) \/ PvFails(v)
      PROVE  Change(v)
  BY <1>5, EnvironmentChanges
<1>6. CASE UNCHANGED vars
  BY <1>6, ReportedKept DEF vars
<1> QED
  BY <1>1, <1>2, <1>3, <1>4, <1>5, <1>6 DEF Next, FaultStep

LEMMA UnchangedDisk ==
  ASSUME NEW v, Change(v)
  PROVE  UNCHANGED Reported
BY DEF Change, KeepsVolume, RemovesVolume, TouchesPv, PublishesPv, WithdrawsPv

LEMMA DestroyedForDeleted ==
  ASSUME StateInv, StateInv', [Next]_vars, NEW v \in Volumes,
         Reported[v] = "ready", Reported'[v] # "ready"
  PROVE  /\ vol[v].deleting
         /\ pv[v].owner # 0 => pv[v].deleting /\ pv[v].phase # "Bound"
<1>1. StorageStep
  BY StepChanges, UnchangedDisk DEF StateInv
<1>2. Reclaims(v)
  BY <1>1, RunsForGood DEF StorageStep, StateInv, WorkInv
<1>3. Backed(v, pv[v])
  BY DEF StateInv, WorkInv, ObjectsInv
<1> QED
  BY <1>2, <1>3 DEF Reclaims, Finalizing, Backed

\* No job destroys a provisioned storage unless its Volume is being deleted
\* and its PersistentVolume, if there is one, is deleted and unbound.
THEOREM DestroyedWhenUnused == ~LagPv /\ Spec => DestroyedOnlyWhenUnused
<1> SUFFICES ASSUME ~LagPv PROVE Spec => DestroyedOnlyWhenUnused
  OBVIOUS
<1>1. Init => StateInv
  BY StateHolds
<1>2. StateInv /\ [Next]_vars => StateInv'
  BY StateStays
<1> DEFINE Destroys ==
      \A v \in Volumes :
        Reported[v] = "ready" /\ Reported'[v] # "ready" =>
          /\ vol[v].deleting
          /\ pv[v].owner # 0 => pv[v].deleting /\ pv[v].phase # "Bound"
<1>3. StateInv /\ StateInv' /\ [Next]_vars => [Destroys]_vars
  BY DestroyedForDeleted
<1>4. Spec => [][Destroys]_vars
  <2> HIDE DEF Destroys
  <2> QED
    BY <1>1, <1>2, <1>3, PTL DEF Spec
<1>5. [Destroys]_vars =>
        [\A v \in Volumes :
           disk[v] = "ready" /\ disk'[v] # "ready" =>
             /\ vol[v].deleting
             /\ pv[v].owner # 0 => pv[v].deleting /\ pv[v].phase # "Bound"]_vars
  BY DEF Reported
<1> HIDE DEF Destroys
<1> QED
  BY <1>4, <1>5, PTL DEF DestroyedOnlyWhenUnused

-----------------------------------------------------------------------------
(* The operator implements the lifecycle.                                   *)

\* The state functions the lifecycle is stated with.
ObjectOf(v) == IF ~Exists(vol[v]) THEN "none"
               ELSE IF vol[v].deleting THEN "deleting" ELSE "live"
OfferOf(v) == IF pv[v].owner = 0 THEN "none"
              ELSE IF pv[v].inuse THEN "open" ELSE "closed"
Objects == [v \in Volumes |-> ObjectOf(v)]
Offers  == [v \in Volumes |-> OfferOf(v)]

LEMMA OneObjectChanges ==
  ASSUME NEW v \in Volumes, \A u \in Volumes : u # v => vol'[u] = vol[u]
  PROVE  Objects' = [Objects EXCEPT ![v] = ObjectOf(v)']
BY DEF Objects, ObjectOf

LEMMA OneOfferChanges ==
  ASSUME NEW v \in Volumes, \A u \in Volumes : u # v => pv'[u] = pv[u]
  PROVE  Offers' = [Offers EXCEPT ![v] = OfferOf(v)']
BY DEF Offers, OfferOf

LEMMA NoObjectChanges ==
  ASSUME UNCHANGED vol
  PROVE  UNCHANGED Objects
BY DEF Objects, ObjectOf

LEMMA NoOfferChanges ==
  ASSUME UNCHANGED pv
  PROVE  UNCHANGED Offers
BY DEF Offers, OfferOf

\* The steps of the lifecycle, in these terms.
LEMMA LifecycleSteps ==
  ASSUME NEW v \in Volumes
  PROVE  /\ /\ Objects[v] = "none" /\ UNCHANGED <<Offers, Reported>>
            /\ Objects' = [Objects EXCEPT ![v] = "live"]
            => Lifecycle!Create(v)
         /\ /\ Objects[v] = "live" /\ UNCHANGED <<Offers, Reported>>
            /\ Objects' = [Objects EXCEPT ![v] = "deleting"]
            => Lifecycle!Delete(v)
         /\ /\ Objects[v] # "none" /\ Offers[v] = "none" /\ Reported[v] = "raw"
            /\ Objects' = [Objects EXCEPT ![v] = "none"] /\ UNCHANGED <<Offers, Reported>>
            => Lifecycle!Forget(v)
         /\ /\ Objects[v] # "none" /\ Offers[v] = "none" /\ Reported[v] # "ready"
            /\ \E s \in {"dirty", "ready"} : Reported' = [Reported EXCEPT ![v] = s]
            /\ UNCHANGED <<Objects, Offers>>
            => Lifecycle!Provision(v)
         /\ /\ Objects[v] # "none" /\ Offers[v] = "none" /\ Reported[v] = "ready"
            /\ Offers' = [Offers EXCEPT ![v] = "open"] /\ UNCHANGED <<Objects, Reported>>
            => Lifecycle!Publish(v)
         /\ /\ Offers[v] = "open" /\ UNCHANGED <<Objects, Reported>>
            /\ Offers' = [Offers EXCEPT ![v] = "closed"]
            => Lifecycle!Close(v)
         /\ /\ Objects[v] = "deleting" /\ Offers[v] # "open"
            /\ \E s \in {"dirty", "raw"} : Reported' = [Reported EXCEPT ![v] = s]
            /\ UNCHANGED <<Objects, Offers>>
            => Lifecycle!Reclaim(v)
         /\ /\ Objects[v] = "deleting" /\ Offers[v] = "closed" /\ Reported[v] = "raw"
            /\ Offers' = [Offers EXCEPT ![v] = "none"] /\ UNCHANGED <<Objects, Reported>>
            => Lifecycle!Withdraw(v)
BY DEF Lifecycle!Create, Lifecycle!Delete, Lifecycle!Forget, Lifecycle!Provision,
       Lifecycle!Publish, Lifecycle!Close, Lifecycle!Reclaim, Lifecycle!Withdraw,
       Lifecycle!Set, Objects, ObjectOf, Offers, OfferOf

LEMMA NextOfLifecycle ==
  Lifecycle!Next <=>
    \E v \in Volumes :
      \/ Lifecycle!Create(v) \/ Lifecycle!Delete(v) \/ Lifecycle!Forget(v)
      \/ Lifecycle!Provision(v) \/ Lifecycle!Publish(v) \/ Lifecycle!Close(v)
      \/ Lifecycle!Reclaim(v) \/ Lifecycle!Withdraw(v)
BY DEF Lifecycle!Next

LEMMA Stutters ==
  ASSUME UNCHANGED <<Objects, Offers, Reported>>
  PROVE  UNCHANGED Lifecycle!vars
BY DEF Lifecycle!vars, Objects, ObjectOf, Offers, OfferOf

LEMMA ValuesOf ==
  ASSUME NEW v \in Volumes
  PROVE  Objects[v] = ObjectOf(v) /\ Offers[v] = OfferOf(v)
BY DEF Objects, Offers

\* The volume is created, is marked by its user, or only its status changes.
LEMMA KeptImplements ==
  ASSUME TypeOK, NEW v \in Volumes, NEW o \in Volume, KeepsVolume(v, o)
  PROVE  [Lifecycle!Next]_(Lifecycle!vars)
<1>1. /\ vol'[v] = o /\ \A u \in Volumes : u # v => vol'[u] = vol[u]
      /\ UNCHANGED <<pv, Reported>> /\ Exists(o)
      /\ Exists(vol[v]) \/ ~o.deleting
      /\ vol[v].deleting => o.deleting
  BY DEF KeepsVolume, SetVolume, TypeOK
<1>2. /\ Objects' = [Objects EXCEPT ![v] = ObjectOf(v)']
      /\ UNCHANGED <<Offers, Reported>>
  BY <1>1, OneObjectChanges, NoOfferChanges
<1>3. ObjectOf(v)' = IF o.deleting THEN "deleting" ELSE "live"
  BY <1>1 DEF ObjectOf
<1>4. CASE ~Exists(vol[v])
  <2>1. Objects[v] = "none" /\ ObjectOf(v)' = "live"
    BY <1>1, <1>3, <1>4, ValuesOf DEF ObjectOf
  <2> QED
    BY <1>2, <2>1, LifecycleSteps, NextOfLifecycle
<1>5. CASE Exists(vol[v]) /\ ~vol[v].deleting /\ o.deleting
  <2>1. Objects[v] = "live" /\ ObjectOf(v)' = "deleting"
    BY <1>1, <1>3, <1>5, ValuesOf DEF ObjectOf
  <2> QED
    BY <1>2, <2>1, LifecycleSteps, NextOfLifecycle
<1>6. CASE Exists(vol[v]) /\ (vol[v].deleting <=> o.deleting)
  <2>1. Objects[v] = ObjectOf(v)'
    BY <1>1, <1>3, <1>6, ValuesOf DEF ObjectOf
  <2>2. Objects' = Objects
    BY <1>2, <2>1 DEF Objects
  <2> QED
    BY <1>2, <2>2, Stutters
<1> QED
  BY <1>1, <1>4, <1>5, <1>6

LEMMA RemovedImplements ==
  ASSUME TypeOK, NEW v \in Volumes, RemovesVolume(v)
  PROVE  Lifecycle!Next
<1>1. /\ vol'[v] = NoVolume /\ \A u \in Volumes : u # v => vol'[u] = vol[u]
      /\ UNCHANGED <<pv, Reported>>
      /\ Exists(vol[v]) /\ Reported[v] = "raw" /\ pv[v].owner = 0
  BY DEF RemovesVolume, SetVolume, TypeOK
<1>2. /\ Objects' = [Objects EXCEPT ![v] = ObjectOf(v)']
      /\ UNCHANGED <<Offers, Reported>>
  BY <1>1, OneObjectChanges, NoOfferChanges
<1>3. ObjectOf(v)' = "none" /\ Objects[v] # "none" /\ Offers[v] = "none"
  BY <1>1, ValuesOf DEF ObjectOf, OfferOf, Exists, NoVolume
<1> QED
  BY <1>1, <1>2, <1>3, LifecycleSteps, NextOfLifecycle

\* A PersistentVolume leaves its protection, or only its state changes.
LEMMA TouchedImplements ==
  ASSUME TypeOK, NEW v \in Volumes, NEW p \in Pv, TouchesPv(v, p)
  PROVE  [Lifecycle!Next]_(Lifecycle!vars)
<1>1. /\ pv'[v] = p /\ \A u \in Volumes : u # v => pv'[u] = pv[u]
      /\ UNCHANGED <<vol, Reported>>
      /\ p.owner = pv[v].owner
      /\ p.owner # 0 /\ p.inuse => pv[v].inuse
  BY DEF TouchesPv, SetPv, TypeOK
<1>2. /\ Offers' = [Offers EXCEPT ![v] = OfferOf(v)']
      /\ UNCHANGED <<Objects, Reported>>
  BY <1>1, OneOfferChanges, NoObjectChanges
<1>3. OfferOf(v)' = IF p.owner = 0 THEN "none"
                    ELSE IF p.inuse THEN "open" ELSE "closed"
  BY <1>1 DEF OfferOf
<1>4. CASE p.owner # 0 /\ ~p.inuse /\ pv[v].inuse
  <2>1. Offers[v] = "open" /\ OfferOf(v)' = "closed"
    BY <1>1, <1>3, <1>4, ValuesOf DEF OfferOf
  <2> QED
    BY <1>2, <2>1, LifecycleSteps, NextOfLifecycle
<1>5. CASE p.owner = 0 \/ (p.inuse <=> pv[v].inuse)
  <2>1. Offers[v] = OfferOf(v)'
    BY <1>1, <1>3, <1>5, ValuesOf DEF OfferOf
  <2>2. Offers' = Offers
    BY <1>2, <2>1 DEF Offers
  <2> QED
    BY <1>2, <2>2, Stutters
<1> QED
  BY <1>1, <1>4, <1>5

LEMMA PublishedImplements ==
  ASSUME TypeOK, NEW v \in Volumes, NEW p \in Pv, PublishesPv(v, p)
  PROVE  Lifecycle!Next
<1>1. /\ pv'[v] = p /\ \A u \in Volumes : u # v => pv'[u] = pv[u]
      /\ UNCHANGED <<vol, Reported>>
      /\ p.owner # 0 /\ p.inuse
      /\ pv[v].owner = 0 /\ Reported[v] = "ready" /\ Exists(vol[v])
  BY DEF PublishesPv, SetPv, TypeOK
<1>2. /\ Offers' = [Offers EXCEPT ![v] = OfferOf(v)']
      /\ UNCHANGED <<Objects, Reported>>
  BY <1>1, OneOfferChanges, NoObjectChanges
<1>3. OfferOf(v)' = "open" /\ Objects[v] # "none" /\ Offers[v] = "none"
  BY <1>1, ValuesOf DEF ObjectOf, OfferOf
<1> QED
  BY <1>1, <1>2, <1>3, LifecycleSteps, NextOfLifecycle

LEMMA WithdrawnImplements ==
  ASSUME TypeOK, NEW v \in Volumes, WithdrawsPv(v)
  PROVE  Lifecycle!Next
<1>1. /\ pv'[v] = NoPv /\ \A u \in Volumes : u # v => pv'[u] = pv[u]
      /\ UNCHANGED <<vol, Reported>>
      /\ pv[v].owner # 0 /\ ~pv[v].inuse /\ Reported[v] = "raw"
      /\ vol[v].deleting /\ Exists(vol[v])
  BY DEF WithdrawsPv, SetPv, TypeOK
<1>2. /\ Offers' = [Offers EXCEPT ![v] = OfferOf(v)']
      /\ UNCHANGED <<Objects, Reported>>
  BY <1>1, OneOfferChanges, NoObjectChanges
<1>3. OfferOf(v)' = "none" /\ Objects[v] = "deleting" /\ Offers[v] = "closed"
  BY <1>1, ValuesOf DEF ObjectOf, OfferOf, NoPv
<1> QED
  BY <1>1, <1>2, <1>3, LifecycleSteps, NextOfLifecycle

\* A job provisions or reclaims.
LEMMA StorageImplements ==
  ASSUME StateInv, TypeOK', StorageStep
  PROVE  [Lifecycle!Next]_(Lifecycle!vars)
<1>0. TypeOK /\ ActiveInv
  BY DEF StateInv, WorkInv
<1>1. UNCHANGED <<Objects, Offers>>
  BY NoObjectChanges, NoOfferChanges DEF StorageStep
<1>2. PICK v \in Volumes : \A u \in Volumes : u # v => Reported'[u] = Reported[u]
  BY DEF StorageStep
<1>3. Reported' = [Reported EXCEPT ![v] = Reported'[v]]
  <2>1. Reported' \in [Volumes -> {"raw", "dirty", "ready"}]
    BY DEF TypeOK, Reported, Storage
  <2> QED
    BY <1>0, <1>2, <2>1, ReportedTypes
<1>4. CASE Reported'[v] = Reported[v]
  <2>1. Reported' = Reported
    BY <1>0, <1>3, <1>4, ReportedTypes
  <2> QED
    BY <1>1, <2>1, Stutters
<1>5. CASE Reported'[v] # Reported[v]
  <2>1. PICK j \in Jids :
          /\ Active(j) /\ jobs[j].vol = v
          /\ \/ /\ jobs[j].kind = "prepare" /\ pv[v].owner = 0
                /\ Reported[v] # "ready" /\ Reported'[v] \in {"dirty", "ready"}
             \/ /\ jobs[j].kind = "unprepare" /\ Reclaims(v)
                /\ Reported[v] # "raw" /\ Reported'[v] \in {"dirty", "raw"}
    BY <1>0, <1>5, RunsForGood DEF StorageStep
  <2>2. /\ vol[v].deleting => vol[v].fin
        /\ vol[v].fin => Exists(vol[v])
        /\ ~vol[v].fin => Empty(v)
    BY DEF StateInv, OutlivesInv, CacheInv, WellFormed, EmptyInv, CurrentInv
  <2>3. CASE /\ jobs[j].kind = "prepare" /\ pv[v].owner = 0
             /\ Reported[v] # "ready" /\ Reported'[v] \in {"dirty", "ready"}
    <3>1. Objects[v] # "none" /\ Offers[v] = "none"
      BY <2>1, <2>2, <2>3, ValuesOf DEF ObjectOf, OfferOf, Empty, Prepares
    <3> QED
      BY <1>1, <1>3, <2>3, <3>1, LifecycleSteps, NextOfLifecycle
  <2>4. CASE Reclaims(v) /\ Reported'[v] \in {"dirty", "raw"}
    <3>1. Objects[v] = "deleting" /\ Offers[v] # "open"
      BY <2>2, <2>4, ValuesOf DEF ObjectOf, OfferOf, Reclaims, Finalizing
    <3> QED
      BY <1>1, <1>3, <2>4, <3>1, LifecycleSteps, NextOfLifecycle
  <2> QED
    BY <2>1, <2>3, <2>4
<1> QED
  BY <1>4, <1>5

LEMMA StepImplements ==
  ASSUME StateInv, StateInv', [Next]_vars
  PROVE  [Lifecycle!Next]_(Lifecycle!vars)
<1>1. CASE UNCHANGED <<vol, pv, Reported>>
  BY <1>1, NoObjectChanges, NoOfferChanges, Stutters
<1>2. CASE StorageStep
  BY <1>2, StorageImplements DEF StateInv
<1>3. ASSUME NEW v \in Volumes, Change(v)
      PROVE  [Lifecycle!Next]_(Lifecycle!vars)
  BY <1>3, KeptImplements, RemovedImplements, TouchedImplements,
     PublishedImplements, WithdrawnImplements DEF Change, StateInv
<1> QED
  BY <1>1, <1>2, <1>3, StepChanges DEF StateInv

LEMMA InitImplements == Init => Lifecycle!Init
<1> SUFFICES ASSUME Init PROVE Lifecycle!Init
  OBVIOUS
<1>1. \A v \in Volumes : ~Exists(vol[v]) /\ pv[v].owner = 0
  BY DEF Init, Exists, NoVolume, NoPv
<1>2. Reported = [v \in Volumes |-> "raw"]
  BY DEF Init, Reported
<1> QED
  BY <1>1, <1>2 DEF Lifecycle!Init

\* The operator, with all that may fail around it, implements the lifecycle it
\* promises: every step is a step of VolumeLifecycle or changes nothing of it.
THEOREM ImplementsLifecycle == ~LagPv /\ Spec => LifecycleSpec
<1> SUFFICES ASSUME ~LagPv PROVE Spec => LifecycleSpec
  OBVIOUS
<1>1. Init => StateInv /\ Lifecycle!Init
  BY StateHolds, InitImplements
<1>2. StateInv /\ [Next]_vars => StateInv'
  BY StateStays
<1>3. StateInv /\ StateInv' /\ [Next]_vars => [Lifecycle!Next]_(Lifecycle!vars)
  BY StepImplements
<1> QED
  BY <1>1, <1>2, <1>3, PTL DEF Spec, LifecycleSpec, Lifecycle!Spec

-----------------------------------------------------------------------------
(* A cache of Volumes that is not late, however late the other one is.  The   *)
(* reconciliation then works on the status that the Volume has, and the job  *)
(* that a status names is the last one of the volume.                        *)

\* A job that is done, or one in progress, is the last one.  That of a failed
\* Volume is, until the Volume is deleted.
Last(v, s, deleting) ==
  /\ s.job = "DONE" /\ s.phase # "Failed" => Quiet(v)
  /\ s.job \in Jids /\ (s.phase = "Failed" => ~deleting) => Latest(v, s.job)

\* A Volume that was worked on has our finalizer.
Marked(o) == o.deleting \/ o.status.job # "" => o.fin

LastInv ==
  /\ vcache = vol
  /\ \A v \in Volumes : /\ Marked(vol[v])
                        /\ Last(v, vol[v].status, vol[v].deleting)

\* The copy is not outdated: only a deletion may have come since.
Recent == /\ vol[ctl.v].uid = ctl.vol.uid /\ vol[ctl.v].fin = ctl.vol.fin
          /\ vol[ctl.v].status = ctl.vol.status
          /\ ctl.vol.deleting => vol[ctl.v].deleting

RecentInv ==
  /\ Marked(ctl.vol)
  /\ ctl.step # "idle" /\ ctl.vol.fin => Recent
  /\ ctl.step \in {"protect", "prepare"} => ctl.vol.status.job = ""
  /\ ctl.step = "prepare" => ctl.vol.fin
  /\ ctl.step = "unprepare" => CurrentJob(ctl.vol) = ""
  /\ ctl.step = "save" =>
       /\ ctl.next.job # "" => ctl.vol.fin
       /\ vol[ctl.v].deleting = ctl.vol.deleting =>
            Last(ctl.v, ctl.next, ctl.vol.deleting)

QuietInv == LastInv /\ RecentInv

\* No job is published.
JobsStay ==
  \A v \in Volumes : /\ Quiet(v) => Quiet(v)'
                     /\ \A j \in Jids : Latest(v, j) => Latest(v, j)'

LEMMA JobsDoStay ==
  /\ Settles => JobsStay
  /\ UNCHANGED <<jobs, inbox>> => JobsStay
<1>1. Settles => JobsStay
  BY DEF Settles, SameJobs, JobsStay, Quiet
<1>2. UNCHANGED <<jobs, inbox>> => JobsStay
  BY DEF JobsStay, Quiet, Latest, Active
<1> QED
  BY <1>1, <1>2

LEMMA LastKept ==
  ASSUME JobsStay, NEW v \in Volumes, NEW s, NEW d \in BOOLEAN, Last(v, s, d)
  PROVE  Last(v, s, d)'
BY DEF Last, JobsStay

LEMMA LastStays ==
  ASSUME TypeOK, LastInv, JobsStay, UNCHANGED vol, vcache' \in {vol, vcache}
  PROVE  LastInv'
<1>1. ASSUME NEW v \in Volumes
      PROVE  Last(v, vol[v].status, vol[v].deleting)'
  <2>1. PICK s, d : s = vol[v].status /\ d = vol[v].deleting /\ d \in BOOLEAN
    BY DEF TypeOK, Volume
  <2>2. Last(v, s, d)'
    BY <2>1, LastKept DEF LastInv
  <2> QED
    BY <2>1, <2>2
<1> QED
  BY <1>1 DEF LastInv, Marked

\* A reconciliation that ends, or that has not done anything.
LEMMA StoppedIsRecent ==
  ASSUME ctl'.step = "idle", ctl'.vol = NoVolume
  PROVE  RecentInv'
<1>1. ~NoVolume.deleting /\ NoVolume.status = NewStatus
  BY DEF NoVolume
<1>2. NewStatus.job = ""
  BY DEF NewStatus
<1> QED
  BY <1>1, <1>2 DEF RecentInv, Marked

LEMMA IdleIsRecent == ASSUME ctl' = Idle PROVE RecentInv'
BY StoppedIsRecent DEF Idle

LEMMA RecentStays ==
  ASSUME TypeOK, RecentInv, JobsStay, UNCHANGED vol, ctl' \in {ctl, Idle}
  PROVE  RecentInv'
<1>1. CASE ctl' = ctl
  <2>1. PICK v, s, d : /\ v = ctl.v /\ s = ctl.next /\ d = ctl.vol.deleting
                       /\ v \in Volumes /\ d \in BOOLEAN
    BY DEF TypeOK, Control, Volume
  <2>2. Last(v, s, d) => Last(v, s, d)'
    BY <2>1, LastKept
  <2>3. Recent' <=> Recent
    BY <1>1 DEF Recent
  <2>4. Last(ctl.v, ctl.next, ctl.vol.deleting)' <=> Last(v, s, d)'
    BY <1>1, <2>1
  <2> QED
    BY <1>1, <2>1, <2>2, <2>3, <2>4 DEF RecentInv, Marked
<1> QED
  BY <1>1, IdleIsRecent

\* A reconciliation that goes on with the same copy.
LEMMA RecentGoesOn ==
  ASSUME RecentInv, UNCHANGED vol, ctl.step # "idle",
         ctl'.v = ctl.v, ctl'.vol = ctl.vol,
         ctl'.step \in {"protect", "prepare"} => ctl.vol.status.job = "",
         ctl'.step = "prepare" => ctl.vol.fin,
         ctl'.step = "unprepare" => CurrentJob(ctl.vol) = "",
         ctl'.step = "save" =>
           /\ ctl'.next.job # "" => ctl.vol.fin
           /\ vol[ctl.v].deleting = ctl.vol.deleting =>
                Last(ctl.v, ctl.next, ctl.vol.deleting)'
  PROVE  RecentInv'
<1>1. Recent' <=> Recent
  BY DEF Recent
<1> QED
  BY <1>1 DEF RecentInv, Marked

LEMMA SaveIsRecent ==
  ASSUME TypeOK, RecentInv, UNCHANGED vol, ctl.step # "idle",
         NEW s, NEW a, GoSave(ctl, s, a), s.job # "" => ctl.vol.fin,
         vol[ctl.v].deleting = ctl.vol.deleting => Last(ctl.v, s, ctl.vol.deleting)'
  PROVE  RecentInv'
<1>1. /\ ctl'.v = ctl.v /\ ctl'.vol = ctl.vol /\ ctl'.step = "save"
      /\ ctl'.next = s
  BY DEF GoSave, TypeOK, Control
<1>2. /\ ctl'.next.job # "" => ctl.vol.fin
      /\ vol[ctl.v].deleting = ctl.vol.deleting =>
           Last(ctl.v, ctl.next, ctl.vol.deleting)'
  BY <1>1
<1> QED
  BY <1>1, <1>2, RecentGoesOn

LEMMA FetchIsRecent ==
  ASSUME TypeOK, QuietInv, NEW v \in Volumes, Fetch(v)
  PROVE  QuietInv'
<1> DEFINE o == vcache[v]
<1>1. UNCHANGED <<vol, vcache, jobs, inbox>>
  BY DEF Fetch, api, salt, Reported
<1>2. LastInv' /\ Marked(o)
  BY <1>1, JobsDoStay, LastStays DEF QuietInv, LastInv
<1>3. CASE ctl' = [Idle EXCEPT !.v = v]
  <2>1. ctl'.step = "idle" /\ ctl'.vol = NoVolume
    BY <1>3 DEF Idle
  <2> QED
    BY <1>2, <2>1, StoppedIsRecent DEF QuietInv
<1>4. ASSUME ctl'.v = v, ctl'.vol = o, ctl'.step = "lookup"
      PROVE  QuietInv'
  <2>1. Recent'
    BY <1>1, <1>4 DEF Recent, QuietInv, LastInv
  <2> QED
    BY <1>2, <1>4, <2>1 DEF QuietInv, RecentInv, Marked
<1>5. CASE GoSave([ctl EXCEPT !.v = v, !.vol = o],
                  FailedStatus(o.status, "InternalError"), "requeue")
  <2>1. /\ ctl'.v = v /\ ctl'.vol = o /\ ctl'.step = "save"
        /\ ctl'.next.phase = "Failed" /\ ctl'.next.job = o.status.job
    BY <1>5 DEF GoSave, FailedStatus, TypeOK, Control
  <2>2. Recent'
    BY <1>1, <2>1 DEF Recent, QuietInv, LastInv
  <2>3. Last(v, vol[v].status, vol[v].deleting)' /\ vol'[v] = o
    BY <1>1, <1>2 DEF LastInv, QuietInv
  <2>4. Last(ctl.v, ctl.next, ctl.vol.deleting)'
    BY <2>1, <2>3 DEF Last
  <2> QED
    BY <1>2, <2>1, <2>2, <2>4 DEF QuietInv, RecentInv, Marked
<1>6. CASE ctl' = [ctl EXCEPT !.v = v, !.vol = o, !.step = "lookup"]
  <2>1. ctl'.v = v /\ ctl'.vol = o /\ ctl'.step = "lookup"
    BY <1>6 DEF TypeOK, Control
  <2> QED
    BY <1>4, <2>1
<1> QED
  BY <1>3, <1>5, <1>6 DEF Fetch

\* What a reconciliation writes of a Volume leaves the job of the last status, or
\* says of it that it is done.
LEMMA CallsAreRecent ==
  ASSUME TypeOK, EmptyInv, QuietInv,
         \/ Lookup \/ Poll \/ Size \/ CallFails \/ PollFails \/ SizeFails \/ Refused
  PROVE  QuietInv'
<1> DEFINE o == ctl.vol
<1>0. /\ ctl \in Control /\ ctl.v \in Volumes /\ o \in Volume /\ o.deleting \in BOOLEAN
      /\ InboxInv /\ RecentInv /\ JobsStay
      /\ UNCHANGED <<vol, vcache, jobs, inbox>>
  BY JobsDoStay DEF EmptyInv, TypeOK, Control, Volume, QuietInv,
     Lookup, Poll, Size, CallFails, PollFails, SizeFails, Refused, api, cache, salt, Reported
<1>1. LastInv'
  BY <1>0, LastStays DEF QuietInv
<1>2. CASE ctl' = Idle
  BY <1>1, <1>2, IdleIsRecent DEF QuietInv
<1> DEFINE Same == o.fin /\ Recent /\ vol[ctl.v].deleting = o.deleting
<1>3. ASSUME NEW s, NEW a, GoSave(ctl, s, a), ctl.step # "idle",
             s.job # "" => o.fin, Same => Last(ctl.v, s, o.deleting)
      PROVE  QuietInv'
  <2>1. ctl'.v = ctl.v /\ ctl'.vol = o
    BY <1>0, <1>3 DEF GoSave, Control
  <2>2. PICK v, d : /\ v = ctl.v /\ d = o.deleting
                    /\ v \in Volumes /\ d \in BOOLEAN
    BY <1>0
  <2>3. vol[v].deleting = d => Last(v, s, d)
    BY <1>0, <1>3, <2>2, JidAssumption DEF Last, RecentInv
  <2>4. vol[v].deleting = d => Last(v, s, d)'
    BY <1>0, <2>2, <2>3, LastKept
  <2>5. vol[ctl.v].deleting = ctl.vol.deleting => Last(ctl.v, s, ctl.vol.deleting)'
    BY <2>1, <2>2, <2>4
  <2> QED
    BY <1>0, <1>1, <1>3, <2>5, SaveIsRecent DEF QuietInv
<1>4. Same => Last(ctl.v, o.status, o.deleting)
  BY <1>0 DEF Recent, QuietInv, LastInv
<1>5. Marked(o)
  BY <1>0 DEF RecentInv
<1>6. ASSUME ctl.step # "idle", NEW why, NEW a, GoSave(ctl, FailedStatus(o.status, why), a)
      PROVE  QuietInv'
  <2>1. PICK s : s = FailedStatus(o.status, why)
    OBVIOUS
  <2>2. s.phase = "Failed" /\ s.job = o.status.job
    BY <2>1 DEF FailedStatus
  <2>3. Same => Last(ctl.v, s, o.deleting)
    BY <1>4, <2>2 DEF Last
  <2> QED
    BY <1>3, <1>5, <1>6, <2>1, <2>2, <2>3 DEF Marked
<1>7. ASSUME ctl.step # "idle", NEW s, NEW a, GoSave(ctl, s, a), s.job = ""
      PROVE  QuietInv'
  BY <1>3, <1>7, JidAssumption DEF Last
<1>8. AvailableStatus.job = "" /\ JobStatus("").job = ""
  BY DEF AvailableStatus, JobStatus, PendingStatus, TerminatingStatus
<1>9. CASE Lookup
  <2> DEFINE p == pvcache[ctl.v]
  <2>1. ctl.step = "lookup"
    BY <1>9 DEF Lookup
  <2>2. ASSUME ctl'.v = ctl.v, ctl'.vol = o, ctl'.step \notin {"save", "prepare"},
               ctl'.step = "protect" => o.status.job = "",
               ctl'.step = "unprepare" => CurrentJob(o) = ""
        PROVE  QuietInv'
    BY <1>0, <1>1, <2>1, <2>2, RecentGoesOn DEF QuietInv
  <2>3. CASE Go("deletePv")
    <3>1. ctl'.v = ctl.v /\ ctl'.vol = o /\ ctl'.step = "deletePv"
      BY <1>0, <2>3 DEF Go, Control
    <3> QED
      BY <2>2, <3>1
  <2>4. CASE ctl' = [ctl EXCEPT !.pv = p, !.step = ReclaimStep(CurrentJob(o), p)]
    <3>1. PICK job, step : job = CurrentJob(o) /\ step = ReclaimStep(job, p)
      OBVIOUS
    <3>2. ctl'.v = ctl.v /\ ctl'.vol = o /\ ctl'.step = step
      BY <1>0, <2>4, <3>1 DEF Control
    <3>3. /\ step \notin {"save", "prepare", "protect"}
          /\ step = "unprepare" => job = ""
      BY <3>1 DEF ReclaimStep
    <3> QED
      BY <2>2, <3>1, <3>2, <3>3
  <2>5. CASE ctl' = [ctl EXCEPT !.pv = p, !.step = DeployStep(o.status.job)]
    <3>1. /\ ctl'.v = ctl.v /\ ctl'.vol = o
          /\ ctl'.step = DeployStep(o.status.job)
      BY <1>0, <2>5 DEF Control
    <3>2. /\ ctl'.step \notin {"save", "prepare", "unprepare"}
          /\ ctl'.step = "protect" => o.status.job = ""
      BY <3>1 DEF DeployStep
    <3> QED
      BY <2>2, <3>1, <3>2
  <2>6. CASE \/ GoSave(ctl, FailedStatus(o.status, "UnavailableError"), "requeue")
             \/ GoSave(ctl, AvailableStatus, "end")
    BY <1>6, <1>7, <1>8, <2>1, <2>6
  <2> QED
    BY <1>2, <1>9, <2>3, <2>4, <2>5, <2>6 DEF Lookup, Requeue, Finish
<1>10. CASE Poll
  <2> DEFINE job == jobs[o.status.job]
  <2>1. /\ ctl.step = "poll" /\ o.status.job \in Jids
        /\ Finalizing(o) => o.status.phase # "Failed"
    BY <1>10 DEF Poll, EmptyInv, WriterInv
  <2>2. CASE PollJob(job) = "ok" /\ GoSave(ctl, JobStatus("DONE"), "requeue")
    <3>1. job.state = "ok"
      BY <2>1, <2>2 DEF PollJob, TypeOK, Job, JobStates
    <3>2. Same => Latest(ctl.v, o.status.job)
      BY <1>4, <2>1 DEF Last, Finalizing
    <3>3. Same => Quiet(ctl.v)
      BY <1>0, <2>1, <3>1, <3>2, LastIsQuiet
    <3>4. PICK s : s = JobStatus("DONE")
      OBVIOUS
    <3>5. s.job = "DONE"
      BY <3>4 DEF JobStatus, PendingStatus, TerminatingStatus
    <3>6. o.fin
      BY <1>5, <2>1, JidAssumption DEF Marked
    <3>7. Same => Last(ctl.v, s, o.deleting)
      BY <3>3, <3>5, JidAssumption DEF Last
    <3> QED
      BY <1>3, <2>1, <2>2, <3>4, <3>6, <3>7
  <2>3. CASE \/ GoSave(ctl, JobStatus(""), "requeue")
             \/ \E why : GoSave(ctl, FailedStatus(o.status, why), "failPv")
    BY <1>6, <1>7, <1>8, <2>1, <2>3
  <2> QED
    BY <1>2, <1>10, <2>2, <2>3 DEF Poll, Requeue, Finish
<1>11. CASE Size
  <2>1. CASE ctl.step = "size" /\ Go("createPv")
    <3>1. ctl'.v = ctl.v /\ ctl'.vol = o /\ ctl'.step = "createPv"
      BY <1>0, <2>1 DEF Go, Control
    <3> QED
      BY <1>0, <1>1, <2>1, <3>1, RecentGoesOn DEF QuietInv
  <2>2. CASE /\ ctl.step = "size"
             /\ GoSave(ctl, FailedStatus(o.status, "CreationError"), "requeue")
    BY <1>6, <2>2
  <2> QED
    BY <1>11, <2>1, <2>2 DEF Size
<1>12. CASE PollFails \/ SizeFails
  BY <1>6, <1>7, <1>8, <1>12 DEF PollFails, SizeFails
<1>13. CASE CallFails \/ Refused
  BY <1>2, <1>13 DEF CallFails, Refused, Requeue, Finish
<1> QED
  BY <1>9, <1>10, <1>11, <1>12, <1>13

\* A Volume is written, and its cache follows at once.
LEMMA LastWritten ==
  ASSUME TypeOK, LastInv, ~LagVolume, NEW v \in Volumes, NEW o \in Volume,
         SetVolume(v, o), Marked(o), Last(v, o.status, o.deleting),
         UNCHANGED <<jobs, inbox>>
  PROVE  /\ LastInv' /\ vol'[v] = o
         /\ \A u \in Volumes : u # v => vol'[u] = vol[u]
<1>1. /\ vol'[v] = o /\ vcache' = vol'
      /\ \A u \in Volumes : u # v => vol'[u] = vol[u]
  BY DEF SetVolume, TypeOK, LastInv
<1>2. ASSUME NEW u \in Volumes
      PROVE  Marked(vol'[u]) /\ Last(u, vol[u].status, vol[u].deleting)'
  <2>1. PICK s, d : s = vol'[u].status /\ d = vol'[u].deleting /\ d \in BOOLEAN
    BY <1>1 DEF TypeOK, Volume
  <2>2. Last(u, s, d) /\ Marked(vol'[u])
    BY <1>1, <2>1 DEF LastInv
  <2>3. Last(u, s, d)'
    BY <2>1, <2>2, JobsDoStay, LastKept
  <2> QED
    BY <2>1, <2>2, <2>3
<1> QED
  BY <1>1, <1>2 DEF LastInv, Marked

LEMMA WritesAreRecent ==
  ASSUME TypeOK, EmptyInv, QuietInv, ~LagVolume, Save \/ Protect \/ DropVolume,
         ~Refused
  PROVE  QuietInv'
<1>0. /\ LastInv /\ RecentInv /\ ctl \in Control /\ ctl.v \in Volumes
      /\ ctl.vol \in Volume /\ ctl.next \in Status /\ Marked(ctl.vol)
      /\ UNCHANGED <<jobs, inbox>> /\ vol[ctl.v] = ctl.vol
      /\ Last(ctl.v, ctl.vol.status, ctl.vol.deleting)
  BY DEF TypeOK, Control, QuietInv, RecentInv, LastInv, Save, Protect, DropVolume, salt, Reported
<1>1. CASE Save
  <2> DEFINE q == [ctl.vol EXCEPT !.status = ctl.next]
  <2>1. /\ SetVolume(ctl.v, q) /\ ctl.step = "save"
        /\ ctl' = Idle \/ ctl' = [ctl EXCEPT !.vol = q, !.step = "failPv"]
    BY <1>0, <1>1 DEF Save, Finish, Requeue
  <2>2. /\ q \in Volume /\ q.status = ctl.next
        /\ q.fin = ctl.vol.fin /\ q.deleting = ctl.vol.deleting
    BY <1>0, VolumeTypes DEF Volume
  <2> HIDE DEF q
  <2>3. Marked(q) /\ Last(ctl.v, q.status, q.deleting)
    BY <1>0, <2>1, <2>2 DEF RecentInv, Marked
  <2>4. LastInv' /\ vol'[ctl.v] = q
    BY <1>0, <2>1, <2>2, <2>3, LastWritten
  <2>5. CASE ctl' = Idle
    BY <2>4, <2>5, IdleIsRecent DEF QuietInv
  <2>6. CASE ctl' = [ctl EXCEPT !.vol = q, !.step = "failPv"]
    <3>1. ctl'.v = ctl.v /\ ctl'.vol = q /\ ctl'.step = "failPv"
      BY <1>0, <2>6 DEF Control
    <3> QED
      BY <2>3, <2>4, <3>1 DEF QuietInv, RecentInv, Recent, Marked
  <2> QED
    BY <2>1, <2>5, <2>6
<1>2. CASE Protect
  <2> DEFINE q == [ctl.vol EXCEPT !.fin = TRUE]
  <2>1. /\ SetVolume(ctl.v, q) /\ ctl.step = "protect"
        /\ ctl' = [ctl EXCEPT !.vol = q, !.step = "prepare"]
    BY <1>0, <1>2 DEF Protect
  <2>2. /\ q \in Volume /\ q.status = ctl.vol.status /\ q.fin
        /\ q.deleting = ctl.vol.deleting
    BY <1>0 DEF Volume
  <2> HIDE DEF q
  <2>3. Marked(q) /\ Last(ctl.v, q.status, q.deleting)
    BY <1>0, <2>2 DEF Marked
  <2>4. LastInv' /\ vol'[ctl.v] = q
    BY <1>0, <2>1, <2>2, <2>3, LastWritten
  <2>5. ctl'.v = ctl.v /\ ctl'.vol = q /\ ctl'.step = "prepare"
    BY <1>0, <2>1 DEF Control
  <2>6. q.status.job = ""
    BY <1>0, <2>1, <2>2 DEF RecentInv
  <2> QED
    BY <2>2, <2>3, <2>4, <2>5, <2>6 DEF QuietInv, RecentInv, Recent, Marked
<1>3. CASE DropVolume
  <2> DEFINE q == [ctl.vol EXCEPT !.fin = FALSE]
  <2>1. SetVolume(ctl.v, Collected(q)) /\ ctl' = Idle /\ Finalizing(ctl.vol)
    BY <1>0, <1>3 DEF DropVolume, Finish, EmptyInv, WriterInv
  <2>2. Collected(q) = NoVolume
    BY <1>0, <2>1 DEF Collected, Finalizing, Volume
  <2>3. ~NoVolume.deleting /\ NoVolume.status = NewStatus /\ NoVolume \in Volume
    BY VolumeTypes DEF NoVolume
  <2>4. NewStatus.job = ""
    BY DEF NewStatus
  <2>5. Marked(NoVolume) /\ Last(ctl.v, NoVolume.status, NoVolume.deleting)
    BY <2>3, <2>4, JidAssumption DEF Marked, Last
  <2> HIDE DEF q
  <2> QED
    BY <1>0, <2>1, <2>2, <2>3, <2>5, LastWritten, IdleIsRecent DEF QuietInv
<1> QED
  BY <1>1, <1>2, <1>3

\* Users do not change the status of a Volume that a reconciliation protects.
LEMMA UsersStayRecent ==
  ASSUME TypeOK, TypeOK', EmptyInv, QuietInv, ~LagVolume,
         NEW v \in Volumes, CreateVolume(v) \/ DeleteVolume(v)
  PROVE  QuietInv'
<1>0. /\ LastInv /\ RecentInv /\ ctl.v \in Volumes /\ ctl.vol \in Volume
      /\ UNCHANGED <<ctl, jobs, inbox>> /\ vol'[v] \in Volume /\ vol[v] \in Volume
      /\ Last(v, vol[v].status, vol[v].deleting)
  BY DEF TypeOK, Control, QuietInv, LastInv, CreateVolume, DeleteVolume, salt, Reported
<1>1. NoVolume.status = NewStatus /\ NoVolume.fin = FALSE /\ ~NoVolume.deleting
      /\ NoVolume \in Volume /\ NewStatus.job = ""
  BY VolumeTypes DEF NoVolume, NewStatus
<1>2. PICK o \in Volume :
        /\ SetVolume(v, o) /\ Marked(o)
        /\ IF vol[v].fin
           THEN /\ o.uid = vol[v].uid /\ o.fin = vol[v].fin
                /\ o.status = vol[v].status
                /\ ~vol[v].deleting /\ o.deleting
           ELSE o.status.job = ""
  <2>1. CASE CreateVolume(v)
    <3>1. PICK valid \in BOOLEAN :
            SetVolume(v, [NoVolume EXCEPT !.uid = born[v] + 1, !.valid = valid])
      BY <2>1 DEF CreateVolume
    <3> DEFINE o == [NoVolume EXCEPT !.uid = born[v] + 1, !.valid = valid]
    <3>2. o.status = NewStatus /\ ~o.deleting
      BY DEF NoVolume
    <3>3. ~vol[v].fin
      BY <2>1 DEF CreateVolume, EmptyInv, CurrentInv
    <3>4. vol'[v] = o
      BY <1>0, <3>1 DEF SetVolume, TypeOK
    <3>5. SetVolume(v, o)
      BY <3>1
    <3> HIDE DEF o
    <3> QED
      BY <1>0, <1>1, <3>2, <3>3, <3>4, <3>5 DEF Marked
  <2>2. CASE DeleteVolume(v)
    <3> DEFINE q == [vol[v] EXCEPT !.deleting = TRUE]
               o == Collected(q)
    <3>1. SetVolume(v, o) /\ ~vol[v].deleting
      BY <2>2 DEF DeleteVolume
    <3>2. /\ q.uid = vol[v].uid /\ q.fin = vol[v].fin /\ q.deleting
          /\ q.status = vol[v].status /\ q \in Volume
      BY <1>0 DEF Volume
    <3>3. IF vol[v].fin THEN o = q ELSE o = NoVolume
      BY <3>2 DEF Collected
    <3> HIDE DEF q, o
    <3>4. CASE vol[v].fin
      BY <3>1, <3>2, <3>3, <3>4 DEF Marked
    <3>5. CASE ~vol[v].fin
      BY <1>1, <3>1, <3>3, <3>5 DEF Marked
    <3> QED
      BY <3>4, <3>5
  <2> QED
    BY <2>1, <2>2
<1>3. Last(v, o.status, o.deleting)
  BY <1>0, <1>2, JidAssumption DEF Last
<1>4. /\ LastInv' /\ vol'[v] = o
      /\ \A u \in Volumes : u # v => vol'[u] = vol[u]
  BY <1>0, <1>2, <1>3, LastWritten DEF QuietInv
<1>5. PICK u, s, d : /\ u = ctl.v /\ s = ctl.next /\ d = ctl.vol.deleting
                     /\ u \in Volumes /\ d \in BOOLEAN
  BY <1>0 DEF Volume
<1>6. Last(u, s, d) => Last(u, s, d)'
  BY <1>0, <1>5, JobsDoStay, LastKept
<1>7. Last(ctl.v, ctl.next, ctl.vol.deleting)' <=> Last(u, s, d)'
  BY <1>0, <1>5
<1>8. ctl.step # "idle" /\ ctl.vol.fin => Recent'
  BY <1>0, <1>2, <1>4 DEF RecentInv, Recent
<1>9. ASSUME ctl.step = "save", vol'[u].deleting = d
      PROVE  Last(u, s, d)'
  <2>1. CASE ctl.vol.fin
    <3>1. Recent
      BY <1>0, <1>9, <2>1 DEF RecentInv
    <3>2. vol[u].deleting = d
      BY <1>0, <1>2, <1>4, <1>5, <1>9, <2>1, <3>1 DEF Recent, Volume
    <3> QED
      BY <1>0, <1>5, <1>6, <1>9, <3>2 DEF RecentInv
  <2>2. CASE ~ctl.vol.fin
    <3>1. s.job = ""
      BY <1>0, <1>5, <1>9, <2>2 DEF RecentInv
    <3> QED
      BY <3>1, JidAssumption DEF Last
  <2> QED
    BY <2>1, <2>2
<1>10. RecentInv'
  BY <1>0, <1>5, <1>7, <1>8, <1>9 DEF RecentInv, Marked
<1> QED
  BY <1>4, <1>10 DEF QuietInv

\* Nothing that happens to the minion or to the master publishes a job.
LEMMA MinionSettles ==
  ASSUME TypeOK, InboxInv,
         \/ Minion \/ LoseMessage \/ MinionRestart \/ MasterRestart
         \/ \E j \in Jids : JobFails(j)
  PROVE  Settles
<1>1. CASE Start
  <2>1. PICK st \in JobStates \ {"none", "sent"} :
          /\ inbox # <<>> /\ inbox' = Tail(inbox)
          /\ jobs' = [jobs EXCEPT ![Head(inbox)].state = st]
          /\ st \notin {"busy", "lost"} => ~Busy
    BY <1>1 DEF Start, JobStates
  <2> QED
    BY <2>1, HeadLeaves
<1>2. ASSUME NEW h \in Jids, Complete(h) \/ JobFails(h)
      PROVE  Settles
  <2>1. PICK st \in {"ok", "failed"} :
          /\ jobs[h].state = "running" /\ inbox' = inbox
          /\ jobs' = [jobs EXCEPT ![h].state = st]
    BY <1>2 DEF Complete, JobFails
  <2> QED
    BY <2>1, RunEnds
<1>3. CASE LoseMessage
  <2>1. /\ inbox # <<>> /\ inbox' = Tail(inbox)
        /\ jobs' = [jobs EXCEPT ![Head(inbox)].state = "lost"]
    BY <1>3 DEF LoseMessage
  <2> QED
    BY <2>1, HeadLeaves DEF JobStates
<1>4. CASE MinionRestart
  <2>1. /\ inbox' = <<>>
        /\ jobs' = [j \in Jids |->
                     [jobs[j] EXCEPT !.state = IF Active(j) THEN "lost" ELSE @]]
    BY <1>4 DEF MinionRestart
  <2> QED
    BY <2>1, MinionForgets
<1>5. CASE MasterRestart
  BY <1>5, MasterForgets DEF MasterRestart
<1> QED
  BY <1>1, <1>2, <1>3, <1>4, <1>5 DEF Minion

\* A job is published for a Volume that has none in progress.
LEMMA SpawnsAreRecent ==
  ASSUME TypeOK, EmptyInv, QuietInv, NEW j \in Jids,
         PrepareVolume(j) \/ UnprepareVolume(j) \/ AnswerLost(j)
  PROVE  QuietInv'
<1>1. PICK kind \in JobKinds :
        /\ ctl.step = kind /\ Spawn(j, kind)
        /\ \/ ctl' = Idle
           \/ GoSave(ctl, PendingStatus(j), "requeue")
           \/ GoSave(ctl, TerminatingStatus(j), "requeue")
  BY DEF PrepareVolume, UnprepareVolume, AnswerLost, JobKinds, Requeue, Finish
<1>2. UNCHANGED <<vol, vcache, pv, Reported>>
  BY ReportedKept DEF PrepareVolume, UnprepareVolume, AnswerLost, api, cache
<1>3. /\ InboxInv /\ LastInv /\ RecentInv /\ ctl.v \in Volumes
      /\ ctl \in Control /\ ~Referenced(j) /\ ctl.step # "idle"
  BY <1>1 DEF EmptyInv, QuietInv, TypeOK, Control, Spawn, JobKinds
<1>4. ASSUME NEW v \in Volumes
      PROVE  /\ v # ctl.v => /\ Quiet(v) => Quiet(v)'
                             /\ \A k \in Jids \ {j} : Latest(v, k) => Latest(v, k)'
             /\ v = ctl.v => Latest(v, j)'
  BY <1>1, <1>2, <1>3, PublishedElsewhere
<1>5. /\ ctl.vol.fin
      /\ \/ ctl.vol.status.job = ""
         \/ ctl.vol.status.phase = "Failed" /\ ctl.vol.deleting
  <2>1. CASE kind = "prepare"
    BY <1>1, <1>3, <2>1 DEF RecentInv
  <2>2. CASE kind = "unprepare"
    <3>1. ctl.vol.deleting
      BY <1>1, <2>2 DEF EmptyInv, WriterInv, Finalizing
    <3>2. CurrentJob(ctl.vol) = "" /\ Marked(ctl.vol)
      BY <1>1, <1>3, <2>2 DEF RecentInv
    <3> QED
      BY <3>1, <3>2 DEF Marked, CurrentJob
  <2> QED
    BY <2>1, <2>2 DEF JobKinds
<1>6. \/ vol[ctl.v].status.job = ""
      \/ vol[ctl.v].status.phase = "Failed" /\ vol[ctl.v].deleting
  BY <1>3, <1>5 DEF RecentInv, Recent
<1>7. ASSUME NEW v \in Volumes
      PROVE  Last(v, vol[v].status, vol[v].deleting)'
  <2>1. PICK s, d : s = vol[v].status /\ d = vol[v].deleting /\ d \in BOOLEAN
    BY DEF TypeOK, Volume
  <2>2. Last(v, s, d) /\ s.job # j
    BY <1>3, <2>1 DEF LastInv, Referenced
  <2>3. Last(v, s, d)'
    <3>1. CASE v = ctl.v
      BY <1>6, <2>1, <3>1, JidAssumption DEF Last
    <3>2. CASE v # ctl.v
      BY <1>4, <2>2, <3>2 DEF Last
    <3> QED
      BY <3>1, <3>2
  <2> QED
    BY <1>2, <2>1, <2>3
<1>8. LastInv'
  BY <1>2, <1>3, <1>7 DEF LastInv, Marked
<1>9. ASSUME NEW s, GoSave(ctl, s, "requeue"), s.job = j
      PROVE  RecentInv'
  <2>1. ctl'.v = ctl.v /\ ctl'.vol = ctl.vol
    BY <1>3, <1>9 DEF GoSave, Control
  <2>2. PICK v \in Volumes : v = ctl.v
    BY <1>3
  <2>3. Last(v, s, ctl.vol.deleting)'
    BY <1>4, <1>9, <2>2, JidAssumption DEF Last
  <2>4. Last(ctl.v, s, ctl.vol.deleting)'
    BY <2>1, <2>2, <2>3
  <2> QED
    BY <1>2, <1>3, <1>5, <1>9, <2>4, SaveIsRecent
<1>10. PendingStatus(j).job = j /\ TerminatingStatus(j).job = j
  BY DEF PendingStatus, TerminatingStatus
<1> QED
  BY <1>1, <1>8, <1>9, <1>10, IdleIsRecent DEF QuietInv

\* The steps that only change a PersistentVolume.
LEMMA PvStepsAreRecent ==
  ASSUME TypeOK, QuietInv,
         \/ (FailPv \/ CreatePv \/ DeletePv \/ DropPv) /\ ~Refused
         \/ \E v \in Volumes :
              \/ CreateForeignPv(v) \/ UserDeletePv(v) \/ Bind(v) \/ Release(v)
              \/ Offer(v) \/ Recover(v) \/ Unprotect(v) \/ PvFails(v)
  PROVE  QuietInv'
<1>1. /\ UNCHANGED <<vol, vcache, jobs, inbox>> /\ JobsStay
      /\ ctl \in Control /\ ctl.v \in Volumes /\ RecentInv
  BY JobsDoStay DEF FailPv, CreatePv, DeletePv, DropPv, CreateForeignPv, UserDeletePv,
     Bind, Release, Offer, Recover, Unprotect, PvFails, ChangePv, salt, Reported,
     TypeOK, Control, QuietInv
<1>2. LastInv'
  BY <1>1, LastStays DEF QuietInv
<1>3. CASE ctl' \in {ctl, Idle}
  BY <1>1, <1>2, <1>3, RecentStays DEF QuietInv
<1>4. CASE CreatePv /\ ~Refused
  <2>1. GoSave(ctl, AvailableStatus, "requeue") /\ ctl.step # "idle"
    BY <1>4 DEF CreatePv
  <2>2. AvailableStatus.job = ""
    BY DEF AvailableStatus
  <2>3. Last(ctl.v, AvailableStatus, ctl.vol.deleting)'
    BY <2>2, JidAssumption DEF Last
  <2> QED
    BY <1>1, <1>2, <2>1, <2>2, <2>3, SaveIsRecent DEF QuietInv
<1>5. CASE DropPv /\ ~Refused
  <2>1. Go("dropVolume") /\ ctl.step # "idle"
    BY <1>5 DEF DropPv
  <2>2. ctl'.v = ctl.v /\ ctl'.vol = ctl.vol /\ ctl'.step = "dropVolume"
    BY <1>1, <2>1 DEF Go, Control
  <2> QED
    BY <1>1, <1>2, <2>1, <2>2, RecentGoesOn DEF QuietInv
<1>6. ctl' \in {ctl, Idle} \/ CreatePv \/ DropPv
  BY DEF FailPv, DeletePv, CreateForeignPv, UserDeletePv, Bind, Release, Offer, Recover,
     Unprotect, PvFails, ChangePv, Requeue, Finish
<1>7. CASE Refused
  BY <1>1, <1>3, <1>7 DEF Refused, Requeue, Finish
<1> QED
  BY <1>3, <1>4, <1>5, <1>6, <1>7

LEMMA StepIsRecent ==
  ASSUME TypeOK, TypeOK', EmptyInv, QuietInv, ~LagVolume, [Next]_vars
  PROVE  QuietInv'
<1>0. LastInv /\ RecentInv
  BY DEF QuietInv
<1>1. CASE Worker
  <2>1. CASE Lookup \/ Poll \/ Size \/ Refused
    BY <2>1, CallsAreRecent
  <2>2. CASE (Save \/ Protect \/ DropVolume) /\ ~Refused
    BY <2>2, WritesAreRecent
  <2>3. CASE (FailPv \/ CreatePv \/ DeletePv \/ DropPv) /\ ~Refused
    BY <2>3, PvStepsAreRecent
  <2>4. CASE \E j \in Jids : PrepareVolume(j) \/ UnprepareVolume(j)
    BY <2>4, SpawnsAreRecent
  <2> QED
    BY <1>1, <2>1, <2>2, <2>3, <2>4 DEF Worker
<1>2. CASE \/ Minion \/ LoseMessage \/ MinionRestart \/ MasterRestart
           \/ \E j \in Jids : JobFails(j)
  <2>1. Settles
    BY <1>2, MinionSettles DEF EmptyInv
  <2>2. UNCHANGED <<vol, vcache, ctl>>
    BY <1>2 DEF Minion, Start, Complete, LoseMessage, MinionRestart, MasterRestart,
       JobFails, api, cache
  <2> QED
    BY <1>0, <2>1, <2>2, JobsDoStay, LastStays, RecentStays DEF QuietInv
<1>3. CASE CallFails \/ PollFails \/ SizeFails
  BY <1>3, CallsAreRecent
<1>4. CASE \E j \in Jids : AnswerLost(j)
  BY <1>4, SpawnsAreRecent
<1>5. CASE Crash \/ UNCHANGED vars \/ \E v \in Volumes : SyncVolume(v) \/ SyncPv(v)
  <2>1. /\ UNCHANGED <<vol, jobs, inbox>> /\ vcache' \in {vol, vcache}
        /\ ctl' \in {ctl, Idle}
    BY <1>5 DEF Crash, SyncVolume, SyncPv, vars, api, salt, Reported
  <2> QED
    BY <1>0, <2>1, JobsDoStay, LastStays, RecentStays DEF QuietInv
<1>6. ASSUME NEW v \in Volumes, Fetch(v)
      PROVE  QuietInv'
  BY <1>0, <1>6, FetchIsRecent
<1>7. ASSUME NEW v \in Volumes, CreateVolume(v) \/ DeleteVolume(v)
      PROVE  QuietInv'
  BY <1>7, UsersStayRecent
<1>8. ASSUME NEW v \in Volumes,
             \/ CreateForeignPv(v) \/ UserDeletePv(v) \/ Bind(v) \/ Release(v)
             \/ Offer(v) \/ Recover(v) \/ Unprotect(v) \/ PvFails(v)
      PROVE  QuietInv'
  BY <1>8, PvStepsAreRecent
<1> QED
  BY <1>1, <1>2, <1>3, <1>4, <1>5, <1>6, <1>7, <1>8
     DEF Next, FaultStep, Environment

LEMMA InitIsQuiet == Init => QuietInv
<1> SUFFICES ASSUME Init PROVE QuietInv
  OBVIOUS
<1>1. /\ ctl.step = "idle" /\ ctl.vol = NoVolume /\ vcache = vol
      /\ \A v \in Volumes : vol[v] = NoVolume
  BY DEF Init, Idle
<1>2. NoVolume.status = NewStatus /\ ~NoVolume.deleting /\ NewStatus.job = ""
  BY DEF NoVolume, NewStatus
<1>3. Marked(NoVolume) /\ \A v : Last(v, NoVolume.status, NoVolume.deleting)
  BY <1>2, JidAssumption DEF Marked, Last
<1>4. LastInv
  BY <1>1, <1>3 DEF LastInv
<1>5. RecentInv
  BY <1>1, <1>3 DEF RecentInv
<1> QED
  BY <1>4, <1>5 DEF QuietInv

\* When the status says DONE, no job of the Volume is on its way or runs: the
\* device that is looked up and the PersistentVolume that is made are not
\* changed under the operator by a job it lost the answer of.  The cache of
\* Volumes is not late; that of PersistentVolumes may be.
THEOREM DoneIsQuiet == ~LagVolume /\ Spec => []DoneMeansQuiet
<1> SUFFICES ASSUME ~LagVolume PROVE Spec => []DoneMeansQuiet
  OBVIOUS
<1>1. Init => EmptyInv /\ QuietInv
  BY InitIsEmpty, InitIsQuiet
<1>2. TypeOK /\ TypeOK' /\ EmptyInv /\ QuietInv /\ [Next]_vars =>
        EmptyInv' /\ QuietInv'
  BY StepIsAllowed, StepIsRecent
<1>3. QuietInv => DoneMeansQuiet
  <2> SUFFICES ASSUME QuietInv, NEW v \in Volumes, CurrentJob(vol[v]) = "DONE"
               PROVE  Quiet(v)
    BY DEF DoneMeansQuiet, Quiet
  <2>1. vol[v].status.job = "DONE" /\ vol[v].status.phase # "Failed"
    BY DEF CurrentJob
  <2> QED
    BY <2>1 DEF QuietInv, LastInv, Last
<1> QED
  BY <1>1, <1>2, <1>3, TypeCorrect, PTL DEF Spec

-----------------------------------------------------------------------------
(* PersistentVolumes made by hand, however late the caches are.  A copy of a *)
(* PersistentVolume that is ours is of the one there is, until the copy       *)
(* shows that it is being deleted: only the operator lets it go, and only     *)
(* after it has seen that.                                                    *)

\* A copy shows the PersistentVolume of its owner, or its deletion.
Tells(c, p) ==
  c.owner # 0 => /\ c.there
                 /\ c.deleting \/ p.owner = c.owner
                 /\ c.deleting /\ p.owner = c.owner => p.deleting

OwnedInv ==
  \A v \in Volumes : /\ pv[v].owner # 0 => pv[v].there /\ pv[v].fin
                     /\ Tells(pvcache[v], pv[v])

\* The PersistentVolume that a reconciliation writes is one of its Volume.
MineInv ==
  /\ IF ctl.step = "idle" THEN ~ctl.pv.there ELSE Exists(ctl.vol)
  /\ ctl.pv.there => ctl.pv.owner = ctl.vol.uid
  /\ ctl.step = "failPv" => ctl.pv.there
  /\ ctl.step = "deletePv" => pv[ctl.v].owner # 0
  /\ ctl.step = "dropPv" =>
       /\ ctl.pv.there /\ ctl.pv.deleting /\ ~ctl.pv.inuse
       /\ \A p \in {pv[ctl.v], pvcache[ctl.v]} : p.owner = ctl.pv.owner => p.deleting
  /\ ctl.step \in {"size", "createPv"} /\ pvcache[ctl.v].owner # 0 => pv[ctl.v].owner # 0

OfferInv == OwnedInv /\ MineInv

\* A change of a PersistentVolume that keeps its owner and its deletion.
Handled(v, p) ==
  /\ p.owner = pv[v].owner
  /\ p.owner # 0 => p.there /\ p.fin /\ (pv[v].deleting => p.deleting)

LEMMA HandledKeeps ==
  ASSUME TypeOK, OwnedInv, NEW v \in Volumes, NEW p, SetPv(v, p), Handled(v, p)
  PROVE  OwnedInv' /\ (MineInv /\ UNCHANGED ctl => MineInv')
<1>1. /\ pv'[v] = p /\ \A u \in Volumes : u # v => pv'[u] = pv[u] /\ pvcache'[u] = pvcache[u]
      /\ pvcache'[v] = pvcache[v] \/ pvcache'[v] = p
  BY DEF SetPv, TypeOK
<1>2. Tells(p, p) /\ Tells(pvcache[v], p)
  BY DEF Tells, Handled, OwnedInv
<1>3. OwnedInv'
  <2> SUFFICES ASSUME NEW u \in Volumes
               PROVE  /\ pv'[u].owner # 0 => pv'[u].there /\ pv'[u].fin
                      /\ Tells(pvcache'[u], pv'[u])
    BY DEF OwnedInv, Tells
  <2>1. CASE u = v
    BY <1>1, <1>2, <2>1 DEF Handled
  <2>2. CASE u # v
    BY <1>1, <2>2 DEF OwnedInv
  <2> QED BY <2>1, <2>2
<1>4. ASSUME MineInv, UNCHANGED ctl PROVE MineInv'
  <2>1. ctl.v \in Volumes /\ ctl'.v = ctl.v
    BY <1>4 DEF TypeOK, Control
  <2>2. pv'[ctl.v].owner = pv[ctl.v].owner
    BY <1>1, <2>1 DEF Handled
  <2>3. ASSUME ctl.step = "dropPv", NEW q \in {pv'[ctl.v], pvcache'[ctl.v]},
               q.owner = ctl.pv.owner
        PROVE  q.deleting
    <3>1. ctl.pv.owner # 0
      BY <1>4, <2>3 DEF MineInv, Exists
    <3>2. CASE q \in {pv[ctl.v], pvcache[ctl.v]}
      BY <1>4, <2>3, <3>2 DEF MineInv
    <3>3. CASE q = p /\ ctl.v = v
      BY <1>4, <2>3, <3>1, <3>3 DEF MineInv, Handled
    <3> QED BY <1>1, <2>1, <2>3, <3>2, <3>3
  <2>4. ctl.step \in {"size", "createPv"} /\ pvcache'[ctl.v].owner # 0 => pv'[ctl.v].owner # 0
    BY <1>1, <1>4, <2>1, <2>2 DEF MineInv, Handled
  <2> QED BY <1>4, <2>1, <2>2, <2>3, <2>4 DEF MineInv
<1> QED BY <1>3, <1>4

LEMMA IdleIsMine == ASSUME ctl' = Idle PROVE MineInv'
BY DEF Idle, MineInv, NoPv

\* A call or a write to a Volume.
LEMMA VolumeCallsAreMine ==
  ASSUME TypeOK, OfferInv, UNCHANGED <<pv, pvcache>>,
         ctl' = Idle \/ (/\ ctl'.v = ctl.v /\ ctl'.vol.uid = ctl.vol.uid /\ ctl'.pv = ctl.pv
                         /\ ctl.step # "idle" /\ ctl'.step \notin {"idle", "deletePv", "dropPv"}
                         /\ ctl'.step = "failPv" => ctl.pv.there
                         /\ ctl'.step \in {"size", "createPv"} => ctl.step = "size")
  PROVE  OfferInv'
<1>1. OwnedInv'
  BY DEF OfferInv, OwnedInv
<1>2. MineInv'
  BY IdleIsMine DEF OfferInv, MineInv, Exists
<1> QED BY <1>1, <1>2 DEF OfferInv

LEMMA FetchIsMine ==
  ASSUME TypeOK, OfferInv, NEW v \in Volumes, Fetch(v)
  PROVE  OfferInv'
<1>1. /\ UNCHANGED <<pv, pvcache>> /\ ctl.step = "idle" /\ ctl \in Control /\ ~ctl.pv.there
  BY DEF Fetch, api, OfferInv, MineInv, TypeOK
<1>2. \/ ctl'.step = "idle" /\ ~ctl'.pv.there
      \/ ctl'.step \in {"save", "lookup"} /\ ctl'.pv = ctl.pv /\ Exists(ctl'.vol)
  <2> DEFINE o == vcache[v]
             c == [ctl EXCEPT !.v = v, !.vol = o]
  <2>1. \/ ctl' = [Idle EXCEPT !.v = v]
        \/ Exists(o) /\ \E s, a : GoSave(c, s, a)
        \/ Exists(o) /\ ctl' = [c EXCEPT !.step = "lookup"]
    BY DEF Fetch
  <2>2. CASE ctl' = [Idle EXCEPT !.v = v]
    BY <2>2 DEF Idle, NoPv
  <2>3. CASE Exists(o) /\ \E s, a : GoSave(c, s, a)
    BY <1>1, <2>3 DEF GoSave, Control
  <2>4. CASE Exists(o) /\ ctl' = [c EXCEPT !.step = "lookup"]
    BY <1>1, <2>4 DEF Control
  <2> QED BY <2>1, <2>2, <2>3, <2>4
<1>3. MineInv'
  BY <1>1, <1>2 DEF MineInv
<1> QED BY <1>1, <1>3 DEF OfferInv, OwnedInv

LEMMA LookupIsMine ==
  ASSUME TypeOK, OfferInv, Lookup
  PROVE  OfferInv'
<1> DEFINE o == ctl.vol
           p == pvcache[ctl.v]
<1>1. /\ UNCHANGED <<pv, pvcache>> /\ ctl.step = "lookup" /\ ctl \in Control
      /\ Exists(o) /\ ctl.v \in Volumes /\ (ctl.pv.there => ctl.pv.owner = o.uid)
  BY DEF Lookup, api, OfferInv, MineInv, TypeOK, Control
<1>2. Tells(p, pv[ctl.v])
  BY <1>1 DEF OfferInv, OwnedInv
<1>3. CASE ctl' = Idle
  BY <1>1, <1>3, IdleIsMine DEF OfferInv, OwnedInv
<1>4. CASE ctl' = [ctl EXCEPT !.step = "deletePv"] /\ ControlledBy(p, o) /\ p.there /\ ~p.deleting
  <2>1. pv[ctl.v].owner # 0
    BY <1>1, <1>2, <1>4 DEF Tells, ControlledBy, Exists
  <2>2. MineInv'
    BY <1>1, <1>4, <2>1 DEF MineInv, Control
  <2> QED BY <1>1, <2>2 DEF OfferInv, OwnedInv
<1>5. CASE /\ ctl' = [[ctl EXCEPT !.pv = p] EXCEPT !.step = ReclaimStep(CurrentJob(o), p)]
           /\ ControlledBy(p, o) /\ (p.there => p.deleting /\ PersistentVolumeUnused(p))
  <2>1. /\ ctl'.v = ctl.v /\ ctl'.vol = o /\ ctl'.pv = p
        /\ ctl'.step = ReclaimStep(CurrentJob(o), p)
    BY <1>1, <1>5 DEF Control
  <2>2. ctl'.step \in {"unprepare", "dropVolume", "poll"} \/ (ctl'.step = "dropPv" /\ p.there)
    BY <2>1 DEF ReclaimStep
  <2>3. p.there => p.owner = o.uid /\ p.deleting /\ ~p.inuse /\ p.owner # 0
    BY <1>1, <1>5 DEF ControlledBy, PersistentVolumeUnused, Exists
  <2>4. p.there /\ pv[ctl.v].owner = p.owner => pv[ctl.v].deleting
    BY <1>2, <2>3 DEF Tells
  <2>5. MineInv'
    BY <1>1, <2>1, <2>2, <2>3, <2>4 DEF MineInv
  <2> QED BY <1>1, <2>5 DEF OfferInv, OwnedInv
<1>6. CASE /\ ctl' = [[ctl EXCEPT !.pv = p] EXCEPT !.step = DeployStep(o.status.job)]
           /\ ~p.there
  <2>1. /\ ctl'.v = ctl.v /\ ctl'.vol = o /\ ctl'.pv = p
        /\ ctl'.step \in {"protect", "size", "poll"}
    BY <1>1, <1>6 DEF Control, DeployStep
  <2>2. p.owner = 0
    BY <1>2, <1>6 DEF Tells
  <2>3. MineInv'
    BY <1>1, <1>6, <2>1, <2>2 DEF MineInv
  <2> QED BY <1>1, <2>3 DEF OfferInv, OwnedInv
<1>7. CASE \E s, a : GoSave(ctl, s, a)
  <2>1. ctl'.v = ctl.v /\ ctl'.vol = o /\ ctl'.pv = ctl.pv /\ ctl'.step = "save"
    BY <1>1, <1>7 DEF Control, GoSave
  <2> QED BY <1>1, <2>1, VolumeCallsAreMine
<1> QED
  BY <1>3, <1>4, <1>5, <1>6, <1>7 DEF Lookup, Go, Requeue, Finish

\* The calls of a reconciliation and its writes to a Volume.
LEMMA CallsAreMine ==
  ASSUME TypeOK, OfferInv,
         \/ Save \/ Protect \/ Poll \/ Size \/ DropVolume
         \/ CallFails \/ PollFails \/ SizeFails
         \/ \E j \in Jids : PrepareVolume(j) \/ UnprepareVolume(j) \/ AnswerLost(j)
  PROVE  OfferInv'
<1>1. UNCHANGED <<pv, pvcache>> /\ ctl \in Control
  BY DEF Save, Protect, Poll, Size, DropVolume, CallFails, PollFails, SizeFails,
         PrepareVolume, UnprepareVolume, AnswerLost, Refused, api, cache, TypeOK
<1>2. \/ ctl' = Idle
      \/ /\ ctl.step = "save" /\ ctl.pv.there
         /\ ctl' = [ctl EXCEPT !.vol = [ctl.vol EXCEPT !.status = ctl.next], !.step = "failPv"]
      \/ /\ ctl.step = "protect"
         /\ ctl' = [ctl EXCEPT !.vol = [ctl.vol EXCEPT !.fin = TRUE], !.step = "prepare"]
      \/ ctl.step = "size" /\ ctl' = [ctl EXCEPT !.step = "createPv"]
      \/ ctl.step # "idle" /\ \E s, a : GoSave(ctl, s, a)
  BY DEF Save, Protect, Poll, Size, DropVolume, CallFails, PollFails, SizeFails,
         PrepareVolume, UnprepareVolume, AnswerLost, Refused, Requeue, Finish, Go
<1>3. ctl.vol \in Volume
  BY <1>1 DEF Control
<1>4. CASE ctl.step # "idle" /\ \E s, a : GoSave(ctl, s, a)
  <2>1. ctl'.v = ctl.v /\ ctl'.vol = ctl.vol /\ ctl'.pv = ctl.pv /\ ctl'.step = "save"
    BY <1>1, <1>4 DEF GoSave, Control
  <2> QED BY <1>1, <1>4, <2>1, VolumeCallsAreMine
<1>5. CASE ctl.step # "idle" /\ ~\E s, a : GoSave(ctl, s, a)
  <2>1. ctl' = Idle \/ (/\ ctl'.v = ctl.v /\ ctl'.vol.uid = ctl.vol.uid /\ ctl'.pv = ctl.pv
                        /\ ctl'.step \in {"failPv", "prepare", "createPv"}
                        /\ ctl'.step = "failPv" => ctl.pv.there
                        /\ ctl'.step = "createPv" => ctl.step = "size")
    <3> DEFINE q == [ctl.vol EXCEPT !.status = ctl.next]
               r == [ctl.vol EXCEPT !.fin = TRUE]
    <3>1. q.uid = ctl.vol.uid /\ r.uid = ctl.vol.uid
      BY <1>3 DEF Volume
    <3> HIDE DEF q, r
    <3>2. CASE ctl' = [ctl EXCEPT !.vol = q, !.step = "failPv"] /\ ctl.pv.there
      BY <1>1, <3>1, <3>2 DEF Control
    <3>3. CASE ctl' = [ctl EXCEPT !.vol = r, !.step = "prepare"]
      BY <1>1, <3>1, <3>3 DEF Control
    <3>4. CASE ctl.step = "size" /\ ctl' = [ctl EXCEPT !.step = "createPv"]
      BY <1>1, <3>4 DEF Control
    <3> QED BY <1>2, <1>5, <3>2, <3>3, <3>4 DEF q, r
  <2> QED BY <1>1, <1>5, <2>1, VolumeCallsAreMine
<1> QED BY <1>1, <1>2, <1>4, <1>5, VolumeCallsAreMine

\* The writes to a PersistentVolume: none is of one that is not ours.
LEMMA PvWritesAreMine ==
  ASSUME TypeOK, OfferInv, FailPv \/ CreatePv \/ DeletePv \/ DropPv
  PROVE  /\ OfferInv'
         /\ \A v \in Volumes : pv'[v] # pv[v] => ~pv[v].there \/ pv[v].owner # 0
<1>1. ctl \in Control /\ ctl.v \in Volumes /\ ctl.vol \in Volume /\ ctl.pv \in Pv
      /\ pv[ctl.v] \in Pv
  BY DEF TypeOK, Control
<1>2. OwnedInv /\ MineInv
  BY DEF OfferInv
<1>3. CASE Refused
  BY <1>2, <1>3, IdleIsMine DEF Refused, Requeue, Finish, OfferInv, OwnedInv
<1>4. CASE FailPv /\ ~Refused
  <2> DEFINE p == [ctl.pv EXCEPT !.phase = "Failed"]
  <2>1. /\ SetPv(ctl.v, p) /\ ctl' = Idle /\ pv[ctl.v] = ctl.pv
        /\ ctl.pv.there /\ ctl.pv.owner # 0
    BY <1>2, <1>4 DEF FailPv, Requeue, Finish, MineInv, Exists
  <2>2. Handled(ctl.v, p)
    BY <1>1, <1>2, <2>1 DEF Handled, OwnedInv, Pv
  <2>3. OwnedInv' /\ MineInv'
    BY <1>1, <1>2, <2>1, <2>2, HandledKeeps, IdleIsMine
  <2>4. \A v \in Volumes : pv'[v] # pv[v] => v = ctl.v
    BY <2>1 DEF SetPv, TypeOK
  <2> QED BY <2>1, <2>3, <2>4 DEF OfferInv
<1>5. CASE CreatePv /\ ~Refused
  <2> DEFINE p == NewPv(ctl.vol.uid)
  <2>1. /\ SetPv(ctl.v, p) /\ GoSave(ctl, AvailableStatus, "requeue")
        /\ ctl.step = "createPv" /\ ~pv[ctl.v].there
    BY <1>5 DEF CreatePv
  <2>2. pv[ctl.v].owner = 0 /\ pvcache[ctl.v].owner = 0
    BY <1>1, <1>2, <2>1 DEF OwnedInv, MineInv
  <2>3. /\ pv'[ctl.v] = p
        /\ \A u \in Volumes : u # ctl.v => pv'[u] = pv[u] /\ pvcache'[u] = pvcache[u]
        /\ pvcache'[ctl.v] = pvcache[ctl.v] \/ pvcache'[ctl.v] = p
    BY <1>1, <2>1 DEF SetPv, TypeOK
  <2>4. p.there /\ p.fin /\ ~p.deleting
    BY DEF NewPv
  <2>5. OwnedInv'
    BY <1>2, <2>2, <2>3, <2>4 DEF OwnedInv, Tells
  <2>6. /\ ctl'.v = ctl.v /\ ctl'.vol = ctl.vol /\ ctl'.pv = ctl.pv /\ ctl'.step = "save"
    BY <1>1, <2>1 DEF GoSave, Control
  <2>7. MineInv'
    BY <1>2, <2>1, <2>6 DEF MineInv
  <2> QED BY <2>1, <2>3, <2>5, <2>7 DEF OfferInv
<1>6. CASE DeletePv
  <2> DEFINE p == IF pv[ctl.v].there
                    THEN CollectedPv([pv[ctl.v] EXCEPT !.deleting = TRUE])
                    ELSE NoPv
  <2>1. SetPv(ctl.v, p) /\ ctl' = Idle /\ pv[ctl.v].owner # 0
    BY <1>2, <1>6 DEF DeletePv, Requeue, Finish, MineInv
  <2>2. pv[ctl.v].there /\ pv[ctl.v].fin
    BY <1>1, <1>2, <2>1 DEF OwnedInv
  <2>3. p = [pv[ctl.v] EXCEPT !.deleting = TRUE]
    BY <1>1, <2>2 DEF CollectedPv, Pv
  <2>4. Handled(ctl.v, p)
    BY <1>1, <2>2, <2>3 DEF Handled, Pv
  <2>5. OwnedInv' /\ MineInv'
    BY <1>1, <1>2, <2>1, <2>4, HandledKeeps, IdleIsMine
  <2>6. \A v \in Volumes : pv'[v] # pv[v] => v = ctl.v
    BY <2>1 DEF SetPv, TypeOK
  <2> QED BY <2>1, <2>5, <2>6 DEF OfferInv
<1>7. CASE DropPv /\ ~Refused
  <2> DEFINE p == CollectedPv([ctl.pv EXCEPT !.fin = FALSE])
  <2>1. /\ SetPv(ctl.v, p) /\ ctl' = [ctl EXCEPT !.step = "dropVolume"]
        /\ ctl.step = "dropPv" /\ pv[ctl.v] = ctl.pv
    BY <1>7 DEF DropPv, Go
  <2>2. /\ ctl.pv.there /\ ctl.pv.deleting /\ ~ctl.pv.inuse /\ ctl.pv.owner # 0
        /\ Exists(ctl.vol)
        /\ pvcache[ctl.v].owner = ctl.pv.owner => pvcache[ctl.v].deleting
        /\ ctl.pv.owner = ctl.vol.uid
    BY <1>2, <2>1 DEF MineInv, Exists
  <2>3. p = NoPv
    BY <1>1, <2>2 DEF CollectedPv, Pv
  <2>4. /\ pv'[ctl.v] = NoPv
        /\ \A u \in Volumes : u # ctl.v => pv'[u] = pv[u] /\ pvcache'[u] = pvcache[u]
        /\ pvcache'[ctl.v] = pvcache[ctl.v] \/ pvcache'[ctl.v] = NoPv
    BY <1>1, <2>1, <2>3 DEF SetPv, TypeOK
  <2>5. NoPv.owner = 0 /\ ~NoPv.there
    BY DEF NoPv
  <2>6. Tells(pvcache[ctl.v], NoPv)
    BY <1>1, <1>2, <2>1, <2>2, <2>5 DEF OwnedInv, Tells
  <2>7. OwnedInv'
    BY <1>2, <2>4, <2>5, <2>6 DEF OwnedInv, Tells
  <2>8. ctl'.v = ctl.v /\ ctl'.vol = ctl.vol /\ ctl'.pv = ctl.pv /\ ctl'.step = "dropVolume"
    BY <1>1, <2>1 DEF Control
  <2>9. MineInv'
    BY <2>2, <2>8 DEF MineInv
  <2> QED BY <2>1, <2>2, <2>4, <2>7, <2>9 DEF OfferInv
<1> QED
  BY <1>3, <1>4, <1>5, <1>6, <1>7 DEF FailPv, CreatePv, DropPv

\* What users and the controllers of Kubernetes do to a PersistentVolume.
LEMMA OthersHandle ==
  ASSUME TypeOK, OwnedInv, NEW v \in Volumes,
         \/ CreateForeignPv(v) \/ UserDeletePv(v) \/ Bind(v) \/ Release(v)
         \/ Offer(v) \/ Recover(v) \/ Unprotect(v) \/ PvFails(v)
  PROVE  \E p : ChangePv(v, p) /\ Handled(v, p)
<1>1. pv[v] \in Pv /\ (pv[v].owner # 0 => pv[v].there /\ pv[v].fin)
  BY DEF TypeOK, OwnedInv
<1>2. CASE CreateForeignPv(v)
  <2> DEFINE p == [NoPv EXCEPT !.there = TRUE, !.phase = "Available", !.inuse = TRUE]
  <2>1. ChangePv(v, p) /\ ~pv[v].there
    BY <1>2 DEF CreateForeignPv
  <2>2. p.owner = 0
    BY DEF NoPv
  <2> QED BY <1>1, <2>1, <2>2 DEF Handled
<1>3. CASE UserDeletePv(v)
  <2> DEFINE q == [pv[v] EXCEPT !.deleting = TRUE]
             p == CollectedPv(q)
  <2>1. ChangePv(v, p)
    BY <1>3 DEF UserDeletePv
  <2>2. q.owner = pv[v].owner /\ q.fin = pv[v].fin /\ q.deleting /\ q.there = pv[v].there
    BY <1>1 DEF Pv
  <2>3. p = q \/ (p = NoPv /\ ~q.fin)
    BY DEF CollectedPv
  <2> HIDE DEF q, p
  <2>4. Handled(v, p)
    BY <1>1, <2>2, <2>3 DEF Handled, NoPv
  <2> QED BY <2>1, <2>4
<1>4. CASE Unprotect(v)
  <2> DEFINE q == [pv[v] EXCEPT !.inuse = FALSE]
             p == CollectedPv(q)
  <2>1. ChangePv(v, p)
    BY <1>4 DEF Unprotect
  <2>2. /\ q.owner = pv[v].owner /\ q.fin = pv[v].fin /\ q.deleting = pv[v].deleting
        /\ q.there = pv[v].there
    BY <1>1 DEF Pv
  <2>3. p = q \/ (p = NoPv /\ ~q.fin)
    BY DEF CollectedPv
  <2> HIDE DEF q, p
  <2>4. Handled(v, p)
    BY <1>1, <2>2, <2>3 DEF Handled, NoPv
  <2> QED BY <2>1, <2>4
<1>5. CASE Bind(v) \/ Release(v) \/ Offer(v) \/ Recover(v) \/ PvFails(v)
  <2>1. PICK phase \in PvPhases : ChangePv(v, [pv[v] EXCEPT !.phase = phase])
    BY <1>5 DEF Bind, Release, Offer, Recover, PvFails, PvPhases
  <2>2. Handled(v, [pv[v] EXCEPT !.phase = phase])
    BY <1>1 DEF Handled, Pv
  <2> QED BY <2>1, <2>2
<1> QED BY <1>2, <1>3, <1>4, <1>5

LEMMA StepIsMine ==
  ASSUME TypeOK, OfferInv, [Next]_vars
  PROVE  /\ OfferInv'
         /\ \A v \in Volumes :
              pv[v].there /\ pv[v].owner = 0 /\ pv'[v] # pv[v] => UNCHANGED ctl
<1>1. OwnedInv /\ MineInv
  BY DEF OfferInv
<1>2. CASE Lookup
  BY <1>2, LookupIsMine DEF Lookup, api
<1>3. CASE \/ Save \/ Protect \/ Poll \/ Size \/ DropVolume
           \/ CallFails \/ PollFails \/ SizeFails
           \/ \E j \in Jids : PrepareVolume(j) \/ UnprepareVolume(j) \/ AnswerLost(j)
  <2>1. UNCHANGED pv
    BY <1>3 DEF Save, Protect, Poll, Size, DropVolume, CallFails, PollFails, SizeFails,
         PrepareVolume, UnprepareVolume, AnswerLost, Refused, api
  <2> QED BY <1>3, <2>1, CallsAreMine
<1>4. CASE FailPv \/ CreatePv \/ DeletePv \/ DropPv
  BY <1>4, PvWritesAreMine
<1>5. CASE \/ Minion \/ LoseMessage \/ MinionRestart \/ MasterRestart
           \/ (\E j \in Jids : JobFails(j)) \/ UNCHANGED vars
           \/ (\E v \in Volumes : SyncVolume(v) \/ CreateVolume(v) \/ DeleteVolume(v))
  <2>1. UNCHANGED <<pv, pvcache, ctl>>
    BY <1>5 DEF Minion, Start, Complete, LoseMessage, MinionRestart, MasterRestart, JobFails,
         SyncVolume, CreateVolume, DeleteVolume, api, cache, vars
  <2> QED BY <2>1 DEF OfferInv, OwnedInv, MineInv
<1>6. CASE Crash
  <2>1. ctl' = Idle /\ pvcache' = pv /\ pv' = pv
    BY <1>6 DEF Crash, api
  <2>2. OwnedInv'
    BY <1>1, <2>1 DEF OwnedInv, Tells
  <2> QED BY <2>1, <2>2, IdleIsMine DEF OfferInv
<1>7. ASSUME NEW v \in Volumes, Fetch(v) PROVE OfferInv' /\ UNCHANGED pv
  BY <1>7, FetchIsMine DEF Fetch, api
<1>8. ASSUME NEW v \in Volumes, SyncPv(v) PROVE OfferInv' /\ UNCHANGED pv
  <2>1. /\ UNCHANGED <<pv, ctl>> /\ pvcache'[v] = pv[v]
        /\ \A u \in Volumes : u # v => pvcache'[u] = pvcache[u]
    BY <1>8 DEF SyncPv, api, TypeOK
  <2>2. OwnedInv'
    BY <1>1, <2>1 DEF OwnedInv, Tells
  <2>3. MineInv'
    BY <1>1, <2>1 DEF MineInv, TypeOK, Control
  <2> QED BY <2>1, <2>2, <2>3 DEF OfferInv
<1>9. ASSUME NEW v \in Volumes,
             \/ CreateForeignPv(v) \/ UserDeletePv(v) \/ Bind(v) \/ Release(v)
             \/ Offer(v) \/ Recover(v) \/ Unprotect(v) \/ PvFails(v)
      PROVE  OfferInv' /\ UNCHANGED ctl
  <2>1. PICK p : ChangePv(v, p) /\ Handled(v, p)
    BY <1>1, <1>9, OthersHandle
  <2> QED BY <1>1, <2>1, HandledKeeps DEF ChangePv, OfferInv
<1> QED
  BY <1>2, <1>3, <1>4, <1>5, <1>6, <1>7, <1>8, <1>9
     DEF Next, Worker, FaultStep, Environment

\* The operator never changes or deletes a PersistentVolume of the same name
\* that somebody made by hand, however late its caches are and whatever is
\* deleted and made again under that name meanwhile.
THEOREM ForeignIsUntouched == Spec => ForeignPvUntouched
<1>1. Init => OfferInv
  BY DEF Init, OfferInv, OwnedInv, MineInv, Tells, NoPv
<1>2. TypeOK /\ OfferInv /\ [Next]_vars => OfferInv'
  BY StepIsMine
<1>3. TypeOK /\ OfferInv /\ [Next]_vars =>
        [\A v \in Volumes :
           pv[v].there /\ pv[v].owner = 0 /\ pv'[v] # pv[v] => UNCHANGED ctl]_vars
  BY StepIsMine
<1> QED
  BY <1>1, <1>2, <1>3, TypeCorrect, PTL DEF Spec, ForeignPvUntouched

=============================================================================
