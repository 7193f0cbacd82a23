---------------------------- MODULE VolumeStorage ----------------------------
(***************************************************************************)
(* The backing storage of volumes on one node: what the Salt states        *)
(* metalk8s.volumes, metalk8s.volumes.unprepared and (when the minion      *)
(* starts) metalk8s.volumes.provisioned do to files, loop devices and disks *)
(* (salt/_modules/metalk8s_volumes.py and salt/_states/metalk8s_volumes.py). *)
(*                                                                         *)
(* The minion runs one state run at a time.  A run may be killed between   *)
(* two of its system calls, the minion may restart and the node may        *)
(* reboot.  A volume is identified by its uid, so one that is created again *)
(* under the same name is another volume.                                  *)
(***************************************************************************)
EXTENDS Naturals, FiniteSets, Probe

CONSTANTS
  Sparse,     \* volumes backed by a sparse file of their own
  Raw,        \* volumes backed by a block device
  Devices,    \* block devices of the node
  Faults,     \* kinds of fault that may happen
  MaxFaults   \* how many faults happen at most

Volumes == Sparse \cup Raw
Places  == Sparse \cup Devices   \* a sparse file is named after its volume
FaultKinds == {"kill", "restart", "reboot", "command", "class"}

ASSUME DisjointAssumption ==
  /\ Sparse \cap Raw = {} /\ Volumes \cap Devices = {}
  /\ Volumes \cap {"absent", "short", "blank", "foreign", "parted"} = {}
ASSUME VolumeAssumption == Volumes # {}
ASSUME FaultAssumption == Faults \subseteq FaultKinds /\ MaxFaults \in Nat

VARIABLES
  pillar,    \* the Volume objects, as the pillar of the node shows them
  device,    \* spec.rawBlockDevice.devicePath of each raw volume
  content,   \* what a probe finds at each place
  loop,      \* loop device of each sparse file
  link,      \* volumes that have their link in /dev/disk/by-uuid
  run,       \* the state run of the minion and the step it is at
  todo,      \* volumes the startup run has still to provision
  result,    \* how the last run of each volume ended
  faults     \* number of faults so far

vars == <<pillar, device, content, loop, link, run, todo, result, faults>>

(* "short" is a file that was created but has not its size yet, "blank" a  *)
(* place without filesystem or partition table, a volume its filesystem.   *)
Contents == {"absent", "short", "blank", "foreign", "parted"} \cup Volumes
Steps == {"idle", "startup", "present", "truncate", "formatted", "mkfs",
          "provisioned", "removed", "unlink"}
Results == {"none", "prepared", "removed", "failed"}

\* loop: "plain" when there was no filesystem for udev to find when the loop
\* device was set up, "fs" when there was one.
TypeOK ==
  /\ pillar \in [Volumes -> {"new", "there", "deleting", "gone"}]
  /\ device \in [Raw -> Devices]
  /\ content \in [Places -> Contents]
  /\ loop \in [Sparse -> {"none", "plain", "fs"}]
  /\ link \subseteq Sparse
  /\ run \in [step : Steps, v : Volumes]
  /\ todo \subseteq Volumes
  /\ result \in [Volumes -> Results]
  /\ faults \in 0..MaxFaults

Path(v) == IF v \in Sparse THEN v ELSE device[v]

-----------------------------------------------------------------------------
(* Probes. *)

Disk(v) == RawBlockDevice(content[device[v]] # "absent")

\* `exists': a file of the size of the volume, or a block device.
Present(v) == IF v \in Raw THEN Disk(v).exists ELSE content[v] \notin {"absent", "short"}

\* What libblkid sees of a content, for a volume that may own its filesystem.
Shown(c, v) ==
  [fs    |-> IF c \in {"foreign"} \cup Volumes THEN "xfs" ELSE None,
   uuid  |-> IF c = v THEN "ours" ELSE "other",
   table |-> c = "parted", ambivalent |-> FALSE, failing |-> None]

\* A StorageClass that exists.
Class == [found |-> TRUE, fsType |-> "xfs", options |-> <<>>]

\* The contents that are the filesystem of each volume, and those on which
\* `format' runs its command.
Ours == [v \in Volumes |-> {c \in Contents : is_formatted(Shown(c, v))}]
Formattable ==
  [v \in Volumes |-> {c \in Contents \ {"absent", "short"} :
                       Format("path", Shown(c, v), Class) # <<Raised>>}]

\* Mutant: another filesystem than ours is taken for formatted.
IsFormattedByAnyone(v) == content[Path(v)] \in {"foreign"} \cup Volumes
IsFormatted(v) == content[Path(v)] \in Ours[v]

\* Mutant: a partition table does not prevent the formatting.
MayFormatPartitioned(v) == content[Path(v)] \in {"blank", "parted"}
\* `format' bails out on a filesystem or a partition table.
MayFormat(v) == content[Path(v)] \in Formattable[v]

IsProvisioned(v) == IF v \in Raw THEN Disk(v).is_provisioned ELSE loop[v] # "none"

IsCleanedUp(v) == IF v \in Raw THEN Disk(v).is_cleaned_up
                               ELSE ~(IsProvisioned(v) \/ Present(v))

-----------------------------------------------------------------------------
(* The state runs.  A failed state ends its run, since each state requires *)
(* the one before.                                                         *)

Fault(kind) == /\ kind \in Faults /\ faults < MaxFaults
               /\ faults' = faults + 1

\* Between two runs no volume is served.
Idle == [step |-> "idle", v |-> CHOOSE v \in Volumes : TRUE]

Go(step) == run' = [run EXCEPT !.step = step] /\ UNCHANGED <<todo, result>>
End(r) == /\ run' = Idle
          /\ result' = [result EXCEPT ![run.v] = r]
          /\ UNCHANGED todo
Put(v, c) == content' = [content EXCEPT ![Path(v)] = c]

\* The minion takes a job for a volume of its pillar.
StartPrepare(v) ==
  /\ run.step = "idle"
  /\ pillar[v] = "there" /\ result[v] # "failed"
  /\ run' = [step |-> "present", v |-> v]
  /\ UNCHANGED <<pillar, device, content, loop, link, todo, result, faults>>

StartRemove(v) ==
  /\ run.step = "idle"
  /\ pillar[v] = "deleting" /\ result[v] # "removed"
  /\ run' = [step |-> "removed", v |-> v]
  /\ UNCHANGED <<pillar, device, content, loop, link, todo, result, faults>>

\* metalk8s_volumes.present: a sparse file is created exclusively.
PresentStep ==
  /\ run.step = "present"
  /\ LET v == run.v IN
       \/ Present(v) /\ Go("formatted") /\ UNCHANGED content
       \/ /\ v \in Sparse /\ content[v] = "absent"
          /\ Put(v, "short") /\ Go("truncate")
       \/ /\ ~Present(v) /\ (v \in Sparse => content[v] # "absent")
          /\ End("failed") /\ UNCHANGED content
  /\ UNCHANGED <<pillar, device, loop, link, faults>>

\* The file gets its size, or is unlinked if it cannot.
Truncate ==
  /\ run.step = "truncate"
  /\ \/ Put(run.v, "blank") /\ Go("formatted") /\ UNCHANGED faults
     \/ Fault("command") /\ Put(run.v, "absent") /\ End("failed")
  /\ UNCHANGED <<pillar, device, loop, link>>

\* metalk8s_volumes.formatted: a StorageClass that does not exist fails it, and
\* so does a probe that raises.
Formatted ==
  /\ run.step = "formatted"
  /\ LET v == run.v IN
       \/ IsFormatted(v) /\ Go("provisioned") /\ UNCHANGED faults
       \/ ~IsFormatted(v) /\ MayFormat(v) /\ Go("mkfs") /\ UNCHANGED faults
       \/ ~IsFormatted(v) /\ ~MayFormat(v) /\ End("failed") /\ UNCHANGED faults
       \/ ~IsFormatted(v) /\ MayFormat(v) /\ Fault("class") /\ End("failed")
       \/ Fault("command") /\ End("failed")
  /\ UNCHANGED <<pillar, device, content, loop, link>>

Mkfs ==
  /\ run.step = "mkfs"
  /\ \/ Put(run.v, run.v) /\ Go("provisioned") /\ UNCHANGED faults
     \/ Fault("command") /\ End("failed") /\ UNCHANGED content
  /\ UNCHANGED <<pillar, device, loop, link>>

\* `losetup --find': udev looks for a filesystem when the device appears.
Attach(v) == loop' = [loop EXCEPT ![v] =
                        IF content[v] \in Volumes THEN "fs" ELSE "plain"]

\* metalk8s_volumes.provisioned, at the end of the preparation.
Provisioned ==
  /\ run.step = "provisioned"
  /\ LET v == run.v IN
       \/ IsProvisioned(v) /\ End("prepared") /\ UNCHANGED <<loop, faults>>
       \/ ~IsProvisioned(v) /\ Attach(v) /\ End("prepared") /\ UNCHANGED faults
       \/ /\ ~IsProvisioned(v) /\ Fault("command")
          /\ End("failed") /\ UNCHANGED loop
  /\ UNCHANGED <<pillar, device, content, link>>

\* Mutant: the file is removed first, and its loop device never found again.
RemovedFileFirst ==
  /\ run.step = "removed"
  /\ \/ IsCleanedUp(run.v) /\ End("removed") /\ UNCHANGED content
     \/ ~IsCleanedUp(run.v) /\ Put(run.v, "absent") /\ End("removed")
  /\ UNCHANGED <<pillar, device, loop, link, faults>>

\* Mutant: a missing link is an error like another.
RemovedRaises ==
  /\ run.step = "removed"
  /\ LET v == run.v IN
       \/ IsCleanedUp(v) /\ End("removed") /\ UNCHANGED loop
       \/ ~IsCleanedUp(v) /\ v \notin link /\ End("failed") /\ UNCHANGED loop
       \/ /\ ~IsCleanedUp(v) /\ v \in link
          /\ loop' = [loop EXCEPT ![v] = "none"] /\ Go("unlink")
  /\ UNCHANGED <<pillar, device, content, link, faults>>

\* metalk8s_volumes.removed: the loop device is found by the UUID of the
\* filesystem.  Without that link there is nothing to remove (ENOENT); a link
\* to a device that was released already is an error (ENXIO).
Removed ==
  /\ run.step = "removed"
  /\ LET v == run.v IN
       \/ IsCleanedUp(v) /\ End("removed") /\ UNCHANGED loop
       \/ ~IsCleanedUp(v) /\ v \notin link /\ End("removed") /\ UNCHANGED loop
       \/ /\ ~IsCleanedUp(v) /\ v \in link /\ loop[v] = "none"
          /\ End("failed") /\ UNCHANGED loop
       \/ /\ ~IsCleanedUp(v) /\ v \in link /\ loop[v] # "none"
          /\ loop' = [loop EXCEPT ![v] = "none"] /\ Go("unlink")
  /\ UNCHANGED <<pillar, device, content, link, faults>>

Unlink ==
  /\ run.step = "unlink"
  /\ Put(run.v, "absent") /\ End("removed")
  /\ UNCHANGED <<pillar, device, loop, link, faults>>

\* metalk8s.volumes.provisioned, for all the volumes in parallel: losetup
\* fails for a file that is not there.
StartupStep(v) ==
  /\ run.step = "startup" /\ v \in todo
  /\ todo' = todo \ {v}
  /\ \/ IsProvisioned(v) /\ UNCHANGED <<loop, faults>>
     \/ /\ ~IsProvisioned(v) /\ content[v] = "absent"
        /\ UNCHANGED <<loop, faults>>
     \/ /\ ~IsProvisioned(v) /\ content[v] # "absent"
        /\ Attach(v) /\ UNCHANGED faults
     \/ ~IsProvisioned(v) /\ Fault("command") /\ UNCHANGED loop
  /\ UNCHANGED <<pillar, device, content, link, run, result>>

StartupEnd ==
  /\ run.step = "startup" /\ todo = {}
  /\ run' = Idle
  /\ UNCHANGED <<pillar, device, content, loop, link, todo, result, faults>>

-----------------------------------------------------------------------------
(* udev, the users with the storage operator, and the faults. *)

LinkAppears(v) ==
  /\ loop[v] = "fs" /\ v \notin link
  /\ link' = link \cup {v}
  /\ UNCHANGED <<pillar, device, content, loop, run, todo, result, faults>>

LinkDisappears(v) ==
  /\ loop[v] = "none" /\ v \in link
  /\ link' = link \ {v}
  /\ UNCHANGED <<pillar, device, content, loop, run, todo, result, faults>>

SetPillar(v, from, to) ==
  /\ pillar[v] = from
  /\ pillar' = [pillar EXCEPT ![v] = to]
  /\ UNCHANGED <<device, content, loop, link, run, todo, faults>>

CreateVolume(v) == SetPillar(v, "new", "there") /\ UNCHANGED result

\* The operator asks for a removal only when the preparation has ended.
DeleteVolume(v) ==
  /\ result[v] \in {"prepared", "failed"}
  /\ SetPillar(v, "there", "deleting") /\ UNCHANGED result

\* The finalizer is dropped once the removal is reported.
ForgetVolume(v) ==
  result[v] = "removed" /\ SetPillar(v, "deleting", "gone") /\ UNCHANGED result

\* What a mkfs that is killed leaves behind.
Torn == IF run.step = "mkfs"
        THEN \E c \in {"blank", run.v} : Put(run.v, c)
        ELSE UNCHANGED content

Killed ==
  /\ Fault("kill")
  /\ run.step \notin {"idle", "startup"}
  /\ Torn
  /\ run' = Idle
  /\ UNCHANGED <<pillar, device, loop, link, todo, result>>

\* The minion starts: its startup run is for the volumes of its pillar.
Startup == /\ run' = [Idle EXCEPT !.step = "startup"]
           /\ todo' = {v \in Volumes : pillar[v] \in {"there", "deleting"}}

MinionRestart ==
  /\ Fault("restart")
  /\ Torn /\ Startup
  /\ UNCHANGED <<pillar, device, loop, link, result>>

Reboot ==
  /\ Fault("reboot")
  /\ Torn /\ Startup
  /\ loop' = [v \in Sparse |-> "none"] /\ link' = {}
  /\ UNCHANGED <<pillar, device, result>>

-----------------------------------------------------------------------------
Init ==
  /\ pillar = [v \in Volumes |-> "new"]
  /\ device \in [Raw -> Devices]
  /\ \E d \in [Devices -> {"absent", "blank", "foreign", "parted"}] :
       content = [p \in Places |-> IF p \in Sparse THEN "absent" ELSE d[p]]
  /\ loop = [v \in Sparse |-> "none"] /\ link = {}
  /\ run = Idle /\ todo = {} /\ faults = 0
  /\ result = [v \in Volumes |-> "none"]

Minion ==
  \/ PresentStep \/ Truncate \/ Formatted \/ Mkfs \/ Provisioned
  \/ Removed \/ Unlink \/ StartupEnd
  \/ \E v \in Volumes : StartupStep(v)

Udev == \E v \in Sparse : LinkAppears(v) \/ LinkDisappears(v)

Next ==
  \/ Minion \/ Udev \/ Killed \/ MinionRestart \/ Reboot
  \/ \E v \in Volumes :
       \/ CreateVolume(v) \/ DeleteVolume(v) \/ ForgetVolume(v)
       \/ StartPrepare(v) \/ StartRemove(v)

Spec == Init /\ [][Next]_vars

-----------------------------------------------------------------------------
(* Properties. *)

\* A preparation is reported done (`provisioned' succeeds) only for storage
\* that carries the filesystem of this very volume and, for a sparse file, is
\* attached to a loop device.
PreparedIsReady ==
  [][\A v \in Volumes :
       result'[v] = "prepared" /\ result[v] # "prepared" =>
         content'[Path(v)] = v /\ (v \in Sparse => loop'[v] # "none")]_vars

\* "we don't want data loss because of a typo": no run ever changes a
\* filesystem or a partition table, except to remove a sparse file whose own
\* volume is being deleted.
ContentKept ==
  [][\A p \in Places :
       content[p] \in {"foreign", "parted"} \cup Volumes =>
         \/ content'[p] = content[p]
         \/ p \in Sparse /\ pillar[p] = "deleting"]_vars

\* Two volumes are never prepared on one block device, whatever their specs.
OneVolumePerDevice ==
  \A v, w \in Raw :
    result[v] = "prepared" /\ result[w] = "prepared"
    /\ device[v] = device[w] => v = w

\* A loop device never outlives the sparse file it shows: `clean_up' releases
\* it first, since nothing would find it once the file is gone.
LoopHasFile == \A v \in Sparse : loop[v] # "none" => content[v] # "absent"

\* "Remove and cleanup the given volume": once `removed' reports success
\* there is neither a file nor a loop device left.
RemovedLeavesNothing ==
  \A v \in Sparse :
    result[v] = "removed" => loop[v] = "none" /\ content[v] = "absent"

-----------------------------------------------------------------------------
(* Liveness: a run goes on, udev follows, and the operator asks again for a *)
(* removal until it succeeds.                                              *)
LiveSpec ==
  /\ Spec
  /\ WF_vars(Minion) /\ WF_vars(Udev)
  /\ \A v \in Volumes :
       /\ WF_vars(ForgetVolume(v))
       /\ SF_vars(StartRemove(v))

\* A volume whose deletion was accepted is eventually forgotten.
DeletedIsForgotten ==
  \A v \in Volumes : pillar[v] = "deleting" ~> pillar[v] = "gone"
=============================================================================
