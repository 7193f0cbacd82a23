------------------------ MODULE VolumeStorage_proofs ------------------------
(***************************************************************************)
(* Proofs about VolumeStorage, for any volumes, any devices and any number *)
(* of kills, restarts and failing commands.                                *)
(***************************************************************************)
EXTENDS VolumeStorage, TLAPS

\* What the run in progress relies on at each of its steps.
StepInv ==
  /\ run.step = "truncate" =>
       run.v \in Sparse /\ content[run.v] = "short" /\ loop[run.v] = "none"
  /\ run.step = "mkfs" => content[Path(run.v)] = "blank"
  /\ run.step = "provisioned" => content[Path(run.v)] = run.v
  /\ run.step \in {"removed", "unlink"} =>
       pillar[run.v] = "deleting" /\ result[run.v] # "removed"
  /\ run.step = "unlink" => run.v \in Sparse /\ loop[run.v] = "none"

\* A raw volume that was prepared keeps its filesystem.
PreparedHolds ==
  \A v \in Raw : result[v] = "prepared" => content[device[v]] = v

IInv == TypeOK /\ StepInv /\ LoopHasFile /\ PreparedHolds

-----------------------------------------------------------------------------
(* What the probes find. *)

\* libblkid answers about a device on which none of its calls fails.
LEMMA ProbeWorks ==
  ASSUME NEW d, d.failing = None, d.ambivalent = FALSE
  PROVE  /\ _get_from_blkid(d).fstype = d.fs
         /\ _get_from_blkid(d).uuid = IF d.fs # None THEN d.uuid ELSE None
         /\ _get_from_blkid(d).has_partition <=> d.table
<1> DEFINE info == _get_from_blkid(d)
<1> SUFFICES /\ info.fstype = d.fs
             /\ info.uuid = IF d.fs # None THEN d.uuid ELSE None
             /\ info.has_partition <=> d.table
  OBVIOUS
<1> DEFINE config == [superblocks |-> TRUE, partitions |-> TRUE,
                      flags |-> get_superblock_flags({"UUID", "TYPE"})]
<1> DEFINE found == Detected(d, config)
<1>1. config.superblocks /\ config.partitions /\ config.flags = {"UUID", "TYPE"}
  BY DEF get_superblock_flags, _get_flags, Superblock
<1>2. info = get_blkid_probe(d, config)
  BY DEF _get_from_blkid
<1> HIDE DEF config, info
<1>3. /\ found.TYPE <=> d.fs # None
      /\ found.UUID <=> d.fs # None
      /\ found.PTTYPE <=> d.table
  BY <1>1 DEF Detected
<1> HIDE DEF found
<1>4. \A call : call \notin {None, "do_safeprobe"} => Code(d, config, call) = 0
  BY DEF Code
<1>5. Code(d, config, "do_safeprobe") =
        IF found.TYPE \/ found.UUID \/ found.PTTYPE THEN 0 ELSE 1
  BY DEF Code, None, found
<1>6. _check(d, config, OpenCall) /\ configure(d, config)
  <2>1. \A i \in 1..Len(ConfigureCalls) : ConfigureCalls[i] \notin {None, "do_safeprobe"}
    BY DEF ConfigureCalls, None
  <2> QED BY <1>4, <2>1 DEF _check, configure, OpenCall, None
<1>7. /\ _check(d, config, "do_safeprobe") /\ _check(d, config, "numof_values")
      /\ _check(d, config, "get_value")
  BY <1>4, <1>5 DEF _check, None
<1>8. info = probe(d, config)
  BY <1>2, <1>6 DEF get_blkid_probe
<1>9. CASE Code(d, config, "do_safeprobe") = 1
  <2>1. info = DeviceInfo(None, None, FALSE)
    BY <1>7, <1>8, <1>9 DEF probe
  <2> QED BY <1>3, <1>5, <1>9, <2>1 DEF DeviceInfo
<1>10. CASE Code(d, config, "do_safeprobe") # 1
  <2>1. info = DeviceInfo(IF found.TYPE THEN d.fs ELSE None,
                          IF found.UUID THEN d.uuid ELSE None, found.PTTYPE)
    BY <1>7, <1>8, <1>10 DEF probe, found
  <2> QED BY <1>3, <2>1 DEF DeviceInfo
<1> QED BY <1>9, <1>10

\* A filesystem is ours when its UUID is that of the volume, and nothing but a
\* blank place is formatted.
LEMMA Probes ==
  ASSUME NEW v \in Volumes
  PROVE  Ours[v] = {v} /\ Formattable[v] \subseteq {"blank"}
<1>1. v \in Contents
  BY DEF Contents
<1>2. ASSUME NEW c \in Contents
      PROVE  /\ Shown(c, v).failing = None /\ Shown(c, v).ambivalent = FALSE
             /\ Shown(c, v).fs = IF c \in {"foreign"} \cup Volumes THEN "xfs" ELSE None
             /\ Shown(c, v).uuid = IF c = v THEN "ours" ELSE "other"
             /\ Shown(c, v).table <=> c = "parted"
  BY DEF Shown
<1>3. ASSUME NEW c \in Contents
      PROVE  is_formatted(Shown(c, v)) <=> c = v
  <2>1. _get_from_blkid(Shown(c, v)).uuid =
          IF Shown(c, v).fs # None THEN Shown(c, v).uuid ELSE None
    BY <1>2, ProbeWorks
  <2> QED BY <1>2, <2>1 DEF is_formatted, None
<1>4. ASSUME NEW c \in Contents \ {"absent", "short"}, c # "blank"
      PROVE  Format("path", Shown(c, v), Class) = <<Raised>>
  <2>1. c \in {"foreign"} \cup Volumes \/ c = "parted"
    BY <1>4 DEF Contents
  <2>2. /\ _get_from_blkid(Shown(c, v)).fstype = Shown(c, v).fs
        /\ _get_from_blkid(Shown(c, v)).has_partition <=> Shown(c, v).table
    BY <1>2, ProbeWorks
  <2> QED BY <1>2, <2>1, <2>2 DEF Format, None
<1> QED BY <1>1, <1>3, <1>4 DEF Ours, Formattable

-----------------------------------------------------------------------------
(* Types. *)

LEMMA PathType ==
  ASSUME TypeOK, NEW v \in Volumes
  PROVE  Path(v) \in Places /\ (v \in Sparse => Path(v) = v)
BY DEF TypeOK, Path, Places, Volumes

LEMMA IdleType == Idle \in [step : Steps, v : Volumes] /\ Idle.step = "idle"
<1>1. Idle.v \in Volumes
  BY VolumeAssumption DEF Idle
<1> QED BY <1>1 DEF Idle, Steps

LEMMA InitType == Init => TypeOK
<1> SUFFICES ASSUME Init PROVE TypeOK
  OBVIOUS
<1>1. PICK d \in [Devices -> {"absent", "blank", "foreign", "parted"}] :
        content = [p \in Places |-> IF p \in Sparse THEN "absent" ELSE d[p]]
  BY DEF Init
<1>2. content \in [Places -> Contents]
  BY <1>1 DEF Places, Contents
<1> QED BY <1>2, IdleType, FaultAssumption DEF Init, TypeOK, Results

LEMMA MinionType == TypeOK /\ Minion => TypeOK'
<1> SUFFICES ASSUME TypeOK, Minion PROVE TypeOK'
  OBVIOUS
<1>1. /\ run.v \in Volumes /\ run.step \in Steps /\ Path(run.v) \in Places
      /\ run \in [step : Steps, v : Volumes]
  BY PathType DEF TypeOK
<1>2. \A step \in Steps : Go(step) => /\ run' \in [step : Steps, v : Volumes]
                                      /\ todo' \subseteq Volumes
                                      /\ result' \in [Volumes -> Results]
  BY <1>1 DEF Go, TypeOK
<1>3. \A r \in Results : End(r) => /\ run' \in [step : Steps, v : Volumes]
                                   /\ todo' \subseteq Volumes
                                   /\ result' \in [Volumes -> Results]
  BY IdleType DEF End, TypeOK
<1>4. \A c \in Contents : Put(run.v, c) => content' \in [Places -> Contents]
  BY <1>1 DEF Put, TypeOK
<1>5. \A kind : Fault(kind) => faults' \in 0..MaxFaults
  BY FaultAssumption DEF Fault, TypeOK
<1>6. \A v : Attach(v) => loop' \in [Sparse -> {"none", "plain", "fs"}]
  BY DEF Attach, TypeOK
<1>7. /\ {"short", "blank", "absent"} \cup Volumes \subseteq Contents
      /\ {"failed", "prepared", "removed"} \subseteq Results
      /\ {"formatted", "truncate", "provisioned", "mkfs", "unlink"} \subseteq Steps
  BY DEF Contents, Results, Steps
<1>8. CASE PresentStep
  BY <1>2, <1>3, <1>4, <1>7, <1>8 DEF PresentStep, TypeOK
<1>9. CASE Truncate
  BY <1>2, <1>3, <1>4, <1>5, <1>7, <1>9 DEF Truncate, TypeOK
<1>10. CASE Formatted
  BY <1>2, <1>3, <1>5, <1>7, <1>10 DEF Formatted, TypeOK
<1>11. CASE Mkfs
  BY <1>1, <1>2, <1>3, <1>4, <1>5, <1>7, <1>11 DEF Mkfs, TypeOK
<1>12. CASE Provisioned
  BY <1>3, <1>5, <1>6, <1>7, <1>12 DEF Provisioned, TypeOK
<1>13. CASE Removed
  BY <1>2, <1>3, <1>7, <1>13 DEF Removed, TypeOK
<1>14. CASE Unlink
  BY <1>3, <1>4, <1>7, <1>14 DEF Unlink, TypeOK
<1>15. CASE StartupEnd
  BY <1>15, IdleType DEF StartupEnd, TypeOK
<1>16. ASSUME NEW v \in Volumes, StartupStep(v) PROVE TypeOK'
  BY <1>5, <1>6, <1>16 DEF StartupStep, TypeOK
<1> QED
  BY <1>8, <1>9, <1>10, <1>11, <1>12, <1>13, <1>14, <1>15, <1>16 DEF Minion

LEMMA OthersType ==
  ASSUME TypeOK, NEW v \in Volumes,
         \/ CreateVolume(v) \/ DeleteVolume(v) \/ ForgetVolume(v)
         \/ StartPrepare(v) \/ StartRemove(v) \/ LinkDisappears(v)
         \/ v \in Sparse /\ LinkAppears(v)
  PROVE  TypeOK'
BY DEF TypeOK, CreateVolume, DeleteVolume, ForgetVolume, SetPillar, StartPrepare,
       StartRemove, LinkAppears, LinkDisappears, Steps

LEMMA FaultsType ==
  ASSUME TypeOK, Killed \/ MinionRestart \/ Reboot
  PROVE  TypeOK'
<1>1. content' \in [Places -> Contents]
  <2>1. Torn => content' = content \/ \E c \in {"blank", run.v} : Put(run.v, c)
    BY DEF Torn
  <2>2. run.v \in Volumes /\ Path(run.v) \in Places
    BY PathType DEF TypeOK
  <2> QED BY <2>1, <2>2 DEF Killed, MinionRestart, Reboot, Put, TypeOK, Contents
<1>2. faults' \in 0..MaxFaults
  BY FaultAssumption DEF Killed, MinionRestart, Reboot, Fault, TypeOK
<1>3. Startup => run' \in [step : Steps, v : Volumes] /\ todo' \subseteq Volumes
  BY IdleType DEF Startup, Steps
<1> QED
  BY <1>1, <1>2, <1>3, IdleType DEF Killed, MinionRestart, Reboot, TypeOK

LEMMA NextType == TypeOK /\ [Next]_vars => TypeOK'
<1> SUFFICES ASSUME TypeOK, [Next]_vars PROVE TypeOK'
  OBVIOUS
<1>1. CASE UNCHANGED vars
  BY <1>1 DEF vars, TypeOK
<1> QED
  BY <1>1, MinionType, OthersType, FaultsType DEF Next, Udev, Volumes

\* Every volume, device, link and run stays within what TypeOK says.
THEOREM TypeCorrect == Spec => []TypeOK
BY InitType, NextType, PTL DEF Spec

-----------------------------------------------------------------------------
(* The inductive invariant. *)

LEMMA InitInv == Init => IInv
<1> SUFFICES ASSUME Init PROVE IInv
  OBVIOUS
<1>1. TypeOK
  BY InitType
<1>2. StepInv
  BY IdleType DEF Init, StepInv
<1>3. LoopHasFile /\ PreparedHolds
  BY DEF Init, LoopHasFile, PreparedHolds, Volumes
<1> QED BY <1>1, <1>2, <1>3 DEF IInv

\* A run that ends leaves nothing for the next one to rely on.
LEMMA Ended ==
  run' = Idle => StepInv'
BY IdleType DEF StepInv

\* What a run may make of the contents and of the loop devices.
LEMMA Changed ==
  ASSUME IInv, UNCHANGED <<device, link>>,
         \A v \in Sparse : loop'[v] # "none" => content'[v] # "absent",
         \A v \in Raw : /\ content[device[v]] = v => content'[device[v]] = v
                        /\ result'[v] = "prepared" =>
                             result[v] = "prepared" \/ content'[device[v]] = v
  PROVE  LoopHasFile' /\ PreparedHolds'
BY DEF IInv, LoopHasFile, PreparedHolds

\* A place is that of one volume, unless it is a device.
LEMMA Apart ==
  ASSUME TypeOK
  PROVE  /\ \A v \in Sparse, w \in Raw : v # device[w] /\ v # w
         /\ \A v \in Sparse : Path(v) = v
         /\ \A v \in Raw : Path(v) = device[v] /\ v \notin Sparse
BY DisjointAssumption DEF TypeOK, Path, Volumes

LEMMA NotNames ==
  /\ \A v \in Volumes : v \notin {"absent", "short", "blank", "foreign", "parted"}
BY DisjointAssumption

LEMMA PrepareInv ==
  ASSUME IInv, TypeOK', PresentStep \/ Truncate \/ Formatted \/ Mkfs \/ Provisioned
  PROVE  IInv'
<1> DEFINE v == run.v
<1>1. /\ v \in Volumes /\ TypeOK /\ run \in [step : Steps, v : Volumes]
      /\ StepInv /\ LoopHasFile /\ PreparedHolds
      /\ content \in [Places -> Contents] /\ loop \in [Sparse -> {"none", "plain", "fs"}]
      /\ Path(v) \in Places /\ result \in [Volumes -> Results]
  BY PathType DEF IInv, TypeOK
<1>2. \A step : Go(step) => run'.step = step /\ run'.v = v /\ result' = result
  BY <1>1 DEF Go
<1>3. \A r : End(r) => run' = Idle /\ \A w \in Volumes :
                                        result'[w] = IF w = v THEN r ELSE result[w]
  BY <1>1 DEF End
<1>4. \A c : Put(v, c) => \A p \in Places : content'[p] = IF p = Path(v) THEN c ELSE content[p]
  BY <1>1 DEF Put
<1>5. Sparse \subseteq Places /\ \A w \in Raw : device[w] \in Places
  BY <1>1 DEF TypeOK, Places
<1> USE DEF Volumes
<1>6. CASE PresentStep
  <2>1. StepInv'
    <3>1. CASE Go("truncate")
      <4>1. v \in Sparse /\ content[v] = "absent" /\ Put(v, "short")
        BY <1>2, <1>3, <1>6, <3>1, IdleType DEF PresentStep
      <4>2. loop'[v] = "none" /\ content'[v] = "short" /\ run'.step = "truncate" /\ run'.v = v
        BY <1>1, <1>2, <1>4, <1>5, <1>6, <3>1, <4>1, Apart DEF PresentStep, LoopHasFile
      <4> QED BY <4>1, <4>2 DEF StepInv
    <3>2. CASE Go("formatted")
      BY <1>2, <3>2 DEF StepInv
    <3>3. CASE End("failed")
      BY <1>3, <3>3, Ended
    <3> QED BY <1>6, <3>1, <3>2, <3>3 DEF PresentStep
  <2>2. \A w \in Sparse : loop'[w] # "none" => content'[w] # "absent"
    BY <1>1, <1>4, <1>5, <1>6, Apart DEF PresentStep, LoopHasFile
  <2>3. \A w \in Raw : /\ content'[device[w]] = content[device[w]]
                       /\ result'[w] = "prepared" => result[w] = "prepared"
    BY <1>1, <1>2, <1>3, <1>4, <1>5, <1>6, Apart DEF PresentStep
  <2> QED BY <1>1, <1>6, <2>1, <2>2, <2>3, Changed DEF PresentStep, IInv
<1>7. CASE Truncate
  <2>1. v \in Sparse /\ loop[v] = "none" /\ UNCHANGED <<device, link, loop>>
    BY <1>1, <1>7 DEF StepInv, Truncate
  <2>2. StepInv'
    BY <1>2, <1>3, <1>7, Ended DEF Truncate, StepInv
  <2>3. \A w \in Sparse : loop'[w] # "none" => content'[w] # "absent"
    BY <1>1, <1>4, <1>5, <1>7, <2>1, Apart DEF Truncate, LoopHasFile
  <2>4. \A w \in Raw : /\ content'[device[w]] = content[device[w]]
                       /\ result'[w] = "prepared" => result[w] = "prepared"
    BY <1>1, <1>2, <1>3, <1>4, <1>5, <1>7, <2>1, Apart DEF Truncate
  <2> QED BY <1>1, <2>1, <2>2, <2>3, <2>4, Changed DEF IInv
<1>8. CASE Formatted
  <2>1. Ours[v] = {v} /\ Formattable[v] \subseteq {"blank"}
    BY <1>1, Probes
  <2>2. StepInv'
    <3>1. CASE IsFormatted(v) /\ Go("provisioned")
      BY <1>2, <1>8, <2>1, <3>1 DEF Formatted, IsFormatted, StepInv, Path
    <3>2. CASE MayFormat(v) /\ Go("mkfs")
      BY <1>2, <1>8, <2>1, <3>2 DEF Formatted, MayFormat, StepInv, Path
    <3>3. CASE End("failed")
      BY <1>3, <3>3, Ended
    <3> QED BY <1>8, <3>1, <3>2, <3>3 DEF Formatted
  <2>3. \A w \in Raw : result'[w] = "prepared" => result[w] = "prepared"
    BY <1>2, <1>3, <1>8 DEF Formatted
  <2> QED BY <1>1, <1>8, <2>2, <2>3, Changed DEF Formatted, LoopHasFile, IInv
<1>9. CASE Mkfs
  <2>1. content[Path(v)] = "blank" /\ UNCHANGED <<device, link, loop>>
    BY <1>1, <1>9 DEF StepInv, Mkfs
  <2>3. StepInv'
    <3>1. CASE Put(v, v) /\ Go("provisioned")
      BY <1>1, <1>2, <1>4, <2>1, <3>1 DEF StepInv, Path
    <3>2. CASE End("failed")
      BY <1>3, <3>2, Ended
    <3> QED BY <1>9, <3>1, <3>2 DEF Mkfs
  <2>4. \A w \in Sparse : loop'[w] # "none" => content'[w] # "absent"
    BY <1>1, <1>4, <1>5, <1>9, <2>1, NotNames DEF Mkfs, LoopHasFile
  <2>5. \A w \in Raw : /\ content[device[w]] = w => content'[device[w]] = w
                       /\ result'[w] = "prepared" => result[w] = "prepared"
    BY <1>1, <1>2, <1>3, <1>4, <1>5, <1>9, <2>1, NotNames DEF Mkfs
  <2> QED BY <1>1, <2>1, <2>3, <2>4, <2>5, Changed DEF IInv
<1>10. CASE Provisioned
  <2>1. content[Path(v)] = v /\ UNCHANGED <<device, link, content>>
    BY <1>1, <1>10 DEF StepInv, Provisioned
  <2>2. StepInv'
    BY <1>3, <1>10, Ended DEF Provisioned
  <2>3. \A w \in Sparse : loop'[w] # "none" => content'[w] # "absent"
    BY <1>1, <1>10, <2>1, Apart, NotNames DEF Provisioned, Attach, LoopHasFile
  <2>4. \A w \in Raw : result'[w] = "prepared" =>
                         result[w] = "prepared" \/ content[device[w]] = w
    BY <1>3, <1>10, <2>1, <1>1, Apart DEF Provisioned
  <2> QED BY <1>1, <2>1, <2>2, <2>3, <2>4, Changed DEF IInv
<1> QED BY <1>6, <1>7, <1>8, <1>9, <1>10

LEMMA RemoveInv ==
  ASSUME IInv, TypeOK', Removed \/ Unlink
  PROVE  IInv'
<1> DEFINE v == run.v
<1>1. /\ v \in Volumes /\ TypeOK /\ run \in [step : Steps, v : Volumes]
      /\ StepInv /\ LoopHasFile /\ PreparedHolds
      /\ content \in [Places -> Contents] /\ loop \in [Sparse -> {"none", "plain", "fs"}]
      /\ link \subseteq Sparse /\ result \in [Volumes -> Results]
  BY DEF IInv, TypeOK
<1>2. \A r : End(r) => run' = Idle /\ \A w \in Volumes :
                                        result'[w] = IF w = v THEN r ELSE result[w]
  BY <1>1 DEF End
<1>3. Sparse \subseteq Places /\ \A w \in Raw : device[w] \in Places
  BY <1>1 DEF TypeOK, Places
<1> USE DEF Volumes
<1>4. CASE Removed
  <2>1. StepInv'
    <3>1. CASE End("removed") \/ End("failed")
      BY <1>2, <3>1, Ended
    <3>2. CASE v \in link /\ loop' = [loop EXCEPT ![v] = "none"] /\ Go("unlink")
      BY <1>1, <1>4, <3>2 DEF Removed, StepInv, Go
    <3> QED BY <1>4, <3>1, <3>2 DEF Removed
  <2>2. \A w \in Sparse : loop'[w] # "none" => content'[w] # "absent"
    BY <1>1, <1>4 DEF Removed, LoopHasFile
  <2>3. \A w \in Raw : result'[w] = "prepared" => result[w] = "prepared"
    BY <1>1, <1>2, <1>4 DEF Removed, Go
  <2> QED BY <1>1, <1>4, <2>1, <2>2, <2>3, Changed DEF Removed, IInv
<1>5. CASE Unlink
  <2>1. /\ v \in Sparse /\ loop[v] = "none" /\ Path(v) = v
        /\ UNCHANGED <<device, link, loop>>
    BY <1>1, <1>5, Apart DEF StepInv, Unlink
  <2>2. StepInv'
    BY <1>2, <1>5, Ended DEF Unlink
  <2>3. \A p \in Places : p # v => content'[p] = content[p]
    BY <1>1, <1>5, <2>1 DEF Unlink, Put
  <2>4. \A w \in Sparse : loop'[w] # "none" => content'[w] # "absent"
    BY <1>1, <1>3, <2>1, <2>3 DEF LoopHasFile
  <2>5. \A w \in Raw : /\ content'[device[w]] = content[device[w]]
                       /\ result'[w] = "prepared" => result[w] = "prepared"
    BY <1>1, <1>2, <1>3, <1>5, <2>1, <2>3, Apart DEF Unlink
  <2> QED BY <1>1, <2>1, <2>2, <2>4, <2>5, Changed DEF IInv
<1> QED BY <1>4, <1>5

LEMMA StartupInv ==
  ASSUME IInv, TypeOK', StartupEnd \/ \E v \in Volumes : StartupStep(v)
  PROVE  IInv'
<1>1. CASE StartupEnd
  BY <1>1, Ended, Changed DEF StartupEnd, IInv, LoopHasFile
<1>2. ASSUME NEW v \in Volumes, StartupStep(v)
      PROVE  IInv'
  <2>1. TypeOK /\ StepInv /\ LoopHasFile /\ loop \in [Sparse -> {"none", "plain", "fs"}]
    BY DEF IInv, TypeOK
  <2>2. StepInv'
    BY <1>2, <2>1 DEF StartupStep, StepInv
  <2>3. \A w \in Sparse : loop'[w] # "none" => content'[w] # "absent"
    BY <1>2, <2>1 DEF StartupStep, Attach, LoopHasFile
  <2> QED BY <1>2, <2>2, <2>3, Changed DEF StartupStep, IInv
<1> QED BY <1>1, <1>2

LEMMA StartInv ==
  ASSUME IInv, TypeOK', NEW v \in Volumes, StartPrepare(v) \/ StartRemove(v)
  PROVE  IInv'
<1>1. StepInv'
  BY DEF StartPrepare, StartRemove, StepInv
<1> QED BY <1>1, Changed DEF StartPrepare, StartRemove, IInv, LoopHasFile

\* udev and the users do not touch what a run relies on: a volume is forgotten
\* only when no run removes it.
LEMMA OutsideInv ==
  ASSUME IInv, TypeOK', NEW v \in Volumes,
         \/ CreateVolume(v) \/ DeleteVolume(v) \/ ForgetVolume(v)
         \/ v \in Sparse /\ LinkAppears(v)
         \/ v \in Sparse /\ LinkDisappears(v)
  PROVE  IInv'
<1>1. pillar \in [Volumes -> {"new", "there", "deleting", "gone"}] /\ StepInv
  BY DEF IInv, TypeOK
<1>2. /\ UNCHANGED <<device, content, loop, run, result>>
      /\ \A w \in Volumes : pillar[w] = "deleting" /\ result[w] # "removed" =>
                              pillar'[w] = "deleting"
  BY <1>1 DEF CreateVolume, DeleteVolume, ForgetVolume, SetPillar, LinkAppears,
              LinkDisappears
<1>3. StepInv' /\ LoopHasFile' /\ PreparedHolds'
  <2>1. run.v \in Volumes
    BY DEF IInv, TypeOK
  <2> QED BY <1>1, <1>2, <2>1 DEF IInv, StepInv, LoopHasFile, PreparedHolds, Path
<1> QED BY <1>3 DEF IInv

LEMMA FaultsInv ==
  ASSUME IInv, TypeOK', Killed \/ MinionRestart \/ Reboot
  PROVE  IInv'
<1>1. /\ run.v \in Volumes /\ TypeOK /\ StepInv /\ LoopHasFile /\ PreparedHolds
      /\ content \in [Places -> Contents] /\ Path(run.v) \in Places
      /\ Sparse \subseteq Places /\ \A w \in Raw : device[w] \in Places
  BY PathType DEF IInv, TypeOK, Places
<1>2. StepInv'
  BY IdleType DEF Killed, MinionRestart, Reboot, Startup, StepInv
<1>3. \A p \in Places : \/ content'[p] = content[p]
                        \/ content[p] = "blank" /\ content'[p] # "absent"
  <2>1. CASE run.step = "mkfs"
    <3>1. PICK c \in {"blank", run.v} : Put(run.v, c)
      BY <2>1 DEF Killed, MinionRestart, Reboot, Torn
    <3> QED BY <1>1, <2>1, <3>1, NotNames DEF Put, StepInv
  <2>2. CASE run.step # "mkfs"
    BY <2>2 DEF Killed, MinionRestart, Reboot, Torn
  <2> QED BY <2>1, <2>2
<1>4. LoopHasFile' /\ PreparedHolds'
  <2>1. \A v \in Sparse : loop'[v] = loop[v] \/ loop'[v] = "none"
    BY DEF Killed, MinionRestart, Reboot
  <2>2. UNCHANGED <<device, result>>
    BY DEF Killed, MinionRestart, Reboot
  <2> QED BY <1>1, <1>3, <2>1, <2>2, NotNames DEF LoopHasFile, PreparedHolds, Volumes
<1> QED BY <1>2, <1>4 DEF IInv

LEMMA NextInv == IInv /\ [Next]_vars => IInv'
<1> SUFFICES ASSUME IInv, [Next]_vars PROVE IInv'
  OBVIOUS
<1>1. TypeOK'
  BY NextType DEF IInv
<1>2. CASE Minion
  BY <1>1, <1>2, PrepareInv, RemoveInv, StartupInv DEF Minion
<1>3. CASE Udev
  <2>1. PICK v \in Sparse : LinkAppears(v) \/ LinkDisappears(v)
    BY <1>3 DEF Udev
  <2>2. v \in Volumes
    BY DEF Volumes
  <2> QED BY <1>1, <2>1, <2>2, OutsideInv
<1>4. CASE Killed \/ MinionRestart \/ Reboot
  BY <1>1, <1>4, FaultsInv
<1>5. ASSUME NEW v \in Volumes,
             \/ CreateVolume(v) \/ DeleteVolume(v) \/ ForgetVolume(v)
             \/ StartPrepare(v) \/ StartRemove(v)
      PROVE  IInv'
  BY <1>1, <1>5, OutsideInv, StartInv
<1>6. CASE UNCHANGED vars
  BY <1>6 DEF vars, IInv, TypeOK, StepInv, LoopHasFile, PreparedHolds, Path
<1> QED BY <1>2, <1>3, <1>4, <1>5, <1>6 DEF Next

LEMMA Invariance == Spec => []IInv
BY InitInv, NextInv, PTL DEF Spec

-----------------------------------------------------------------------------
(* What the volumes rely on. *)

\* clean_up releases the loop device before it unlinks the file, and the
\* startup run attaches only files that are there: whatever is killed in
\* between, no loop device shows a file that is gone.
THEOREM LoopsHaveFiles == Spec => []LoopHasFile
<1>1. IInv => LoopHasFile
  BY DEF IInv
<1> QED BY <1>1, Invariance, PTL

\* `format' looks at the device before it formats: two volumes whose specs name
\* one device are never both prepared.
THEOREM DevicesAreNotShared == Spec => []OneVolumePerDevice
<1>1. IInv => OneVolumePerDevice
  BY DEF IInv, PreparedHolds, OneVolumePerDevice
<1> QED BY <1>1, Invariance, PTL

\* What a step may make of the contents.
LEMMA StepKeepsContent ==
  ASSUME IInv, [Next]_vars, NEW p \in Places,
         content[p] \in {"foreign", "parted"} \cup Volumes
  PROVE  \/ content'[p] = content[p]
         \/ p \in Sparse /\ pillar[p] = "deleting"
<1>1. /\ run.v \in Volumes /\ StepInv /\ content \in [Places -> Contents]
      /\ Path(run.v) \in Places /\ (run.v \in Sparse => Path(run.v) = run.v)
  BY PathType DEF IInv, TypeOK
<1>2. content[p] \notin {"absent", "short", "blank"}
  BY NotNames
<1>3. CASE PresentStep \/ Truncate \/ Mkfs
  BY <1>1, <1>2, <1>3 DEF PresentStep, Truncate, Mkfs, Put, StepInv
<1>4. CASE Unlink
  BY <1>1, <1>4 DEF Unlink, Put, StepInv
<1>5. CASE Killed \/ MinionRestart \/ Reboot
  <2>1. \/ content' = content
        \/ run.step = "mkfs" /\ \E c : Put(run.v, c)
    BY <1>5 DEF Killed, MinionRestart, Reboot, Torn
  <2> QED BY <1>1, <1>2, <2>1 DEF Put, StepInv
<1>6. CASE UNCHANGED content
  BY <1>6
<1>7. \/ PresentStep \/ Truncate \/ Mkfs \/ Unlink \/ Killed \/ MinionRestart
      \/ Reboot \/ UNCHANGED content
  BY DEF Next, vars, Minion, Udev, Formatted, Provisioned, Removed, StartupEnd,
         StartupStep, LinkAppears, LinkDisappears, CreateVolume, DeleteVolume,
         ForgetVolume, SetPillar, StartPrepare, StartRemove
<1> QED BY <1>3, <1>4, <1>5, <1>6, <1>7

\* "we don't want data loss because of a typo": a filesystem or a partition
\* table is never written over, by no run, killed or not; the only one that goes
\* is that of a sparse volume that its user deletes.
THEOREM ContentIsKept == Spec => ContentKept
<1>1. IInv /\ [Next]_vars =>
        [\A p \in Places :
           content[p] \in {"foreign", "parted"} \cup Volumes =>
             \/ content'[p] = content[p]
             \/ p \in Sparse /\ pillar[p] = "deleting"]_vars
  BY StepKeepsContent
<1> QED BY <1>1, Invariance, PTL DEF Spec, ContentKept

\* A volume becomes prepared only at the end of the `provisioned' state.
LEMMA StepPrepares ==
  ASSUME IInv, [Next]_vars, NEW v \in Volumes,
         result'[v] = "prepared", result[v] # "prepared"
  PROVE  content'[Path(v)] = v /\ (v \in Sparse => loop'[v] # "none")
<1>1. /\ run.v \in Volumes /\ StepInv /\ result \in [Volumes -> Results]
      /\ loop \in [Sparse -> {"none", "plain", "fs"}]
  BY DEF IInv, TypeOK
<1>2. Provisioned /\ End("prepared")
  <2>1. \A r : End(r) => result'[v] = IF v = run.v THEN r ELSE result[v]
    BY <1>1 DEF End
  <2>2. ~UNCHANGED result
    OBVIOUS
  <2>3. ~End("removed") /\ ~End("failed")
    BY <2>1
  <2> QED
    BY <2>2, <2>3 DEF Next, vars, Minion, Udev, PresentStep, Truncate, Formatted,
         Mkfs, Provisioned, Removed, Unlink, Go, StartupEnd, StartupStep,
         LinkAppears, LinkDisappears, CreateVolume, DeleteVolume, ForgetVolume,
         SetPillar, StartPrepare, StartRemove, Killed, MinionRestart, Reboot
<1>3. v = run.v
  BY <1>1, <1>2 DEF End
<1>4. content[Path(v)] = v /\ content' = content
  BY <1>1, <1>2, <1>3 DEF Provisioned, StepInv
<1>5. v \in Sparse => loop'[v] # "none"
  <2> SUFFICES ASSUME v \in Sparse PROVE loop'[v] # "none"
    OBVIOUS
  <2>1. IsProvisioned(v) <=> loop[v] # "none"
    BY DisjointAssumption DEF IsProvisioned
  <2>2. ~End("failed")
    BY <1>1, <1>3 DEF End
  <2> QED BY <1>1, <1>2, <1>3, <2>1, <2>2 DEF Provisioned, Attach
<1> QED BY <1>4, <1>5

\* `provisioned' succeeds only for storage with the filesystem of this very
\* volume that, for a sparse file, is attached to a loop device: neither what was
\* killed before nor a restart leaves a run that takes one step for done.
THEOREM PreparedMeansReady == Spec => PreparedIsReady
<1>1. IInv /\ [Next]_vars =>
        [\A v \in Volumes :
           result'[v] = "prepared" /\ result[v] # "prepared" =>
             content'[Path(v)] = v /\ (v \in Sparse => loop'[v] # "none")]_vars
  BY StepPrepares
<1> QED BY <1>1, Invariance, PTL DEF Spec, PreparedIsReady
=============================================================================
