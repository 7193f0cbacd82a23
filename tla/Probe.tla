-------------------------------- MODULE Probe --------------------------------
(***************************************************************************)
(* How the salt minion learns what a device holds before it formats it     *)
(* (salt/_utils/volume_utils.py, through libblkid), and which command it   *)
(* then runs (salt/_modules/metalk8s_volumes.py).  Nothing here keeps a    *)
(* state: the operators are the functions of these two files, and an       *)
(* exception is a value that carries Raised.                               *)
(***************************************************************************)
EXTENDS Integers, Sequences, FiniteSets

None == "none"
Raised == "raised"

\* The functions of libblkid the wrapper calls, in the order it calls them.
OpenCall == "new_probe_from_filename"
ConfigureCalls == <<"enable_superblocks", "set_superblocks_flags",
                    "enable_partitions", "set_partitions_flags">>
LibraryCalls == {OpenCall, "do_safeprobe", "numof_values", "get_value"}
                  \cup {ConfigureCalls[i] : i \in 1..Len(ConfigureCalls)}

\* A device: its filesystem, its partition table, whether what is on it reads
\* as two things at once, and which call of the library fails on it.
Device == [fs : {None, "ext4", "xfs"}, uuid : {"ours", "other"},
           table : BOOLEAN, ambivalent : BOOLEAN,
           failing : LibraryCalls \cup {None}]

Superblock == {"LABEL", "LABELRAW", "UUID", "UUIDRAW", "TYPE", "SECTYPE",
               "USAGE", "VERSION", "MAGIC", "BADCSUM"}
SuperblockDefault == {"LABEL", "UUID", "TYPE", "SECTYPE"}
Partition == {"FORCE_GPT", "ENTRY_DETAILS", "MAGIC"}

\* A set of flags is their bitfield; getattr raises for a name of neither.
_get_flags(klass, default, names) ==
  IF names = {} THEN default ELSE IF names \subseteq klass THEN names ELSE Raised

get_superblock_flags(names) == _get_flags(Superblock, SuperblockDefault, names)
get_partition_flags(names)  == _get_flags(Partition, {}, names)

\* What libblkid answers to a call: a negative code, or NULL, for an error, and
\* for `do_safeprobe' 1 when it detects nothing and -2 when it is ambivalent.
Detected(d, config) ==
  [TYPE   |-> config.superblocks /\ "TYPE" \in config.flags /\ d.fs # None,
   UUID   |-> config.superblocks /\ "UUID" \in config.flags /\ d.fs # None,
   PTTYPE |-> config.partitions /\ d.table]

Code(d, config, call) ==
  IF d.failing = call THEN -1
  ELSE IF call # "do_safeprobe" THEN 0
  ELSE IF d.ambivalent THEN -2
  ELSE IF \E value \in {"TYPE", "UUID", "PTTYPE"} : Detected(d, config)[value]
       THEN 0 ELSE 1

\* The handlers put on each function: NULL and a negative code are exceptions.
_check(d, config, call) == Code(d, config, call) >= 0

DeviceInfo(fstype, uuid, table) ==
  [fstype |-> fstype, uuid |-> uuid, has_partition |-> table]

Unreadable == DeviceInfo(Raised, Raised, FALSE)

\* `_Probe.configure': the prober that is not wanted is switched off by the
\* same two calls, so that each of the four can fail.
configure(d, config) ==
  \A i \in 1..Len(ConfigureCalls) : _check(d, config, ConfigureCalls[i])

probe(d, config) ==
  LET found == Detected(d, config) IN
  IF ~_check(d, config, "do_safeprobe") THEN Unreadable
  ELSE IF Code(d, config, "do_safeprobe") = 1 THEN DeviceInfo(None, None, FALSE)
  ELSE IF ~_check(d, config, "numof_values") \/ ~_check(d, config, "get_value")
  THEN Unreadable
  ELSE DeviceInfo(IF found.TYPE THEN d.fs ELSE None,
                  IF found.UUID THEN d.uuid ELSE None, found.PTTYPE)

get_blkid_probe(d, config) ==
  IF _check(d, config, OpenCall) /\ configure(d, config)
  THEN probe(d, config) ELSE Unreadable

_get_from_blkid(d) ==
  get_blkid_probe(d, [superblocks |-> TRUE, partitions |-> TRUE,
                      flags |-> get_superblock_flags({"UUID", "TYPE"})])

-----------------------------------------------------------------------------
(* The commands. *)

\* A StorageClass that was not found is still its name, a string; `parameters'
\* of one that was found may lack the type of the filesystem.
StorageClass == [found : BOOLEAN, fsType : {"ext4", "xfs", "btrfs", None},
                 options : {<<>>, <<"-L", "label">>}]

_mkfs_ext4(path, uuid, force, options) ==
  <<"mkfs.ext4">> \o (IF force THEN <<"-F">> ELSE <<>>) \o <<"-U", uuid>>
    \o options \o <<path>>

_mkfs_xfs(path, uuid, force, options) ==
  <<"mkfs.xfs">> \o (IF force THEN <<"-f">> ELSE <<>>) \o <<"-m", uuid>>
    \o options \o <<path>>

_mkfs(path, fs_type, uuid, force, options) ==
  CASE fs_type = "ext4" -> _mkfs_ext4(path, uuid, force, options)
    [] fs_type = "xfs"  -> _mkfs_xfs(path, uuid, force, options)
    [] OTHER -> <<Raised>>

is_formatted(d) == _get_from_blkid(d).uuid = "ours"

\* `Volume.format', with the force that both kinds of volume give it: the
\* command it runs.
Format(path, d, class) ==
  LET info == _get_from_blkid(d) IN
  IF info = Unreadable \/ info.fstype # None \/ info.has_partition THEN <<Raised>>
  ELSE IF ~class.found \/ class.fsType = None THEN <<Raised>>
  ELSE _mkfs(path, class.fsType, "ours", TRUE, class.options)

\* A quantity is its count and its unit.  The expression admits two units
\* that have no factor, for which the look-up raises; the factor is given as
\* a power, the numbers themselves being too large.
UNIT_FACTOR ==
  [u \in {"", "Ki", "Mi", "Gi", "Ti", "Pi", "k", "M", "G", "T", "P"} |->
     CASE u = "" -> <<2, 0>>
       [] u = "Ki" -> <<2, 10>> [] u = "Mi" -> <<2, 20>> [] u = "Gi" -> <<2, 30>>
       [] u = "Ti" -> <<2, 40>> [] u = "Pi" -> <<2, 50>>
       [] u = "k" -> <<10, 3>> [] u = "M" -> <<10, 6>> [] u = "G" -> <<10, 9>>
       [] u = "T" -> <<10, 12>> [] u = "P" -> <<10, 15>>]

MatchedUnits == {""} \cup {"k", "K", "M", "G", "T", "P"}
                     \cup {"ki", "Ki", "Mi", "Gi", "Ti", "Pi"}

NoQuantity == [count |-> 0, factor |-> <<0, 0>>]

_quantity_to_bytes(count, unit) ==
  IF count >= 1 /\ unit \in MatchedUnits /\ unit \in DOMAIN UNIT_FACTOR
  THEN [count |-> count, factor |-> UNIT_FACTOR[unit]] ELSE NoQuantity

\* The kind of a volume of the pillar, a raw device first.
_get_volume(volumes, name) ==
  IF name \notin DOMAIN volumes THEN Raised
  ELSE IF "rawBlockDevice" \in volumes[name] THEN "RawBlockDevice"
  ELSE IF "sparseLoopDevice" \in volumes[name] THEN "SparseLoopDevice"
  ELSE Raised

\* Every function of the module looks for its volume first, whatever it is
\* asked: what it answers is what the method of that volume does.
Asked(volumes, name, answer) ==
  IF _get_volume(volumes, name) = Raised THEN Raised ELSE answer

\* The methods of a raw device, which has nothing to create, to provision or to
\* clean up.
RawBlockDevice(blkdev) ==
  [exists |-> blkdev, create |-> Raised, is_provisioned |-> TRUE,
   is_cleaned_up |-> TRUE]

\* `_run_cmd': only a command that ends with 0 returns.
_run_cmd(command, retcode) ==
  IF command = <<Raised>> \/ retcode # 0 THEN <<Raised>> ELSE command

-----------------------------------------------------------------------------
(* Facts about these functions, which TLC evaluates. *)

\* "Bail out if it is: we don't want data loss because of a typo": a command
\* is run only on a device that holds neither a filesystem nor a partition
\* table and that every call of the library could read; an answer of the
\* library that is not conclusive never looks like an empty device.
ASSUME OnlyBlankIsFormatted ==
  \A d \in Device, class \in StorageClass :
    Format("path", d, class) # <<Raised>> =>
      d.fs = None /\ ~d.table /\ ~d.ambivalent
      /\ d.failing \notin {OpenCall, "do_safeprobe"}

\* The filesystem that `format' makes is one that `is_formatted' recognises, so
\* that the state does not format again the next time.
ASSUME FormattedIsRecognised ==
  \A d \in Device, class \in StorageClass :
    Format("path", d, class) # <<Raised>> =>
      is_formatted([d EXCEPT !.fs = class.fsType, !.uuid = "ours",
                             !.failing = None]) = TRUE

\* No unit is read as another one, and a unit that the expression admits but
\* that has no factor is an error, never a sparse file of another size.
ASSUME UnitsAreExact ==
  /\ {u \in MatchedUnits : _quantity_to_bytes(1, u) = NoQuantity} = {"K", "ki"}
  /\ \A u, w \in DOMAIN UNIT_FACTOR : u # w =>
       _quantity_to_bytes(1, u) # _quantity_to_bytes(1, w)
=============================================================================
