------------------------------ MODULE DiskForm ------------------------------
(***************************************************************************)
(* The disk part of an installation profile and the two layers of rules it *)
(* passes: core/schemas.py 643-1292 when it is saved, it/pxe/generator.py  *)
(* 702-1169 and the writers of each family when files are made from it.  A *)
(* row that an older version saved reaches the second layer alone.         *)
(*                                                                         *)
(* A disk name stands for its place in the order of names: 1 is sda, 2 is  *)
(* sdb.  0 and "" are an empty cell.  Serial numbers and WWIDs are those   *)
(* of disk 1, 2, ... of the machine, or a number that no disk has.         *)
(***************************************************************************)
EXTENDS Naturals, FiniteSets, SequencesExt

Known == {"lvm", "direct", "custom", "zfs"}

Part == [mount : STRING, size : {"", "fixed", "rest"}, fstype : {"", "fs", "bios_grub"},
         vg : STRING, lv : STRING]

\* A partition in raid[].devices: part.01 counts from 1, part0 from 0, sda1 from 1.
Token == [as : {"ks", "sub", "dev"}, n : Nat, disk : Nat]

Raid == [devices : Seq(Token), mount : STRING]

Decl == [name : Nat, size : Nat, serial : Nat, wwid : Nat, mount : STRING,
         wipe : BOOLEAN, existing : BOOLEAN]

Profile == [os : {"rhel", "ubuntu", "debian", "opensuse"}, scheme : Known,
            structured : BOOLEAN, disk : Nat, mode : {"", "auto", "name", "match"},
            name : Nat, serial : Nat, model : STRING, idpath : BOOLEAN, min : Nat,
            wipe : BOOLEAN, layout : Known \cup {""}, parts : Seq(Part), raid : Seq(Raid),
            data : Seq(Decl), wipeDisks : SUBSET Nat]

-----------------------------------------------------------------------------
(* What both layers read out of a form. *)

Mode(f) ==
  IF f.mode # "" THEN f.mode
  ELSE IF f.name # 0 \/ f.disk # 0 THEN "name" ELSE "auto"

Target(f) == IF f.name # 0 THEN f.name ELSE f.disk

Layout(f) == IF f.layout # "" THEN f.layout ELSE f.scheme

Custom(f) == Layout(f) = "custom"

\* _raid_part_ref: the partition that a token names, counted from 1.
PartOf(t) == IF t.as = "sub" THEN t.n + 1 ELSE t.n

Tokens(f) == UNION {ToSet(f.raid[r].devices) : r \in DOMAIN f.raid}

Members(f) == {PartOf(t) : t \in Tokens(f)}

Mounts(f) == [i \in DOMAIN f.parts |-> f.parts[i].mount]

Count(f, mount) == Cardinality({i \in DOMAIN f.parts : f.parts[i].mount = mount})

Apart(s) == \A i, j \in DOMAIN s : i # j => s[i] # s[j]

-----------------------------------------------------------------------------
(* Rules that both layers have. *)

PairedVolumes(f) == \A i \in DOMAIN f.parts : (f.parts[i].vg = "") = (f.parts[i].lv = "")

RestIsLast(f) == \A i \in DOMAIN f.parts : f.parts[i].size = "rest" => i = Len(f.parts)

EfiHasRoot(f) ==
  /\ Count(f, "/boot/efi") <= 1
  /\ Count(f, "/boot/efi") = 1 => Count(f, "/") > 0

MountsApart(f) == Apart(SelectSeq(Mounts(f), LAMBDA m : m # ""))

VolumesApart(f) ==
  \A i, j \in DOMAIN f.parts :
    i # j /\ f.parts[i].vg # "" => <<f.parts[i].vg, f.parts[i].lv>> # <<f.parts[j].vg, f.parts[j].lv>>

RaidDefined(f) ==
  /\ \A r \in DOMAIN f.raid : f.raid[r].devices # <<>>
  /\ Members(f) \subseteq DOMAIN f.parts

RaidOrVolume(f) == \A i \in DOMAIN f.parts \cap Members(f) : f.parts[i].vg = ""

RaidNotOnData(f) ==
  \A t \in Tokens(f), k \in DOMAIN f.data :
    t.as = "dev" /\ t.disk # 0 => f.data[k].name # t.disk

Identified(f) ==
  \A k \in DOMAIN f.data : f.data[k].size # 0 \/ f.data[k].serial # 0 \/ f.data[k].wwid # 0

NamesApart(f) == Apart(SelectSeq([k \in DOMAIN f.data |-> f.data[k].name], LAMBDA n : n # 0))

ExistingIsKept(f) ==
  \A k \in DOMAIN f.data : f.data[k].existing => f.data[k].mount # "" /\ ~f.data[k].wipe

TargetIsNoData(f) ==
  Mode(f) = "name" /\ Target(f) # 0 => \A k \in DOMAIN f.data : f.data[k].name # Target(f)

\* Mutant of OnlyCustomParts: a partition table that no file will hold is let through.
OnlyCustomPartsTakesAll(f) == ~Custom(f) => f.raid = <<>>

\* What a layout other than custom would not write to any file.
OnlyCustomParts(f) == ~Custom(f) => f.parts = <<>> /\ f.raid = <<>>

OnlyCustomData(f) ==
  ~Custom(f) => \A k \in DOMAIN f.data : f.data[k].mount = "" /\ ~f.data[k].wipe

NothingToLeaveOut(f) ==
  ~(~Custom(f) /\ Mode(f) = "auto" /\ f.data # <<>> /\ f.os # "rhel")

MountHasPlace(f) ==
  Custom(f) => \A k \in DOMAIN f.data :
                 f.data[k].mount # "" => f.data[k].wipe \/ f.data[k].existing

ExistingIsRhel(f) == f.os # "rhel" => \A k \in DOMAIN f.data : ~f.data[k].existing

CustomHasRoot(f) == Custom(f) => Count(f, "/") > 0

\* _reject_zfs_for_plan
ZfsIsUbuntu(f) == Layout(f) = "zfs" => f.os = "ubuntu"

-----------------------------------------------------------------------------
(* The first layer: the form is saved, or answered with 422. *)

\* PxeDiskConfigIn: each partition, array and data disk by itself.
SchemaItems(f) ==
  /\ PairedVolumes(f)
  /\ \A i \in DOMAIN f.parts : f.parts[i].size # ""
  /\ \A r \in DOMAIN f.raid : f.raid[r].devices # <<>>

SchemaData(f) ==
  /\ Identified(f)
  /\ \A k \in DOMAIN f.data : f.data[k].wipe \/ f.data[k].existing => f.data[k].name # 0
  /\ ExistingIsKept(f)

\* _check_combinations
SchemaCombinations(f) ==
  /\ RestIsLast(f) /\ EfiHasRoot(f) /\ MountsApart(f) /\ VolumesApart(f)
  /\ RaidDefined(f) /\ RaidOrVolume(f) /\ RaidNotOnData(f)
  /\ NamesApart(f)
  /\ Apart([k \in DOMAIN f.data |-> <<f.data[k].size, f.data[k].serial, f.data[k].wwid>>])
  /\ TargetIsNoData(f)

\* _disk_check_layout_rules
SchemaLayout(f) ==
  /\ ZfsIsUbuntu(f)
  /\ f.structured =>
       /\ OnlyCustomParts(f) /\ OnlyCustomData(f) /\ NothingToLeaveOut(f)
       /\ MountHasPlace(f) /\ ExistingIsRhel(f) /\ CustomHasRoot(f)

Saves(f) ==
  /\ f.scheme = "zfs" => f.os = "ubuntu"
  /\ SchemaItems(f) /\ SchemaData(f) /\ SchemaCombinations(f) /\ SchemaLayout(f)

-----------------------------------------------------------------------------
(* The second layer: _disk_plan, and what the writer of a family refuses. *)

PlanTarget(f) ==
  /\ Mode(f) = "name" => Target(f) # 0
  /\ Mode(f) = "match" => f.serial # 0 \/ f.model # "" \/ f.idpath
  /\ ZfsIsUbuntu(f) /\ OnlyCustomParts(f) /\ NothingToLeaveOut(f)

PlanParts(f) ==
  /\ \A i \in DOMAIN f.parts : f.parts[i].size # ""
  /\ PairedVolumes(f) /\ RestIsLast(f) /\ EfiHasRoot(f) /\ MountsApart(f)
  /\ CustomHasRoot(f) /\ VolumesApart(f)

PlanRaid(f) == RaidDefined(f) /\ RaidOrVolume(f)

PlanData(f) ==
  /\ Identified(f) /\ NamesApart(f)
  /\ f.os # "rhel" => \A k \in DOMAIN f.data : f.data[k].name # 0
  /\ Mode(f) = "name" => \A k \in DOMAIN f.data :
       f.data[k].wipe \/ f.data[k].existing => f.data[k].name # 0
  /\ TargetIsNoData(f) /\ ExistingIsKept(f) /\ OnlyCustomData(f) /\ MountHasPlace(f)
  /\ ExistingIsRhel(f)

\* The disk of the system is none of the data disks, as far as names and serials tell.
PlanIdentities(f) ==
  /\ \A k \in DOMAIN f.data :
       /\ f.serial # 0 => f.data[k].serial # f.serial
       /\ Mode(f) # "auto" /\ Target(f) # 0 => f.data[k].name # Target(f)
  /\ ~(Mode(f) = "match" /\ f.model # "" /\ f.serial = 0 /\ f.data # <<>>)
  /\ RaidNotOnData(f)

Plans(f) == PlanTarget(f) /\ PlanParts(f) /\ PlanRaid(f) /\ PlanData(f) /\ PlanIdentities(f)

RhelWrites(f) ==
  /\ Mode(f) = "match" => f.serial # 0 \/ f.model # ""
  /\ \A i \in DOMAIN f.parts \ Members(f) :
       f.parts[i].fstype = "bios_grub" \/ f.parts[i].vg # "" \/ f.parts[i].mount # ""

UbuntuWrites(f) ==
  /\ Custom(f) => Mode(f) # "auto"
  /\ Mode(f) = "match" => ~f.idpath /\ (f.serial # 0 \/ f.model # "")

\* AutoYaST takes the first disk whatever the form says, and no plan is made for it.
Makes(f) ==
  \/ f.os = "opensuse"
  \/ ~f.structured /\ (f.scheme = "zfs" => f.os = "ubuntu")
  \/ /\ f.structured /\ Plans(f)
     /\ f.os = "rhel" => RhelWrites(f)
     /\ f.os = "ubuntu" => UbuntuWrites(f)

-----------------------------------------------------------------------------
(* What a form asks to be mounted, and what the files of its family mount. *)

\* Where a mount point is to be: on the disk of the system, 0, or on a data disk.
OfParts(f, which) ==
  {<<f.parts[i].mount, 0>> : i \in {j \in which : f.parts[j].mount # ""}}

OfRaid(f) == {<<f.raid[r].mount, 0>> : r \in {s \in DOMAIN f.raid : f.raid[s].mount # ""}}

OfData(f, which) ==
  {<<f.data[k].mount, k>> : k \in {j \in which : f.data[j].mount # ""}}

Bios(f) == {i \in DOMAIN f.parts : f.parts[i].fstype = "bios_grub"}

\* _rhel_custom_lines: a member of an array is written as raid.NN, without its mount.
RhelMounts(f) ==
  OfParts(f, DOMAIN f.parts \ (Bios(f) \cup Members(f))) \cup OfRaid(f)
    \cup OfData(f, {k \in DOMAIN f.data : f.data[k].existing \/ f.data[k].wipe})

\* _ubuntu_storage_obj
UbuntuMounts(f) ==
  OfParts(f, {i \in DOMAIN f.parts \ (Bios(f) \cup Members(f)) : f.parts[i].mount # "swap"})
    \cup OfRaid(f) \cup OfData(f, {k \in DOMAIN f.data : f.data[k].wipe})

Mounted(f) ==
  IF ~f.structured \/ ~Custom(f) THEN {}
  ELSE CASE f.os = "rhel"   -> RhelMounts(f)
         [] f.os = "ubuntu" -> UbuntuMounts(f)
         [] OTHER           -> {}
=============================================================================
