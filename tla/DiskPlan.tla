------------------------------ MODULE DiskPlan ------------------------------
(***************************************************************************)
(* From the disk part of a profile to the disks of a machine: the form is  *)
(* saved, files are made from it, and a machine that boots them picks its  *)
(* disks and writes to them (it/pxe/generator.py 1183-1930, 1935-1972,     *)
(* 2085-2215, 2273-2360, 2431-2453, 2640-2680).  The kernel hands out disk *)
(* names in an order of its own at every boot.                             *)
(***************************************************************************)
EXTENDS DiskForm, Integers

CONSTANTS
  Forms,     \* the forms that may be filled in, family by family
  Machines,  \* functions from disks, 1..n, to their properties
  Boots      \* how often the machine is installed

\* bus: lsblk says RM of a stick, and TRAN is usb for it and for a disk in a USB case.
Sizes == [size : Nat, serial : Nat, wwid : Nat, model : STRING, bus : {"inside", "usb", "stick"}]

ASSUME DiskPlanAssumption ==
  /\ Boots \in Nat
  /\ \A i \in DOMAIN Forms : \A f \in Forms[i] : f \in Profile
  /\ \A m \in Machines : m \in Seq(Sizes) /\ m # <<>>

VARIABLES
  form,     \* the form, and what became of it
  stage,
  machine,  \* the machine that boots the files, <<>> before it does
  names,    \* the name, by its place in the order, of every disk
  picked,   \* what the installer has picked: the disk for the system, and data disks
  touched,  \* history: the disks that were cleared or formatted
  boots

vars == <<form, stage, machine, names, picked, touched, boots>>

Disk == DOMAIN machine

Nothing == [system |-> 0, data |-> <<>>]

TypeOK ==
  /\ form \in Profile
  /\ stage \in {"draft", "stored", "refused", "made", "booted", "picked", "stopped", "done"}
  /\ machine \in Machines \cup {<<>>}
  /\ names \in [Disk -> Disk] /\ Apart(names)
  /\ picked.system \in {0} \cup Disk /\ DOMAIN picked.data \subseteq DOMAIN form.data
  /\ \A k \in DOMAIN picked.data : picked.data[k] \in Disk
  /\ touched \subseteq Disk
  /\ boots \in 0..Boots

Init ==
  /\ \E i \in DOMAIN Forms : form \in Forms[i]
  /\ stage = "draft"
  /\ machine = <<>> /\ names = <<>>
  /\ picked = Nothing /\ touched = {} /\ boots = 0

-----------------------------------------------------------------------------
(* On the server. *)

Save ==
  /\ stage = "draft"
  /\ stage' = IF Saves(form) THEN "stored" ELSE "refused"
  /\ UNCHANGED <<form, machine, names, picked, touched, boots>>

\* A row that was stored before the rules of the first layer were written.
Inherit ==
  /\ stage = "draft" /\ stage' = "stored"
  /\ UNCHANGED <<form, machine, names, picked, touched, boots>>

Make ==
  /\ stage = "stored"
  /\ stage' = IF Makes(form) THEN "made" ELSE "refused"
  /\ UNCHANGED <<form, machine, names, picked, touched, boots>>

-----------------------------------------------------------------------------
(* On the machine. *)

\* Also once more: after a stop somebody tries again, or the machine is redeployed.
Boot ==
  /\ stage \in {"made", "stopped", "done"} /\ boots < Boots
  /\ stage' = "booted" /\ boots' = boots + 1 /\ picked' = Nothing
  /\ machine' \in (IF boots = 0 THEN Machines ELSE {machine})
  /\ names' \in {n \in [DOMAIN machine' -> DOMAIN machine'] : Apart(n)}
  /\ UNCHANGED <<form, touched>>

\* Within 2 % of what was declared, in units of 1024 or, for megabytes, of 1000.
Near(size, declared) ==
  LET within(a, b) == 100 * (a - b) <= 2 * b /\ 100 * (b - a) <= 2 * b
  IN declared > 0 /\ (within(size, declared) \/ within(10000 * size, 9537 * declared))

\* dgrp: any condition of a declaration is enough.  sized: lsblk was asked for SIZE.
Describes(decl, d, sized) ==
  \/ sized /\ Near(machine[d].size, decl.size)
  \/ decl.serial # 0 /\ machine[d].serial = decl.serial
  \/ decl.wwid # 0 /\ machine[d].wwid = decl.wwid

Described(d, sized) == \E k \in DOMAIN form.data : Describes(form.data[k], d, sized)

\* sort | head -1
First(S) == {d \in S : \A e \in S : names[d] <= names[e]}

Named(n) == {d \in Disk : names[d] = n}

Fixed == {d \in Disk : machine[d].bus = "inside"}

\* Not removable: RM is 0.
Lasting == {d \in Disk : machine[d].bus # "stick"}

\* _AWK_PICK_BY_SIZE
BySize == First({d \in Fixed : ~Described(d, TRUE) /\ machine[d].size >= form.min})

\* _AWK_PICK_BY_KEY, on a listing without sizes.
ByKey ==
  First({d \in Disk : /\ IF form.serial # 0 THEN machine[d].serial = form.serial
                                            ELSE machine[d].model = form.model
                      /\ ~Described(d, FALSE)})

\* Mutant of ByGroup: the group is looked for at its place in the whole list.
ByGroupAtItsPlace(k) == IF k = 1 THEN First({d \in Lasting : Describes(form.data[k], d, TRUE)}) ELSE {}

\* _AWK_PICK_BY_GROUP
ByGroup(k) == First({d \in Lasting : Describes(form.data[k], d, TRUE)})

\* Mutant of AllHit: that some disk is left out is taken for all of them.
AllHitFlattened == form.data # <<>> => \E d \in Disk : Described(d, TRUE)

\* _AWK_LIST_AND_CHECK: every declaration describes a disk of this machine.
AllHit == \A k \in DOMAIN form.data : \E d \in Disk : Describes(form.data[k], d, TRUE)

Picks(system, data) ==
  /\ stage' = "picked" /\ picked' = [system |-> system, data |-> data]
  /\ UNCHANGED <<form, machine, names, touched, boots>>

\* The installer stops; also is what it has written to by then.
Stops(also) ==
  /\ stage' = "stopped" /\ touched' = touched \cup also
  /\ UNCHANGED <<form, machine, names, picked, boots>>

\* The data disks that are looked up: those to be cleared and those to be mounted.
Looked == {k \in DOMAIN form.data : form.data[k].wipe \/ form.data[k].existing}

\* _rhel_pick_target_lines, in %pre.
PickRhel ==
  LET system == IF Mode(form) = "match" THEN ByKey ELSE BySize
      found  == {data \in [Looked -> Disk] : \A k \in Looked : data[k] \in ByGroup(k)}
      fine   == {data \in found : \A k \in Looked : data[k] \notin system}
  IN /\ stage = "booted" /\ form.os = "rhel" /\ form.structured /\ Mode(form) # "name"
     /\ IF AllHit /\ system # {} /\ fine # {}
        THEN \E s \in system, data \in fine : Picks(s, data)
        ELSE Stops({})

\* Names that the files give: mode name, and a profile with no more than a name.
PickNamed ==
  LET system == Named(IF form.structured \/ form.disk # 0 THEN Target(form) ELSE 1)
      named  == {data \in [Looked -> Disk] : \A k \in Looked : data[k] \in Named(form.data[k].name)}
  IN /\ stage = "booted" /\ form.os = "rhel" /\ (form.structured => Mode(form) = "name")
     /\ IF system # {} /\ named # {}
        THEN \E s \in system, data \in named : Picks(s, data)
        ELSE Stops({})

\* subiquity: the match of disk0, the largest disk, or a path; data disks by serial
\* when it is given.  Any disk, when the file does not name one.
PickUbuntu ==
  LET matched == {d \in Disk : /\ form.serial # 0 => machine[d].serial = form.serial
                               /\ form.model # "" => machine[d].model = form.model}
      largest == {d \in Fixed : \A e \in Fixed : machine[e].size <= machine[d].size}
      system  == IF Mode(form) = "match" THEN matched
                 ELSE IF Mode(form) = "name" THEN Named(Target(form))
                 ELSE IF form.structured THEN largest ELSE Disk
      of(k)   == IF form.data[k].serial # 0
                 THEN {d \in Disk : machine[d].serial = form.data[k].serial}
                 ELSE Named(form.data[k].name)
      found   == {data \in [Looked -> Disk] : \A k \in Looked : data[k] \in of(k)}
  IN /\ stage = "booted" /\ form.os = "ubuntu"
     /\ IF system # {} /\ found # {}
        THEN \E s \in system, data \in found : Picks(s, data)
        ELSE Stops({})

Extra == UNION {Named(n) : n \in form.wipeDisks}

\* _debian_pick_disk_shell: the last disk that matches, the first of the largest.  The
\* extra disks are cleared whether or not a disk for the system is found.
PickDebian ==
  LET key(d)  == IF form.serial # 0 THEN machine[d].serial = form.serial
                 ELSE form.model # "" /\ machine[d].model = form.model
      keyed   == {d \in Disk : key(d) /\ \A e \in Disk : key(e) => names[e] <= names[d]}
      largest == {d \in Lasting : \A e \in Lasting : machine[e].size <= machine[d].size}
      \* by-path leads to some disk, or to none: then by serial or model, if they are given.
      matched == IF form.idpath THEN {{d} : d \in Disk} \cup {keyed} ELSE {keyed}
      systems == IF ~form.structured THEN {Named(IF form.disk # 0 THEN form.disk ELSE 1)}
                 ELSE CASE Mode(form) = "name"  -> {Named(Target(form))}
                        [] Mode(form) = "match" -> matched
                        [] Mode(form) = "auto"  -> {{d \in First(largest) : machine[d].size >= form.min}}
  IN /\ stage = "booted" /\ form.os = "debian"
     /\ \E system \in systems :
          IF system # {} THEN \E s \in system : Picks(s, <<>>) ELSE Stops(Extra)

\* _opensuse_autoyast: /dev/sda.
PickOpensuse ==
  /\ stage = "booted" /\ form.os = "opensuse"
  /\ \E s \in Named(1) : Picks(s, <<>>)

\* The disks that the installer clears, partitions or formats.
Cleared ==
  {picked.system} \cup {picked.data[k] : k \in {j \in DOMAIN picked.data : form.data[j].wipe}}
    \cup (IF form.os = "debian" THEN Extra ELSE {})

Write ==
  /\ stage = "picked" /\ stage' = "done"
  /\ touched' = touched \cup Cleared
  /\ UNCHANGED <<form, machine, names, picked, boots>>

Pick == PickRhel \/ PickNamed \/ PickUbuntu \/ PickDebian \/ PickOpensuse

Next == Save \/ Inherit \/ Make \/ Boot \/ Pick \/ Write

Spec == Init /\ [][Next]_vars

-----------------------------------------------------------------------------
(* Safety. *)

\* That decl protects disk d: it does not say wipe, it describes the disk, and no other
\* declaration that says wipe describes it too.
Protects(decl, d) ==
  /\ ~decl.wipe /\ Describes(decl, d, TRUE)
  /\ \A k \in DOMAIN form.data : form.data[k].wipe => ~Describes(form.data[k], d, TRUE)

\* The ways of naming the disk of the system for which a declaration is a protection: on
\* RHEL, mode auto, and mode match with a declaration by serial or WWID; elsewhere mode
\* match by serial, with a declaration of another serial, and no disk given by its name.
Guarded(decl) ==
  \/ form.os = "rhel" /\ form.structured /\ Mode(form) = "auto"
  \/ /\ form.os = "rhel" /\ form.structured /\ Mode(form) = "match"
     /\ decl.size = 0
  \/ /\ form.os \in {"ubuntu", "debian"} /\ form.structured /\ Mode(form) = "match"
     /\ form.serial # 0 /\ ~form.idpath /\ form.wipeDisks = {}
     /\ decl.serial # 0 /\ decl.size = 0 /\ decl.wwid = 0
     /\ \A k \in DOMAIN form.data : form.data[k].wipe => form.data[k].serial # 0

\* The red line of generator.py: a disk that is declared without wipe is never cleared
\* or formatted, at whatever boot and under whatever name; and on RHEL nothing is, if a
\* declaration describes no disk of the machine.
ProtectedStay ==
  /\ \A k \in DOMAIN form.data, d \in touched :
       Guarded(form.data[k]) => ~Protects(form.data[k], d)
  /\ form.os = "rhel" /\ form.structured /\ Mode(form) # "name" /\ touched # {} =>
       \A k \in DOMAIN form.data : \E d \in Disk : Describes(form.data[k], d, TRUE)

\* The disks that a RHEL form with mode auto means, when every declaration describes
\* one disk of its own and one other disk would do.
Meant ==
  {d \in Fixed : ~Described(d, TRUE) /\ machine[d].size >= form.min}
    \cup {d \in Disk : \E k \in DOMAIN form.data :
                          form.data[k].wipe /\ Describes(form.data[k], d, TRUE)}

Determined ==
  /\ form.os = "rhel" /\ form.structured /\ Mode(form) = "auto"
  /\ \A k \in DOMAIN form.data :
       \E d \in Lasting : \A e \in Disk : Describes(form.data[k], e, TRUE) <=> e = d
  /\ Cardinality({d \in Fixed : ~Described(d, TRUE) /\ machine[d].size >= form.min}) = 1

\* The order in which the kernel finds the disks makes no difference: such a form is
\* installed at every boot, on the disks it means and on no other.
OrderMakesNoDifference ==
  Determined => /\ stage # "stopped"
                /\ touched \subseteq Meant
                /\ stage = "done" => touched = Meant

\* Every mount point of a form that files were made from is in the files, on the disk
\* where the form puts it.  Two families and two kinds of partition are outside: the
\* files of Debian and openSUSE hold no partitions at all, and a member of an array and
\* a BIOS boot partition lose the mount point that the form gives them.
NothingDropped ==
  LET asked == OfParts(form, {i \in DOMAIN form.parts \ (Bios(form) \cup Members(form)) :
                                form.parts[i].mount # "swap"})
                 \cup OfRaid(form) \cup OfData(form, DOMAIN form.data)
  IN stage \notin {"draft", "stored", "refused"} /\ form.structured /\ form.os \in {"rhel", "ubuntu"}
       => asked \subseteq Mounted(form)

\* What the first layer does not see: these forms are saved, and refused when files are
\* made from them.
FoundLate(f) ==
  \/ Mode(f) = "name" /\ Target(f) = 0
  \/ Mode(f) = "match" /\ f.serial = 0 /\ (f.model = "" \/ f.data # <<>> )
  \/ Mode(f) = "match" /\ Target(f) # 0
  \/ \E k \in DOMAIN f.data : f.serial # 0 /\ f.data[k].serial = f.serial
  \/ \E k \in DOMAIN f.data : f.data[k].name = 0 /\ f.os # "rhel"
  \/ \E i \in DOMAIN f.parts : f.parts[i].mount = ""
  \/ f.os = "ubuntu" /\ (f.idpath \/ (Custom(f) /\ Mode(f) = "auto"))

\* The two layers have the same rules (schemas.py 644-646): a form that was saved is not
\* refused later, for any reason but those.
SavedIsMade == Saves(form) => Makes(form) \/ FoundLate(form)

\* What was saved can be made, and is made whole.
SavedIsMadeWhole == SavedIsMade /\ NothingDropped

\* The comments of generator.py 1872-1879 without the exceptions: a disk that was
\* declared as a data disk and not to be wiped is not cleared in mode auto or match.
DataDisksUntouched ==
  form.structured /\ Mode(form) # "name" =>
    \A k \in DOMAIN form.data, d \in touched : ~Protects(form.data[k], d)
=============================================================================
