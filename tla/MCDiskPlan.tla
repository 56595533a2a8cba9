----------------------------- MODULE MCDiskPlan -----------------------------
(***************************************************************************)
(* Instances of DiskPlan for TLC: forms about the choice of disks, forms   *)
(* about partitions and arrays, and machines with three disks.             *)
(***************************************************************************)
EXTENDS DiskPlan

CONSTANT Systems  \* the families of systems

Plain == [os |-> "rhel", scheme |-> "lvm", structured |-> TRUE, disk |-> 0, mode |-> "",
          name |-> 0, serial |-> 0, model |-> "", idpath |-> FALSE, min |-> 0, wipe |-> TRUE,
          layout |-> "custom", parts |-> <<>>, raid |-> <<>>, data |-> <<>>, wipeDisks |-> {}]

P(mount, size) == [mount |-> mount, size |-> size, fstype |-> "", vg |-> "", lv |-> ""]

RootOnly == <<P("/", "rest")>>

D(size, serial, wwid) ==
  [name |-> 0, size |-> size, serial |-> serial, wwid |-> wwid, mount |-> "",
   wipe |-> FALSE, existing |-> FALSE]

\* 9 is a serial number that no disk has.
FirstDecls ==
  {[d EXCEPT !.name = n, !.wipe = u[1], !.mount = u[2], !.existing = u[3]] :
     d \in {D(300, 0, 0), D(0, 1, 0), D(0, 0, 2)}, n \in {0, 2},
     u \in {<<FALSE, "", FALSE>>, <<TRUE, "/srv", FALSE>>, <<FALSE, "/srv", TRUE>>}}

SecondDecls ==
  {[d EXCEPT !.name = 3, !.wipe = w] : d \in {D(300, 0, 0), D(0, 3, 0), D(0, 9, 0)}, w \in BOOLEAN}

Data == {<<>>} \cup {<<d>> : d \in FirstDecls} \cup {<<d, e>> : d \in FirstDecls, e \in SecondDecls}

Targets ==
  {<<"", 0, 0, "">>, <<"auto", 1, 0, "">>, <<"name", 1, 0, "">>, <<"name", 0, 0, "">>,
   <<"match", 0, 2, "">>, <<"match", 0, 0, "m">>}

\* The choice of disks: every target with every declaration.
DiskForms ==
  {[Plain EXCEPT !.os = os, !.mode = t[1], !.name = t[2], !.serial = t[3], !.model = t[4],
                 !.layout = l, !.parts = IF l = "custom" THEN RootOnly ELSE <<>>, !.data = data] :
     os \in Systems, t \in Targets, l \in {"custom", ""}, data \in Data}

\* Profiles with no more than a name, and the keys that one family only knows.
OddForms ==
  {[Plain EXCEPT !.os = os, !.structured = FALSE, !.layout = "", !.disk = n, !.scheme = s,
                 !.wipeDisks = w] :
     os \in Systems, n \in 0..2, s \in {"lvm", "custom", "zfs"}, w \in {{}, {2}}}
  \cup {[Plain EXCEPT !.os = os, !.layout = "direct", !.mode = m, !.idpath = i, !.min = n,
                      !.serial = s, !.wipeDisks = w] :
          os \in Systems, m \in {"auto", "match"}, i \in BOOLEAN, n \in {0, 200}, s \in {0, 9}, w \in {{}, {2}}}

Somewhere ==
  {P("/", "fixed"), P("/", "rest"), P("", "fixed"), P("/srv", "rest"), P("/boot/efi", "fixed"),
   P("swap", "fixed"),
   [P("", "fixed") EXCEPT !.fstype = "bios_grub"],
   [P("/", "fixed") EXCEPT !.vg = "vg", !.lv = "a"],
   [P("/srv", "") EXCEPT !.vg = "vg", !.lv = "a"],
   [P("/home", "rest") EXCEPT !.vg = "vg", !.lv = "b"],
   [P("/srv", "rest") EXCEPT !.vg = "vg"]}

Striped == <<[as |-> "ks", n |-> 1, disk |-> 0], [as |-> "sub", n |-> 1, disk |-> 0]>>

Arrays ==
  {<<>>, <<[devices |-> Striped, mount |-> ""]>>}
    \cup {<<[devices |-> t, mount |-> "/data"]>> :
            t \in {<<>>, Striped, <<[as |-> "dev", n |-> 2, disk |-> 2]>>,
                   <<[as |-> "sub", n |-> 2, disk |-> 0]>>}}

\* Partitions and arrays, on a disk given by its name.
PartForms ==
  {[Plain EXCEPT !.os = os, !.name = 1, !.layout = l, !.parts = ps, !.raid = r, !.data = data] :
     os \in Systems, l \in {"custom", "lvm"}, ps \in UNION {[1..n -> Somewhere] : n \in 0..2},
     r \in Arrays, data \in {<<>>, <<[D(0, 3, 0) EXCEPT !.name = 2]>>}}

AllForms == <<DiskForms, OddForms, PartForms>>

Machine3(sizes, bus) ==
  [d \in 1..3 |-> [size |-> sizes[d], serial |-> d, wwid |-> d, model |-> "m",
                   bus |-> IF d = 3 THEN bus ELSE "inside"]]

AllMachines ==
  {Machine3(<<305, 300, 100>>, "inside"),
   Machine3(<<286, 310, 100>>, "usb"), Machine3(<<300, 100, 100>>, "stick")}
=============================================================================
