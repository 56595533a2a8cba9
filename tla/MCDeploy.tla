------------------------------ MODULE MCDeploy ------------------------------
(***************************************************************************)
(* Instances of Deploy for TLC.  The texts are model values: a and b are   *)
(* accepted, bad is refused by dnsmasq --test, empty is the 0 byte file.   *)
(***************************************************************************)
EXTENDS Deploy

CONSTANTS
  a, b, bad, empty, absent, unread,
  ztpConf,                  \* opstk-ztp.conf at boot: absent, or a text
  pxeOffers, ztpOffers,     \* what each slot's deploys write
  pxeEdits, ztpEdits        \* what an operator makes of the files

MCContent == {a, b, bad, empty}
MCRejected == {bad}

\* A host that serves PXE, and ZTP too if ztpConf is not absent.
MCInitConf == [pxe |-> a, ztp |-> ztpConf]
MCOffers == [pxe |-> pxeOffers, ztp |-> ztpOffers]
MCEdits == [pxe |-> pxeEdits, ztp |-> ztpEdits]
=============================================================================
