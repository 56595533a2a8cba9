----------------------------- MODULE MCNodeApply -----------------------------
(***************************************************************************)
(* Instances of NodeApply for TLC.                                         *)
(***************************************************************************)
EXTENDS NodeApply

CONSTANTS c1, c2

LinuxAndSwitch == {"netplan", "device"}
Scripted == {"nmcli"}

\* Configurations are interchangeable: every behaviour is a renaming of one whose plan
\* asks for c1 first.
MCInit == Init /\ plan.wants = c1

MCFairSpec == MCInit /\ [][Next]_vars /\ Fairness
=============================================================================
