----------------------------- MODULE MCServices -----------------------------
(***************************************************************************)
(* Three services of the backend that many coroutines and processes share: *)
(* AlertNotify, EnvKeys and Installs.  A behaviour is one of one of them,  *)
(* and the others stand still, so that they can share model values: x1 and *)
(* x2 are persons, processes or handlers; a1, a2 and a3 alerts or machines.*)
(***************************************************************************)
EXTENDS AlertNotify, EnvKeys, Installs

CONSTANTS a1, a2, a3, e1, x1, x2

VARIABLE part

MCInit ==
  /\ part \in {"alerts", "keys", "installs"}
  /\ Init /\ EnvInit /\ InstallInit
  /\ part # "keys" => file = NoLines

MCNext ==
  \/ part = "alerts" /\ Next /\ UNCHANGED <<part, envVars, installVars>>
  \/ part = "keys" /\ EnvNext /\ UNCHANGED <<part, vars, installVars>>
  \/ part = "installs" /\ InstallNext /\ UNCHANGED <<part, vars, envVars>>

MCSpec == MCInit /\ [][MCNext]_<<part, vars, envVars, installVars>>

Alike == Permutations({a1, a2, a3}) \cup Permutations({x1, x2})
=============================================================================
