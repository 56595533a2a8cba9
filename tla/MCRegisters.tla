---------------------------- MODULE MCRegisters ----------------------------
(***************************************************************************)
(* The two registers that concurrent requests and imported files change:   *)
(* NodePlans and ZtpPositions.  They share no table; a behaviour is one of *)
(* the first or one of the second, and the other stays empty.              *)
(***************************************************************************)
EXTENDS NodePlans, ZtpPositions

CONSTANTS
  m1, m2, e1, e2,                  \* machines and interfaces of node plans
  p1, p2, p3, a1, a2, a3, d1, d2   \* places, addresses and devices of positions

VARIABLE part

\* Every register of positions is a renaming of one that takes the names in order, so
\* those are the ones to start from.
InOrder ==
  LET macs == SelectSeq([i \in DOMAIN rows |-> rows[i].mac], LAMBDA m : m # NoMac)
  IN /\ \A i \in DOMAIN rows : /\ rows[i].place = <<p1, p2, p3>>[i]
                               /\ rows[i].ip = <<a1, a2, a3>>[i]
     /\ \A k \in DOMAIN macs : macs[k] = <<d1, d2>>[k]

MCInit ==
  /\ part \in {"plans", "positions"}
  /\ Init
  /\ ZtpInit /\ InOrder /\ (part = "plans" => rows = <<>>)

MCNext ==
  \/ part = "plans" /\ Next /\ UNCHANGED <<part, ztpVars>>
  \/ part = "positions" /\ ZtpNext /\ UNCHANGED <<part, vars>>

MCSpec == MCInit /\ [][MCNext]_<<part, vars, ztpVars>>

\* A job changes nothing but the status of plans, which no handler of the register
\* reads: what comes after it is not explored.
NoJobYet == jobs = {}

Alike == Permutations({e1, e2})
=============================================================================
