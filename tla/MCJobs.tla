------------------------------- MODULE MCJobs -------------------------------
(***************************************************************************)
(* The two jobs of the backend that go on in the background while clients  *)
(* ask or listen how they fare: RepoSync and Inspection.  A behaviour is   *)
(* about one of them, and the other is never asked for.                    *)
(***************************************************************************)
EXTENDS RepoSync, Inspection

CONSTANTS r1, r2, r3, noFile, t1, a1, a2

VARIABLE part

MCInit ==
  /\ part \in {"sync", "inspection"}
  /\ Init
  /\ TaskInit /\ (part = "sync" => \A a \in Asset : device[a] = "good")

MCNext ==
  \/ part = "sync" /\ Next /\ UNCHANGED <<part, taskVars>>
  \/ part = "inspection" /\ TaskNext /\ UNCHANGED <<part, vars>>

MCSpec == MCInit /\ [][MCNext]_<<part, vars, taskVars>>

\* Whatever the fairness of the other component asks for is never enabled.
MCFairSpec == MCSpec /\ Fairness /\ TaskFairness
=============================================================================
