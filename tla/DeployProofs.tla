---------------------------- MODULE DeployProofs ----------------------------
(***************************************************************************)
(* Theorems about Deploy, for any texts, any offers and edits, any number  *)
(* of nudges and any set of hazards; then those of a calm environment.     *)
(***************************************************************************)
EXTENDS Deploy, TLAPS

USE ConstantsAssumption, DeployAssumption DEF Slot, Conf

-----------------------------------------------------------------------------
(* Types *)

\* A failing script leaves well typed markers and is idle again (fail).
LEMMA FailTypes ==
  ASSUME NEW reason \in Reason, Fail(reason)
  PROVE  /\ marker' \in [Slot -> Marker] /\ run' \in RunStep
         /\ sampled' \in [Slot -> Conf \cup {Unread}]
BY DEF Fail, Exit, Marker, RunStep

\* The OK markers carry sampled shas, which are texts or unset.
LEMMA PublishTypes ==
  ASSUME HostTypeOK, PublishOk
  PROVE  marker' \in [Slot -> Marker] /\ vetted' \in [Slot -> SUBSET (Conf \cup {Unread})]
BY DEF HostTypeOK, PublishOk, Marker

\* The end of a second changes no marker's type.
LEMMA LaterTypes ==
  ASSUME HostTypeOK
  PROVE  Later(marker) \in [Slot -> Marker]
<1>1. ASSUME NEW s \in Slot PROVE [marker[s] EXCEPT !.recent = FALSE] \in Marker
  <2>1. marker[s] \in Marker
    BY DEF HostTypeOK
  <2> QED
    BY ONLY <2>1 DEF Marker
<1> QED
  BY <1>1 DEF Later

\* Every step of the script and of the host preserves the host's types.
LEMMA HostTypes ==
  ASSUME HostTypeOK, Host
  PROVE  HostTypeOK'
<1> USE DEF HostTypeOK
<1>1. CASE StartRun
  BY <1>1 DEF StartRun, RunStep
<1>2. CASE SamplePxe
  BY <1>2 DEF SamplePxe, Sample, RunStep
<1>3. CASE SampleZtp
  BY <1>3 DEF SampleZtp, Sample, RunStep
<1>4. CASE MissingConf
  BY <1>4, FailTypes DEF MissingConf, Reason
<1>5. CASE TestFails
  BY <1>5, FailTypes DEF TestFails, Reason
<1>6. CASE TestPasses
  BY <1>6 DEF TestPasses, RunStep
<1>7. CASE Vouch
  BY <1>7, PublishTypes DEF Vouch, Exit, RunStep
<1>8. CASE Restart
  BY <1>8 DEF Restart, RunStep, Daemon
<1>9. CASE RestartFails
  BY <1>9, FailTypes DEF RestartFails, Reason, Daemon
<1>10. CASE SeenActive
  BY <1>10 DEF SeenActive, RunStep
<1>11. CASE NotActive
  BY <1>11, FailTypes DEF NotActive, Reason
<1>12. CASE RecheckPxe
  BY <1>12, FailTypes DEF RecheckPxe, Recheck, Reason, RunStep
<1>13. CASE RecheckZtp
  BY <1>13, FailTypes DEF RecheckZtp, Recheck, Reason, RunStep
<1>14. CASE Publish
  BY <1>14, PublishTypes DEF Publish, RunStep
<1>15. CASE Record
  BY <1>15 DEF Record, Exit, RunStep
<1>16. CASE BecomesActive
  BY <1>16 DEF BecomesActive, Daemon
<1>17. CASE Tick
  BY <1>17, LaterTypes DEF Tick
<1>18. CASE OtherRestart
  BY <1>18 DEF OtherRestart, Daemon
<1>19. CASE Install
  BY <1>19 DEF Install
<1> QED
  BY <1>1, <1>2, <1>3, <1>4, <1>5, <1>6, <1>7, <1>8, <1>9, <1>10, <1>11, <1>12,
     <1>13, <1>14, <1>15, <1>16, <1>17, <1>18, <1>19 DEF Host, Script

\* A write in place keeps the types of what it changes (write_conf).
LEMMA PutTypes ==
  ASSUME HostTypeOK, NEW s \in Slot, NEW c \in Conf, PutConf(s, c)
  PROVE  conf' \in [Slot -> Conf] /\ pending' \in BOOLEAN
BY DEF HostTypeOK, PutConf, Edge

\* Removing a configuration keeps the types (remove_conf).
LEMMA DropTypes ==
  ASSUME HostTypeOK, NEW s \in Slot, DropConf(s)
  PROVE  conf' \in [Slot -> Conf] /\ pending' \in BOOLEAN
BY DEF HostTypeOK, DropConf, Edge

\* A write in place, whole or half done, keeps the types (write_conf).
LEMMA WriteTypes ==
  ASSUME TypeOK, NEW d \in Slot, NEW c \in Conf, WriteInPlace(d, c)
  PROVE  /\ conf' \in [Slot -> Conf] /\ pending' \in BOOLEAN
         /\ held' \in [Slot -> Conf \cup {Unread}]
<1>1. CASE "torn" \in Hazards
  BY <1>1, PutTypes DEF WriteInPlace, TypeOK, DeployTypeOK
<1>2. CASE "torn" \notin Hazards
  BY <1>2, PutTypes DEF WriteInPlace, TypeOK, DeployTypeOK
<1> QED
  BY <1>1, <1>2

\* Moving a deployer to another step keeps pc's type (_deploy_files_impl).
LEMMA GotoTypes ==
  ASSUME TypeOK, NEW d \in Slot, NEW p \in DeployStep, Goto(d, p)
  PROVE  pc' \in [Slot -> DeployStep]
BY DEF TypeOK, DeployTypeOK, Goto

\* A deploy that ends reports one of the known outcomes (_deploy_fail).
LEMMA FinishTypes ==
  ASSUME TypeOK, NEW d \in Slot, NEW r \in Outcome, Finish(d, r)
  PROVE  pc' \in [Slot -> DeployStep] /\ result' \in [Slot -> Outcome]
BY GotoTypes DEF TypeOK, DeployTypeOK, Finish, DeployStep

\* Putting a snapshot back, or failing to, keeps the types (restore_previous).
LEMMA RestoreTypes ==
  ASSUME TypeOK, NEW d \in Slot, NEW r \in Outcome, Restore(d) \/ RestoreFails(d, r)
  PROVE  /\ conf' \in [Slot -> Conf] /\ pending' \in BOOLEAN
         /\ held' \in [Slot -> Conf \cup {Unread}]
         /\ pc' \in [Slot -> DeployStep] /\ result' \in [Slot -> Outcome]
<1>1. CASE Restore(d)
  <2>1. prev[d] \in Conf /\ TypeOK
    BY DEF TypeOK, DeployTypeOK
  <2>2. CASE prev[d] # Absent
    BY <1>1, <2>1, <2>2, WriteTypes, GotoTypes DEF Restore, DeployStep, TypeOK, DeployTypeOK
  <2>3. CASE prev[d] = Absent
    <3>1. DropConf(d) /\ held' = held /\ Finish(d, "rolled_back")
      BY <1>1, <2>3 DEF Restore
    <3>2. pc' \in [Slot -> DeployStep] /\ result' \in [Slot -> Outcome]
      BY <3>1, FinishTypes DEF Outcome
    <3>3. conf' \in [Slot -> Conf] /\ pending' \in BOOLEAN
      BY <3>1, DropTypes DEF TypeOK
    <3> QED
      BY <3>1, <3>2, <3>3 DEF TypeOK, DeployTypeOK
  <2> QED
    BY <2>2, <2>3
<1>2. CASE RestoreFails(d, r)
  <2>1. pc' \in [Slot -> DeployStep] /\ result' \in [Slot -> Outcome]
    BY <1>2, FinishTypes DEF RestoreFails
  <2>2. conf' \in [Slot -> Conf] /\ pending' \in BOOLEAN
    BY <1>2, PutTypes DEF RestoreFails, TypeOK, HostTypeOK
  <2> QED
    BY <1>2, <2>1, <2>2 DEF RestoreFails, TypeOK, DeployTypeOK
<1> QED
  BY <1>1, <1>2

\* A rewrite that fails keeps the types (rewrite_conf_unchanged).
LEMMA RewriteTypes ==
  ASSUME TypeOK, NEW d \in Slot, RewriteFails(d)
  PROVE  conf' \in [Slot -> Conf] /\ pending' \in BOOLEAN /\ held' \in [Slot -> Conf \cup {Unread}]
<1>1. Empty \in Conf
  BY ConstantsAssumption DEF Conf
<1> QED
  BY <1>1, PutTypes DEF RewriteFails, TypeOK, HostTypeOK, DeployTypeOK

\* Every step of a deployer preserves the types, both sides' (_deploy_files_impl).
LEMMA DeployerTypes ==
  ASSUME TypeOK, NEW d \in Slot, DeployerStep(d)
  PROVE  TypeOK'
<1>1. want[d] \in Conf /\ prev[d] \in Conf /\ conf[d] \in Conf
  BY DEF TypeOK, HostTypeOK, DeployTypeOK
<1>2. marker[d] \in Marker
  BY DEF TypeOK, HostTypeOK
<1>3. CASE NotInstalled(d)
  BY <1>3, FinishTypes DEF NotInstalled, Outcome, hostVars, TypeOK, HostTypeOK, DeployTypeOK
<1>4. CASE NothingToProbe(d)
  BY <1>4, GotoTypes DEF NothingToProbe, DeployStep, hostVars, TypeOK, HostTypeOK, DeployTypeOK
<1>5. CASE Probe(d)
  <2>1. marker' \in [Slot -> Marker]
    <3>1. [marker[d] EXCEPT !.fresh = @ /\ marker[d].recent] \in Marker
      BY ONLY <1>2 DEF Marker
    <3> QED
      BY <1>5, <3>1 DEF Probe, StartWaiting, TypeOK, HostTypeOK
  <2>2. conf' \in [Slot -> Conf] /\ pending' \in BOOLEAN /\ held' \in [Slot -> Conf \cup {Unread}]
    BY <1>5, <1>1, WriteTypes DEF Probe
  <2>3. pc' \in [Slot -> DeployStep]
    BY <1>5, GotoTypes DEF Probe, DeployStep
  <2> QED
    BY <1>5, <2>1, <2>2, <2>3 DEF Probe, TypeOK, HostTypeOK, DeployTypeOK
<1>20. CASE ProbeFails(d)
  BY <1>20, RewriteTypes, FinishTypes DEF ProbeFails, Outcome, TypeOK, HostTypeOK, DeployTypeOK
<1>6. CASE FillFile(d)
  <2>1. held[d] \in Conf
    BY <1>6 DEF FillFile, TypeOK, DeployTypeOK
  <2>2. conf' \in [Slot -> Conf] /\ pending' \in BOOLEAN
    BY <1>6, <2>1, PutTypes DEF FillFile, TypeOK
  <2> QED
    BY <1>6, <2>2 DEF FillFile, TypeOK, HostTypeOK, DeployTypeOK
<1>7. CASE ProbeAnswered(d)
  BY <1>7, GotoTypes DEF ProbeAnswered, DeployStep, hostVars, TypeOK, HostTypeOK, DeployTypeOK
<1>8. CASE ProbeTimeout(d)
  BY <1>8, FinishTypes, LaterTypes
     DEF ProbeTimeout, Outcome, TypeOK, HostTypeOK, DeployTypeOK
<1>9. CASE WriteFiles(d)
  BY <1>9, FinishTypes, GotoTypes
     DEF WriteFiles, Outcome, DeployStep, hostVars, TypeOK, HostTypeOK, DeployTypeOK
<1>10. CASE Invalidate(d)
  <2>1. marker' \in [Slot -> Marker] /\ vetted' \in [Slot -> SUBSET (Conf \cup {Unread})]
    BY <1>10 DEF Invalidate, DropMarker, NoMarker, Marker, TypeOK, HostTypeOK
  <2> QED
    BY <1>1, <1>10, <2>1, GotoTypes
       DEF Invalidate, DeployStep, TypeOK, HostTypeOK, DeployTypeOK
<1>11. CASE WriteConf(d)
  <2>1. conf' \in [Slot -> Conf] /\ pending' \in BOOLEAN /\ held' \in [Slot -> Conf \cup {Unread}]
    BY <1>11, <1>1, WriteTypes DEF WriteConf
  <2>2. restarted' \in [Slot -> BOOLEAN] /\ nudges' \in [Slot -> 0..MaxNudges]
    BY <1>11 DEF WriteConf, TypeOK, HostTypeOK, DeployTypeOK
  <2> QED
    BY <1>11, <2>1, <2>2, GotoTypes DEF WriteConf, DeployStep, TypeOK, HostTypeOK, DeployTypeOK
<1>12. CASE WriteConfFails(d)
  <2>1. conf' \in [Slot -> Conf] /\ pending' \in BOOLEAN
    BY <1>12, <1>1, PutTypes DEF WriteConfFails, TypeOK
  <2> QED
    BY <1>12, <2>1, GotoTypes DEF WriteConfFails, DeployStep, TypeOK, HostTypeOK, DeployTypeOK
<1>13. CASE PollOk(d)
  <2>1. pc' \in [Slot -> DeployStep] /\ result' \in [Slot -> Outcome]
    BY <1>13, GotoTypes, FinishTypes DEF PollOk, DeployStep, Outcome, TypeOK, DeployTypeOK
  <2> QED
    BY <1>13, <2>1 DEF PollOk, hostVars, TypeOK, HostTypeOK, DeployTypeOK
<1>14. CASE Verify(d)
  BY <1>14, FinishTypes DEF Verify, Outcome, hostVars, TypeOK, HostTypeOK, DeployTypeOK
<1>15. CASE Nudge(d)
  <2>1. conf' \in [Slot -> Conf] /\ pending' \in BOOLEAN /\ held' \in [Slot -> Conf \cup {Unread}]
    BY <1>15, <1>1, WriteTypes, RewriteTypes DEF Nudge, TypeOK, HostTypeOK, DeployTypeOK
  <2>2. nudges' \in [Slot -> 0..MaxNudges]
    BY <1>15 DEF Nudge, TypeOK, DeployTypeOK
  <2> QED
    BY <1>15, <2>1, <2>2, LaterTypes DEF Nudge, TypeOK, HostTypeOK, DeployTypeOK
<1>16. CASE Deadline(d)
  <2>1. pc' \in [Slot -> DeployStep] /\ result' \in [Slot -> Outcome]
    BY <1>16, GotoTypes, FinishTypes DEF Deadline, DeployStep, Outcome, TypeOK, DeployTypeOK
  <2> QED
    BY <1>16, <2>1, LaterTypes DEF Deadline, TypeOK, HostTypeOK, DeployTypeOK
<1>17. CASE Rollback(d)
  <2>1. CASE Restore(d) \/ RestoreFails(d, "not_rolled_back")
    BY <1>17, <2>1, RestoreTypes DEF Rollback, Outcome, TypeOK, HostTypeOK, DeployTypeOK
  <2>2. CASE Finish(d, "not_rolled_back") /\ UNCHANGED <<conf, pending, held>>
    BY <1>17, <2>2, FinishTypes DEF Rollback, Outcome, TypeOK, HostTypeOK, DeployTypeOK
  <2> QED
    BY <1>17, <2>1, <2>2 DEF Rollback
<1>18. CASE Undo(d)
  BY <1>18, RestoreTypes DEF Undo, Outcome, TypeOK, HostTypeOK, DeployTypeOK
<1>19. CASE Confirm(d)
  BY <1>19, FinishTypes DEF Confirm, Outcome, hostVars, TypeOK, HostTypeOK, DeployTypeOK
<1> QED
  BY <1>20, <1>3, <1>4, <1>5, <1>6, <1>7, <1>8, <1>9, <1>10, <1>11, <1>12, <1>13, <1>14,
     <1>15, <1>16, <1>17, <1>18, <1>19 DEF DeployerStep

\* A host that has just booted, with no deploy under way, is well typed.
LEMMA InitTypes == Init => TypeOK
<1> SUFFICES ASSUME Init PROVE TypeOK
  OBVIOUS
<1>1. daemon \in Daemon
  BY DEF Init, HostInit, Daemon
<1>2. marker \in [Slot -> Marker]
  BY DEF Init, HostInit, NoMarker, Marker
<1>3. applied \in [Slot -> Conf \cup {Unread}]
  BY DEF Init, HostInit
<1>4. vetted \in [Slot -> SUBSET (Conf \cup {Unread})]
  BY DEF Init, HostInit
<1>5. HostTypeOK
  BY <1>1, <1>2, <1>3, <1>4 DEF Init, HostInit, HostTypeOK, RunStep
<1>6. DeployTypeOK
  BY DEF Init, DeployTypeOK, DeployStep, Outcome
<1> QED
  BY <1>5, <1>6 DEF TypeOK

\* Every step, a stutter included, preserves the types.
LEMMA NextTypes ==
  ASSUME TypeOK, [Next]_vars
  PROVE  TypeOK'
<1>1. CASE HostStep
  BY <1>1, HostTypes DEF HostStep, deployVars, TypeOK, DeployTypeOK
<1>2. CASE \E d \in Slot : DeployerStep(d)
  BY <1>2, DeployerTypes
<1>3. ASSUME NEW d \in Slot, NEW c \in Offers[d], Begin(d, c) PROVE TypeOK'
  <2>1. c \in Conf
    OBVIOUS
  <2> QED
    BY <1>3, <2>1, GotoTypes
       DEF Begin, hostVars, DeployStep, Outcome, TypeOK, HostTypeOK, DeployTypeOK
<1>4. ASSUME NEW s \in Slot, NEW c \in Edits[s], Edit(s, c) PROVE TypeOK'
  <2>1. c \in Conf
    OBVIOUS
  <2>2. conf' \in [Slot -> Conf] /\ pending' \in BOOLEAN
    BY <1>4, <2>1, PutTypes, DropTypes DEF Edit, TypeOK
  <2> QED
    BY <1>4, <2>2 DEF Edit, deployVars, TypeOK, HostTypeOK, DeployTypeOK
<1>5. CASE UNCHANGED vars
  BY <1>5 DEF vars, hostVars, deployVars, TypeOK, HostTypeOK, DeployTypeOK
<1> QED
  BY <1>1, <1>2, <1>3, <1>4, <1>5 DEF Next

\* The variables of both sides keep their types in every behaviour, whatever the
\* hazards (the files, markers and steps of the handshake).
THEOREM TypeCorrect == Spec => []TypeOK
BY InitTypes, NextTypes, PTL DEF Spec

-----------------------------------------------------------------------------
(* Success is vetted *)

(* SuccessVetted is not inductive: it says nothing of the marker a success is *)
(* going to be read from, nor of the PXE deployer between reading it and      *)
(* reporting.  Vetting adds both, and that a reported success is at rest: a   *)
(* deployer that removes its marker has withdrawn its last report.            *)
OkMarked == \A s \in Slot : marker[s].st = "OK" => marker[s].sha \in vetted[s]

Verified == \A d \in Slot : pc[d] = "verify" => want[d] \in vetted[d]

Reported == \A d \in Slot : result[d] = "ok" => pc[d] = "idle" /\ want[d] \in vetted[d]

Vetting == OkMarked /\ Verified /\ Reported

\* Nothing a waiting deployer goes by is weaker than before.
Kept == /\ \A s \in Slot : marker'[s].st = "OK" => marker'[s].sha \in vetted'[s]
        /\ \A s \in Slot : vetted[s] \subseteq vetted'[s]

\* A failing script takes every OK away (fail).
LEMMA FailKeeps ==
  ASSUME NEW reason, Fail(reason), UNCHANGED vetted
  PROVE  Kept
BY DEF Fail, Kept

\* A published OK is for the texts it is published with.
LEMMA PublishKeeps ==
  ASSUME HostTypeOK, PublishOk
  PROVE  Kept
BY DEF HostTypeOK, PublishOk, Kept

\* A step that touches no history and no verdict keeps the vetting invariant.
LEMMA SameKeeps ==
  ASSUME OkMarked, UNCHANGED <<marker, vetted>>
  PROVE  Kept
BY DEF OkMarked, Kept

\* Neither the end of a second nor a new not_before changes a verdict.
LEMMA LaterKeeps ==
  ASSUME TypeOK, OkMarked, marker' = Later(marker), UNCHANGED vetted
  PROVE  Kept
<1>1. ASSUME NEW s \in Slot PROVE marker'[s].st = marker[s].st /\ marker'[s].sha = marker[s].sha
  <2>1. marker[s] \in Marker /\ marker'[s] = [marker[s] EXCEPT !.recent = FALSE]
    BY DEF Later, TypeOK, HostTypeOK
  <2> QED
    BY ONLY <2>1 DEF Marker
<1> QED
  BY <1>1 DEF OkMarked, Kept

\* Taking a new not_before changes no verdict (reload_preflight).
LEMMA StartWaitingKeeps ==
  ASSUME TypeOK, OkMarked, NEW d \in Slot, StartWaiting(d), UNCHANGED vetted
  PROVE  Kept
<1>1. ASSUME NEW s \in Slot PROVE marker'[s].st = marker[s].st /\ marker'[s].sha = marker[s].sha
  <2>1. marker[s] \in Marker /\ marker[d] \in Marker
    BY DEF TypeOK, HostTypeOK
  <2>2. marker'[s] = IF s = d THEN [marker[d] EXCEPT !.fresh = @ /\ marker[d].recent]
                              ELSE marker[s]
    BY DEF StartWaiting, TypeOK, HostTypeOK
  <2> QED
    BY ONLY <2>1, <2>2 DEF Marker
<1> QED
  BY <1>1 DEF OkMarked, Kept

\* No step of the host makes an OK it did not vet.
LEMMA HostKeeps ==
  ASSUME TypeOK, OkMarked, Host
  PROVE  Kept
<1>1. CASE \/ StartRun \/ SamplePxe \/ SampleZtp \/ TestPasses \/ Restart \/ SeenActive
           \/ Record \/ BecomesActive \/ OtherRestart \/ Install
  BY <1>1, SameKeeps
     DEF StartRun, SamplePxe, SampleZtp, Sample, TestPasses, Restart, SeenActive, Record,
         BecomesActive, OtherRestart, Install
<1>2. CASE MissingConf \/ TestFails \/ RestartFails \/ NotActive
  BY <1>2, FailKeeps DEF MissingConf, TestFails, RestartFails, NotActive
<1>3. CASE RecheckPxe \/ RecheckZtp
  BY <1>3, FailKeeps, SameKeeps DEF RecheckPxe, RecheckZtp, Recheck
<1>4. CASE Vouch \/ Publish
  BY <1>4, PublishKeeps DEF Vouch, Publish, TypeOK
<1>5. CASE Tick
  BY <1>5, LaterKeeps DEF Tick
<1> QED
  BY <1>1, <1>2, <1>3, <1>4, <1>5 DEF Host, Script

\* What the reports rest on survives when every verdict is kept and no deployer
\* moves on without reading its own.
LEMMA KeptVetting ==
  ASSUME TypeOK, Vetting, Kept, want' = want,
         \A d \in Slot : pc'[d] = "verify" => pc[d] = "verify" \/ want[d] \in vetted[d],
         \A d \in Slot : result'[d] = "ok" =>
           pc'[d] = "idle" /\ (result[d] = "ok" \/ want[d] \in vetted[d])
  PROVE  Vetting'
BY DEF Vetting, OkMarked, Verified, Reported, Kept

\* A step that sends the deployer somewhere other than "verify", without a report.
LEMMA GotoVetting ==
  ASSUME TypeOK, Vetting, Kept, want' = want, NEW d \in Slot, pc[d] # "idle",
         NEW p \in DeployStep \ {"verify"}, Goto(d, p), result' = result
  PROVE  Vetting'
<1>1. \A e \in Slot : pc'[e] = IF e = d THEN p ELSE pc[e]
  BY DEF Goto, TypeOK, DeployTypeOK
<1> QED
  BY <1>1, KeptVetting DEF Vetting, Reported, Verified, DeployStep

\* A step that ends the deploy with a failure.
LEMMA FailureVetting ==
  ASSUME TypeOK, Vetting, Kept, want' = want, NEW d \in Slot,
         NEW r \in Outcome \ {"ok"}, Finish(d, r)
  PROVE  Vetting'
<1>1. \A e \in Slot : /\ pc'[e] = IF e = d THEN "idle" ELSE pc[e]
                      /\ result'[e] = IF e = d THEN r ELSE result[e]
  BY DEF Finish, Goto, TypeOK, DeployTypeOK
<1> QED
  BY <1>1, KeptVetting DEF Vetting, Reported

\* A step that ends the deploy with success, its text vetted.
LEMMA SuccessVetting ==
  ASSUME TypeOK, Vetting, Kept, want' = want, NEW d \in Slot,
         want[d] \in vetted[d], Finish(d, "ok")
  PROVE  Vetting'
<1>1. \A e \in Slot : /\ pc'[e] = IF e = d THEN "idle" ELSE pc[e]
                      /\ result'[e] = IF e = d THEN "ok" ELSE result[e]
  BY DEF Finish, Goto, TypeOK, DeployTypeOK
<1> QED
  BY <1>1, KeptVetting DEF Vetting, Reported

\* A step that leaves the deployer where it is.
LEMMA StayVetting ==
  ASSUME TypeOK, Vetting, Kept, UNCHANGED <<want, pc, result>>
  PROVE  Vetting'
BY KeptVetting DEF Vetting, Reported

\* Undoing a write ends without a success (restore_previous, try_rollback).
LEMMA RestoreVetting ==
  ASSUME TypeOK, Vetting, Kept, want' = want, NEW d \in Slot, pc[d] # "idle",
         NEW r \in Outcome \ {"ok"}, Restore(d) \/ RestoreFails(d, r)
  PROVE  Vetting'
<1>1. CASE Restore(d) /\ prev[d] # Absent
  BY <1>1, GotoVetting DEF Restore, DeployStep
<1>2. CASE Restore(d) /\ prev[d] = Absent
  BY <1>2, FailureVetting DEF Restore, Outcome
<1>3. CASE RestoreFails(d, r)
  BY <1>3, FailureVetting DEF RestoreFails
<1> QED
  BY <1>1, <1>2, <1>3

\* Removing the marker takes back the slot's verdicts: only a deploy at rest has
\* reported success by them, and this one is not at rest.
LEMMA InvalidateVetting ==
  ASSUME TypeOK, Vetting, NEW d \in Slot, Invalidate(d)
  PROVE  Vetting'
<1>1. /\ \A e \in Slot : pc'[e] = IF e = d THEN "write" ELSE pc[e]
      /\ result' = result /\ want' = want
  BY DEF Invalidate, Goto, TypeOK, DeployTypeOK
<1>2. \A e \in Slot : /\ marker'[e] = IF e = d THEN NoMarker ELSE marker[e]
                      /\ vetted'[e] = IF e = d THEN {} ELSE vetted[e]
  BY DEF Invalidate, DropMarker, TypeOK, HostTypeOK
<1>3. NoMarker.st # "OK"
  BY DEF NoMarker
<1>4. pc[d] = "invalidate"
  BY DEF Invalidate, At
<1> QED
  BY <1>1, <1>2, <1>3, <1>4 DEF Vetting, OkMarked, Verified, Reported

\* The deployer goes on from its wait only with its own text in a marker that
\* says OK, and such a text is vetted (wait_host_reload).
LEMMA PollVetting ==
  ASSUME TypeOK, Vetting, NEW d \in Slot, PollOk(d)
  PROVE  Vetting'
<1>1. want[d] \in vetted[d]
  BY DEF PollOk, Loaded, Vetting, OkMarked
<1>2. Kept /\ want' = want
  BY SameKeeps DEF PollOk, hostVars, Vetting
<1>3. CASE d = "pxe"
  <2>1. \A e \in Slot : pc'[e] = IF e = d THEN "verify" ELSE pc[e]
    BY <1>3 DEF PollOk, Goto, TypeOK, DeployTypeOK
  <2>2. result' = result /\ result[d] # "ok"
    BY <1>3 DEF PollOk, At, Vetting, Reported
  <2> QED
    BY <1>1, <1>2, <2>1, <2>2, KeptVetting DEF Vetting, Reported
<1>4. CASE d # "pxe"
  BY <1>1, <1>2, <1>4, SuccessVetting DEF PollOk
<1> QED
  BY <1>3, <1>4

\* Every step of a deployer preserves the vetting invariant (_deploy_files_impl).
LEMMA DeployerVetting ==
  ASSUME TypeOK, Vetting, NEW d \in Slot, DeployerStep(d)
  PROVE  Vetting'
<1> USE DEF DeployStep, Outcome, At
<1>1. OkMarked
  BY DEF Vetting
<1>2. CASE \/ NotInstalled(d) \/ ProbeFails(d) \/ ProbeTimeout(d)
  BY <1>1, <1>2, SameKeeps, LaterKeeps, FailureVetting
     DEF NotInstalled, ProbeFails, ProbeTimeout, hostVars
<1>3. CASE NothingToProbe(d) \/ ProbeAnswered(d)
  BY <1>1, <1>3, SameKeeps, GotoVetting DEF NothingToProbe, ProbeAnswered, hostVars
<1>4. CASE Probe(d)
  BY <1>1, <1>4, StartWaitingKeeps, GotoVetting DEF Probe
<1>5. CASE FillFile(d)
  BY <1>1, <1>5, SameKeeps, StayVetting DEF FillFile
<1>6. CASE WriteFiles(d)
  BY <1>1, <1>6, SameKeeps, GotoVetting, FailureVetting DEF WriteFiles, hostVars
<1>7. CASE Invalidate(d)
  BY <1>7, InvalidateVetting
<1>8. CASE WriteConf(d)
  BY <1>1, <1>8, SameKeeps, GotoVetting DEF WriteConf
<1>9. CASE WriteConfFails(d)
  BY <1>1, <1>9, SameKeeps, GotoVetting DEF WriteConfFails
<1>10. CASE PollOk(d)
  BY <1>10, PollVetting
<1>11. CASE Verify(d)
  <2>1. want[d] \in vetted[d]
    BY <1>11 DEF Verify, Vetting, Verified
  <2>2. Kept /\ want' = want
    BY <1>1, <1>11, SameKeeps DEF Verify, hostVars
  <2> QED
    BY <1>11, <2>1, <2>2, SuccessVetting, FailureVetting DEF Verify
<1>12. CASE Nudge(d)
  BY <1>1, <1>12, LaterKeeps, StayVetting DEF Nudge
<1>13. CASE Deadline(d)
  BY <1>1, <1>13, LaterKeeps, GotoVetting, FailureVetting DEF Deadline
<1>14. CASE Rollback(d)
  BY <1>1, <1>14, SameKeeps, RestoreVetting, FailureVetting DEF Rollback
<1>15. CASE Undo(d)
  BY <1>1, <1>15, SameKeeps, RestoreVetting DEF Undo
<1>16. CASE Confirm(d)
  BY <1>1, <1>16, SameKeeps, FailureVetting DEF Confirm, hostVars
<1> QED
  BY <1>2, <1>3, <1>4, <1>5, <1>6, <1>7, <1>8, <1>9, <1>10, <1>11, <1>12, <1>13,
     <1>14, <1>15, <1>16 DEF DeployerStep

\* Before the first deploy there is no success to vouch for.
LEMMA InitVetting == Init => Vetting
BY DEF Init, HostInit, NoMarker, Vetting, OkMarked, Verified, Reported

\* Every step, a stutter included, preserves the vetting invariant.
LEMMA NextVetting ==
  ASSUME TypeOK, Vetting, [Next]_vars
  PROVE  Vetting'
<1>1. OkMarked
  BY DEF Vetting
<1>2. CASE HostStep
  BY <1>1, <1>2, HostKeeps, StayVetting DEF HostStep, deployVars
<1>3. CASE \E d \in Slot : DeployerStep(d)
  BY <1>3, DeployerVetting
<1>4. ASSUME NEW d \in Slot, NEW c \in Offers[d], Begin(d, c) PROVE Vetting'
  <2>1. \A e \in Slot : /\ pc'[e] = IF e = d THEN "preflight" ELSE pc[e]
                        /\ want'[e] = IF e = d THEN c ELSE want[e]
                        /\ result'[e] = IF e = d THEN "none" ELSE result[e]
    BY <1>4 DEF Begin, Goto, TypeOK, DeployTypeOK
  <2>2. UNCHANGED <<marker, vetted>>
    BY <1>4 DEF Begin, hostVars
  <2> QED
    BY <2>1, <2>2 DEF Vetting, OkMarked, Verified, Reported
<1>5. CASE \E s \in Slot : \E c \in Edits[s] : Edit(s, c)
  BY <1>1, <1>5, SameKeeps, StayVetting DEF Edit, deployVars
<1>6. CASE UNCHANGED vars
  BY <1>1, <1>6, SameKeeps, StayVetting DEF vars, hostVars, deployVars
<1> QED
  BY <1>2, <1>3, <1>4, <1>5, <1>6 DEF Next

\* A deploy that reports success was vouched for: for every text, hazard and edit,
\* the host script gave its OK for the very text, after that deploy removed the old
\* marker (wait_host_reload, invalidate_host_reload_state).
THEOREM SuccessIsVetted == Spec => []SuccessVetted
<1>1. Vetting => SuccessVetted
  BY DEF Vetting, Reported, SuccessVetted
<1>2. Init /\ [][Next]_vars => []Vetting
  <2>1. Init => Vetting
    BY InitVetting
  <2>2. TypeOK /\ Vetting /\ [Next]_vars => Vetting'
    BY NextVetting
  <2> QED
    BY <2>1, <2>2, TypeCorrect, PTL DEF Spec
<1> QED
  BY <1>1, <1>2, PTL DEF Spec

-----------------------------------------------------------------------------
(* A calm environment *)

(* Without hazards and edits, with files dnsmasq accepts at boot, and a wait  *)
(* that rewrites its file at least once (attempts, dhcp.py 394-408).          *)
Calm ==
  /\ Hazards = {} /\ \A s \in Slot : Edits[s] = {}
  /\ \A s \in Slot : InitConf[s] \notin Rejected
  /\ MaxNudges > 0

(* The invariant says at every step which text each file, dnsmasq, the script *)
(* and the markers hold.  A text is in one of two places only: what was there *)
(* before the deploy, or what is being deployed.                              *)
Written == {"wait", "verify", "rollback"}

\* The text in force: what the file holds, or held before the deploy under way wrote it.
Base(s) == IF pc[s] \in Written THEN prev[s] ELSE conf[s]

\* The script has decided to restart dnsmasq.
Restarting == {"restart"} \cup Untold

\* A run has gone through once.
Booted == \A s \in Slot : applied[s] # Unread

OneAtATime == \A d, e \in Slot : Busy(d) /\ Busy(e) => d = e

\* What the files hold, and that neither dnsmasq nor what a rollback would put back
\* has a text that dnsmasq --test refuses.
FilesAre ==
  \A d \in Slot :
    /\ held[d] = Unread /\ pc[d] # "undo"
    /\ pc[d] \in Written => conf[d] = want[d]
    /\ pc[d] \in {"write", "confirm"} => conf[d] = prev[d]
    /\ pc[d] \in Unsettled => prev[d] # Absent
    /\ Busy(d) => want[d] # Absent
    /\ Base(d) \notin Rejected /\ daemon.loaded[d] \notin Rejected

\* The unit, and dnsmasq.
UnitIs ==
  /\ link \/ pending => \A s \in Slot : conf[s] # Absent
  /\ ~ link => run = "idle" /\ ~ Booted /\ \A s \in Slot : pc[s] \in {"idle", "preflight"}
  /\ pending => run = "idle"
  /\ daemon.state # "down"
  /\ run # "await" => daemon.state = "active"

\* Until the first run has told, no deploy gets past its probe.
FirstRun ==
  ~ Booted =>
    /\ \A s \in Slot : applied[s] = Unread
    /\ link => run # "idle"
    /\ run # "vouch"
    /\ run # "record" =>
         \A s \in Slot : /\ marker[s].st = "NONE" /\ pc[s] \in {"idle", "preflight", "probe"}
                         /\ Effect(daemon.loaded[s]) = Effect(conf[s])

\* What the script has read is the file as it is or what dnsmasq has.
SampleIs(s) == sampled[s] = conf[s] \/ (Booted /\ sampled[s] = daemon.loaded[s])

\* The script restarts dnsmasq only for a file that a deploy is waiting for.
Sampling ==
  /\ run = "sample_ztp" => SampleIs("pxe")
  /\ run \in {"test", "vouch"} => \A s \in Slot : SampleIs(s)
  /\ run \in Restarting => \A s \in Slot : sampled[s] = conf[s] /\ conf[s] \notin Rejected
  /\ run \in Restarting /\ Booted => \E d \in Slot : pc[d] = "wait" /\ conf[d] # applied[d]
  /\ run \in Untold \cup {"record"} => \A s \in Slot : sampled[s] = daemon.loaded[s]
  /\ run = "vouch" => \A s \in Slot : sampled[s] = applied[s]

\* dnsmasq has the text in force, or the new one, and then the marker says so.
Serving ==
  /\ Booted /\ run \notin Untold \cup {"record"} => \A s \in Slot : applied[s] = daemon.loaded[s]
  /\ Booted /\ run \in Untold => \A s \in Slot : applied[s] = Base(s)
  /\ (Booted \/ run = "record") /\ run \notin Untold =>
       \A s \in Slot : \/ daemon.loaded[s] = Base(s)
                       \/ pc[s] = "wait" /\ daemon.loaded[s] = want[s] /\ Loaded(s, want[s])
                       \/ pc[s] = "verify"
  /\ \A s \in Slot : pc[s] = "verify" => daemon.loaded[s] = want[s]

\* What the markers say.
Markers ==
  \A s \in Slot :
    /\ run \notin Untold /\ marker[s].st = "OK" => marker[s].sha = daemon.loaded[s]
    /\ run \in Untold /\ marker[s].st = "OK" => marker[s].sha = applied[s]
    /\ marker[s].st = "FAIL" => marker[s].reason = "test-failed"
    /\ pc[s] \in {"write", "wait"} /\ marker[s].st # "NONE" => marker[s].fresh
    /\ pc[s] = "write" => marker[s].st # "FAIL"
    /\ pc[s] = "wait" /\ marker[s].st = "FAIL" => ~ Accepted(conf)
    /\ pc[s] = "rollback" => ~ Accepted(conf) /\ Quiet
    /\ pc[s] \in {"wait", "rollback"} /\ ~ Accepted(conf) => ~ restarted[s]

Verdict(d) == marker[d].st = "FAIL" \/ Loaded(d, want[d])

\* Once a waiting deploy has rewritten its file, a run of the script sees the new text
\* and gives its verdict.
Nudged ==
  \A d \in Slot : pc[d] = "wait" /\ nudges[d] > 0 =>
    /\ run = "sample_ztp" => sampled["pxe"] = conf["pxe"]
    /\ run \notin {"idle", "sample_pxe", "sample_ztp"} => \A s \in Slot : sampled[s] = conf[s]
    /\ Quiet \/ run = "record" => Verdict(d)

CalmInv == /\ OneAtATime /\ FilesAre /\ UnitIs /\ FirstRun
           /\ Sampling /\ Serving /\ Markers /\ Nudged

\* No step of the host leaves the calm invariant: the script restarts dnsmasq only when a deploy
\* waits, with files that pass the test, and nobody writes until it has told.
LEMMA HostCalm ==
  ASSUME TypeOK, CalmInv, Calm, Host, UNCHANGED deployVars
  PROVE  CalmInv'
<1> USE DEF TypeOK, HostTypeOK, DeployTypeOK, deployVars, Calm, CalmInv, OneAtATime, FilesAre,
            UnitIs, FirstRun, Sampling, SampleIs, Serving, Markers, Nudged, Verdict,
            Base, Written, Restarting, Untold, Unsettled, Booted, Busy, Fresh, Loaded, Accepted,
            Quiet, Effect
<1>1. CASE StartRun
  BY <1>1 DEF StartRun
<1>2. CASE SamplePxe
  BY <1>2 DEF SamplePxe, Sample
<1>3. CASE SampleZtp
  BY <1>3 DEF SampleZtp, Sample
<1>4. CASE MissingConf
  BY <1>4 DEF MissingConf, Fail, Exit
<1>5. CASE TestFails
  BY <1>5 DEF TestFails, SomeConf, Fail, Exit
<1>6. CASE TestPasses
  BY <1>6 DEF TestPasses, SomeConf, Unchanged
<1>7. CASE Vouch
  BY <1>7 DEF Vouch, PublishOk, Exit
<1>8. CASE Restart
  BY <1>8 DEF Restart
<1>9. CASE RestartFails
  BY <1>9 DEF RestartFails
<1>10. CASE SeenActive
  BY <1>10 DEF SeenActive
<1>11. CASE NotActive
  BY <1>11 DEF NotActive
<1>12. CASE RecheckPxe
  BY <1>12 DEF RecheckPxe, Recheck
<1>13. CASE RecheckZtp
  BY <1>13 DEF RecheckZtp, Recheck
<1>14. CASE Publish
  BY <1>14 DEF Publish, PublishOk
<1>15. CASE Record
  BY <1>15 DEF Record, Exit
<1>16. CASE BecomesActive
  BY <1>16 DEF BecomesActive
<1>17. CASE Tick
  BY <1>17 DEF Tick, Later, Marker
<1>18. CASE OtherRestart
  BY <1>18, SMTT(30) DEF OtherRestart
<1>19. CASE Install
  <2>1. \A s \in Slot : conf'[s] = IF conf[s] = Absent THEN Empty ELSE conf[s]
    BY <1>19 DEF Install
  <2>2. /\ run = "idle" /\ ~ Booted
        /\ \A s \in Slot : pc[s] \in {"idle", "preflight"} /\ marker[s].st = "NONE"
                          /\ Base(s) = conf[s] /\ Effect(daemon.loaded[s]) = Effect(conf[s])
    BY <1>19 DEF Install
  <2>3. /\ ~ link
        /\ UNCHANGED <<daemon, marker, applied, link, run, sampled, vetted, restarted, deployVars>>
    BY <1>19 DEF Install
  <2>4. OneAtATime'
    BY <2>1, <2>2, <2>3
  <2>5. FilesAre'
    BY <2>1, <2>2, <2>3
  <2>6. UnitIs'
    BY <2>1, <2>2, <2>3
  <2>7. FirstRun'
    BY <2>1, <2>2, <2>3
  <2>8. Sampling'
    BY <2>1, <2>2, <2>3
  <2>9. Serving'
    BY <2>1, <2>2, <2>3
  <2>10. Markers'
    BY <2>1, <2>2, <2>3
  <2>11. Nudged'
    BY <2>1, <2>2, <2>3
  <2> QED
    BY <2>4, <2>5, <2>6, <2>7, <2>8, <2>9, <2>10, <2>11
<1> HIDE DEF CalmInv, TypeOK, deployVars, Calm
<1> QED
  BY <1>1, <1>2, <1>3, <1>4, <1>5, <1>6, <1>7, <1>8, <1>9, <1>10, <1>11, <1>12, <1>13, <1>14,
     <1>15, <1>16, <1>17, <1>18, <1>19 DEF Host, Script

\* In a calm environment a probe rewrites a file with what it holds.
LEMMA ProbeCalm ==
  ASSUME TypeOK, Calm, NEW d \in Slot, Probe(d)
  PROVE  /\ At(d, "preflight") /\ link /\ conf[d] # Absent
         /\ pc' = [pc EXCEPT ![d] = "probe"] /\ pending' = (pending \/ run = "idle")
         /\ \A s \in Slot : /\ marker'[s].st = marker[s].st /\ marker'[s].sha = marker[s].sha
                            /\ marker'[s].reason = marker[s].reason
                            /\ s # d => marker'[s].fresh = marker[s].fresh
         /\ UNCHANGED <<conf, daemon, applied, link, run, sampled, vetted, restarted, want, prev,
                        nudges, held, result>>
<1>1. conf \in [Slot -> Conf] /\ marker \in [Slot -> Marker]
  BY DEF TypeOK, HostTypeOK
<1>2. /\ At(d, "preflight") /\ link /\ conf[d] # Absent
      /\ pc' = [pc EXCEPT ![d] = "probe"] /\ pending' = (pending \/ run = "idle")
      /\ marker' = [marker EXCEPT ![d].fresh = @ /\ marker[d].recent]
      /\ conf' = [conf EXCEPT ![d] = conf[d]] /\ held' = held
      /\ UNCHANGED <<daemon, applied, link, run, sampled, vetted, restarted, want, prev, nudges,
                     result>>
  BY DEF Probe, StartWaiting, WriteInPlace, PutConf, Edge, Goto, Calm
<1>3. conf' = conf
  BY <1>1, <1>2
<1>4. \A s \in Slot : /\ marker'[s].st = marker[s].st /\ marker'[s].sha = marker[s].sha
                     /\ marker'[s].reason = marker[s].reason
                     /\ s # d => marker'[s].fresh = marker[s].fresh
  BY <1>1, <1>2 DEF Marker
<1> QED
  BY <1>2, <1>3, <1>4

\* No step of a deploy leaves it: the file is written at rest or while the script can only vouch,
\* and is put back only when the script has refused it.
LEMMA DeployerCalm ==
  ASSUME TypeOK, CalmInv, Calm, NEW d \in Slot, DeployerStep(d)
  PROVE  CalmInv'
<1> USE DEF TypeOK, HostTypeOK, DeployTypeOK, Calm, At, CalmInv, OneAtATime, FilesAre, UnitIs,
            FirstRun, Sampling, SampleIs, Serving, Markers, Nudged, Verdict,
            Base, Written, Restarting, Untold, Unsettled, Booted, Busy, Fresh, Loaded, Accepted,
            Quiet, Effect
<1>1. CASE NotInstalled(d)
  BY <1>1 DEF NotInstalled, hostVars, Finish, Goto
<1>2. CASE NothingToProbe(d)
  BY <1>2, SMTT(30) DEF NothingToProbe
<1>3. CASE Probe(d)
  BY <1>3, ProbeCalm
<1>18. CASE ProbeFails(d)
  BY <1>18 DEF ProbeFails, RewriteFails
<1>4. CASE FillFile(d)
  BY <1>4 DEF FillFile
<1>5. CASE ProbeAnswered(d)
  BY <1>5 DEF ProbeAnswered, Goto, hostVars
<1>6. CASE ProbeTimeout(d)
  BY <1>6 DEF ProbeTimeout, Finish, Goto, Later, Late, Marker
<1>7. CASE WriteFiles(d)
  BY <1>7, SMTT(30) DEF WriteFiles, Goto, hostVars
<1>8. CASE Invalidate(d)
  BY <1>8, SMTT(30) DEF Invalidate, DropMarker, NoMarker, Goto
<1>9. CASE WriteConf(d)
  BY <1>9 DEF WriteConf, WriteInPlace, PutConf, Edge, Goto
<1>10. CASE WriteConfFails(d)
  BY <1>10 DEF WriteConfFails
<1>11. CASE PollOk(d)
  BY <1>11 DEF PollOk, Goto, Finish, hostVars
<1>12. CASE Verify(d)
  BY <1>12 DEF Verify, Finish, Goto, hostVars
<1>13. CASE Nudge(d)
  BY <1>13 DEF Nudge, RewriteFails, Late, Later, WriteInPlace, PutConf, Edge, Marker
<1>14. CASE Deadline(d)
  BY <1>14 DEF Deadline, FailedBeforeRestart, PreRestartReason, Late, Later, Goto, Finish, Marker
<1>15. CASE Rollback(d)
  BY <1>15 DEF Rollback, Restore, RestoreFails, WriteInPlace, PutConf, Edge, Goto
<1>16. CASE Undo(d)
  BY <1>16 DEF Undo
<1>17. CASE Confirm(d)
  BY <1>17 DEF Confirm, Finish, Goto, hostVars
<1> HIDE DEF CalmInv, TypeOK, Calm
<1> QED
  BY <1>1, <1>2, <1>3, <1>4, <1>5, <1>6, <1>7, <1>8, <1>9, <1>10, <1>11, <1>12, <1>13, <1>14,
     <1>15, <1>16, <1>17, <1>18 DEF DeployerStep

\* A deploy begins when no other is under way.
LEMMA BeginCalm ==
  ASSUME TypeOK, CalmInv, Calm, NEW d \in Slot, NEW c \in Offers[d], Begin(d, c)
  PROVE  CalmInv'
BY DEF TypeOK, HostTypeOK, DeployTypeOK, Calm, At, Begin, Goto, hostVars, CalmInv, OneAtATime,
       FilesAre, UnitIs, FirstRun, Sampling, SampleIs, Serving, Markers, Nudged, Verdict,
       Base, Written, Restarting, Untold, Unsettled, Booted, Busy, Fresh, Loaded, Accepted,
       Quiet, Effect

\* The host at boot.
LEMMA InitCalm == ASSUME Calm, Init PROVE CalmInv
BY DEF Init, HostInit, NoMarker, Calm, CalmInv, OneAtATime, FilesAre, UnitIs, FirstRun, Sampling,
       SampleIs, Serving, Markers, Nudged, Verdict, Base, Written, Restarting, Untold, Unsettled,
       Booted, Busy, Fresh, Loaded, Accepted, Quiet, Effect

\* Every step, a stutter included.
LEMMA NextCalm == ASSUME TypeOK, CalmInv, Calm, [Next]_vars PROVE CalmInv'
<1>1. CASE HostStep
  BY <1>1, HostCalm DEF HostStep
<1>2. CASE \E d \in Slot : DeployerStep(d)
  BY <1>2, DeployerCalm
<1>3. CASE \E d \in Slot : \E c \in Offers[d] : Begin(d, c)
  BY <1>3, BeginCalm
<1>4. ~ \E s \in Slot : \E c \in Edits[s] : Edit(s, c)
  BY DEF Calm
<1>5. CASE UNCHANGED vars
  <2> USE <1>5 DEF vars, hostVars, deployVars, Busy, Base, Written, Loaded, Fresh, Accepted,
                   Verdict, Booted, Quiet
  <2>1. OneAtATime' /\ FilesAre' /\ UnitIs' /\ FirstRun'
    BY DEF CalmInv, OneAtATime, FilesAre, UnitIs, FirstRun
  <2>2. Sampling' /\ Serving'
    BY DEF CalmInv, Sampling, SampleIs, Serving
  <2>3. Markers' /\ Nudged'
    BY DEF CalmInv, Markers, Nudged
  <2> QED
    BY <2>1, <2>2, <2>3 DEF CalmInv
<1> QED
  BY <1>1, <1>2, <1>3, <1>4, <1>5 DEF Next

\* In a calm environment the invariant always holds.
LEMMA AlwaysCalm == ASSUME Calm PROVE Spec => [](TypeOK /\ CalmInv)
<1>1. Init => CalmInv
  BY InitCalm
<1>2. TypeOK /\ CalmInv /\ [Next]_vars => CalmInv'
  BY NextCalm
<1> QED
  BY <1>1, <1>2, TypeCorrect, PTL DEF Spec

\* An OK marker tells the text dnsmasq has really read (invariant 1 of opstk-dnsmasq-reload.sh), for
\* any texts and deploys and any number of nudges, in a calm environment.
THEOREM MarkersAreTrue == ASSUME Calm PROVE Spec => []MarkerTruth
<1>1. CalmInv => MarkerTruth
  BY DEF CalmInv, Markers, MarkerTruth
<1> QED
  BY <1>1, AlwaysCalm, PTL

\* A deploy rolls its files back only if dnsmasq was not restarted since it wrote them
\* (reload_failure_is_pre_restart), in a calm environment.
THEOREM RollbacksAreSafe == ASSUME Calm PROVE Spec => []RollbackSafe
<1>1. CalmInv => RollbackSafe
  BY DEF CalmInv, Markers, RollbackSafe
<1> QED
  BY <1>1, AlwaysCalm, PTL

\* Bad deploys leave the old service running: the script never takes dnsmasq down (opstk-dnsmasq-
\* reload.sh tests before it restarts), in a calm environment.
THEOREM DnsmasqStaysUp == ASSUME Calm PROVE Spec => []StaysUp
<1>1. CalmInv => StaysUp
  BY DEF CalmInv, UnitIs, StaysUp
<1> QED
  BY <1>1, AlwaysCalm, PTL

-----------------------------------------------------------------------------
(* The deploys implement DeployPromise *)

\* What DeployPromise sees of a slot.
Deployed(d) == IF Busy(d) THEN want[d] ELSE Unread

Told(d) == IF result[d] \in {"none", "ok"} THEN result[d] ELSE "failed"

SameText(d) == InForce'[d] = InForce[d] /\ Served'[d] = Served[d]

Same(d) == SameText(d) /\ Deployed(d)' = Deployed(d) /\ Told(d)' = Told(d)

\* Nothing changes that DeployPromise sees.
LEMMA StutterIs ==
  ASSUME \A d \in Slot : Same(d)
  PROVE  UNCHANGED Promise!promiseVars
BY DEF Same, SameText, InForce, Served, Deployed, Told, Promise!promiseVars

\* A slot begins a deploy.
LEMMA StartIs ==
  ASSUME NEW d \in Slot, NEW c \in Content, \A e \in Slot \ {d} : Same(e),
         SameText(d), Deployed(d) = Unread, Deployed(d)' = c, Told(d)' = "none"
  PROVE  Promise!Next
<1> DEFINE target == [e \in Slot |-> IF Busy(e) THEN want[e] ELSE Unread]
           outcome == [e \in Slot |-> IF result[e] \in {"none", "ok"} THEN result[e] ELSE "failed"]
<1>1. target[d] = Unread /\ UNCHANGED <<InForce, Served>>
  BY DEF Same, SameText, InForce, Served, Deployed
<1>2. target' = [target EXCEPT ![d] = c]
  BY DEF Same, Deployed, Busy
<1>3. outcome' = [outcome EXCEPT ![d] = "none"]
  BY DEF Same, Told
<1>4. Promise!Start(d, c)
  BY <1>1, <1>2, <1>3 DEF Promise!Start
<1> QED
  BY <1>4 DEF Promise!Next

\* dnsmasq reads a slot's new text.
LEMMA SwitchIs ==
  ASSUME NEW d \in Slot, \A e \in Slot \ {d} : Same(e), Deployed(d) # Unread,
         InForce'[d] = InForce[d], Served'[d] = Deployed(d),
         Deployed(d)' = Deployed(d), Told(d)' = Told(d)
  PROVE  Promise!Next
<1> DEFINE target == [e \in Slot |-> IF Busy(e) THEN want[e] ELSE Unread]
           outcome == [e \in Slot |-> IF result[e] \in {"none", "ok"} THEN result[e] ELSE "failed"]
<1>1. target[d] # Unread /\ UNCHANGED target
  BY DEF Same, Deployed, Busy
<1>2. UNCHANGED <<InForce, outcome>>
  BY DEF Same, SameText, InForce, Told
<1>3. Served' = [Served EXCEPT ![d] = target[d]]
  BY DEF Same, SameText, Served, Deployed
<1>4. Promise!Switch(d)
  BY <1>1, <1>2, <1>3 DEF Promise!Switch
<1> QED
  BY <1>4 DEF Promise!Next

\* A slot's deploy ends with its text served.
LEMMA SucceedIs ==
  ASSUME NEW d \in Slot, \A e \in Slot \ {d} : Same(e), Deployed(d) # Unread,
         Served[d] = Deployed(d), InForce'[d] = Deployed(d), Served'[d] = Served[d],
         Deployed(d)' = Unread, Told(d)' = "ok"
  PROVE  Promise!Next
<1>1. Promise!Succeed(d)
  BY ZenonT(40) DEF Same, SameText, InForce, Served, Deployed, Told, Busy, Promise!Succeed
<1> QED
  BY <1>1 DEF Promise!Next

\* A slot's deploy ends with the text before it served.
LEMMA GiveUpIs ==
  ASSUME NEW d \in Slot, \A e \in Slot \ {d} : Same(e), Deployed(d) # Unread,
         Served[d] = InForce[d], SameText(d), Deployed(d)' = Unread, Told(d)' = "failed"
  PROVE  Promise!Next
<1>1. Promise!GiveUp(d)
  BY ZenonT(40) DEF Same, SameText, InForce, Served, Deployed, Told, Promise!GiveUp
<1> QED
  BY <1>1 DEF Promise!Next

\* What CalmInv says of the texts.
LEMMA TextsAre ==
  ASSUME TypeOK, CalmInv, NEW d \in Slot
  PROVE  /\ InForce[d] = Effect(Base(d)) /\ Served[d] = Effect(daemon.loaded[d])
         /\ run \notin Untold /\ pc[d] \notin {"wait", "verify"} => Served[d] = InForce[d]
         /\ pc[d] # "idle" /\ pc[d] \notin {"wait", "verify"} => Served[d] = InForce[d]
BY DEF TypeOK, HostTypeOK, DeployTypeOK, CalmInv, InForce, Served, Effect, Base, Written,
       Unsettled, FilesAre, Serving, FirstRun, Sampling, Restarting, Untold, OneAtATime, Busy, DeployStep

\* The same of the next state.
LEMMA TextsThen ==
  ASSUME TypeOK', CalmInv', NEW d \in Slot
  PROVE  InForce'[d] = Effect(Base(d)') /\ Served'[d] = Effect(daemon'.loaded[d])
BY DEF TypeOK, HostTypeOK, DeployTypeOK, CalmInv, InForce, Served, Effect, Base, Written,
       Unsettled, FilesAre

\* The script's restart switches the slot that waits for it.
LEMMA HostPromise ==
  ASSUME TypeOK, CalmInv, Calm, Host, UNCHANGED deployVars
  PROVE  [Promise!Next]_(Promise!promiseVars)
<1>1. CalmInv' /\ TypeOK'
  BY HostCalm, HostTypes DEF TypeOK, DeployTypeOK, deployVars
<1>2. \A d \in Slot : Deployed(d)' = Deployed(d) /\ Told(d)' = Told(d)
  BY DEF Deployed, Told, Busy, deployVars
<1>3. CASE UNCHANGED <<conf, daemon>>
  <2>1. \A d \in Slot : SameText(d)
    BY <1>3 DEF SameText, InForce, Served, deployVars
  <2> QED
    BY <1>2, <2>1, StutterIs DEF Same
<1>4. CASE Restart /\ ~ Booted
  <2>1. \A d \in Slot : SameText(d)
    BY <1>1, <1>4, TextsAre, TextsThen
       DEF SameText, Restart, deployVars, CalmInv, FirstRun, Base, Written, TypeOK, HostTypeOK
  <2> QED
    BY <1>2, <2>1, StutterIs DEF Same
<1>5. CASE Restart /\ Booted
  <2>1. daemon'.loaded = conf /\ UNCHANGED <<conf, deployVars>> /\ run = "restart"
    BY <1>5 DEF Restart
  <2>2. PICK d \in Slot : pc[d] = "wait" /\ conf[d] # applied[d]
    BY <1>5, <2>1 DEF CalmInv, Sampling, Restarting
  <2>3. \A e \in Slot : InForce'[e] = InForce[e]
    BY <2>1 DEF InForce, deployVars
  <2>4. \A e \in Slot \ {d} : Served'[e] = Served[e]
    <3>1. ASSUME NEW e \in Slot \ {d} PROVE daemon.loaded[e] = conf[e]
      BY <1>5, <2>1, <2>2 DEF CalmInv, OneAtATime, Busy, Serving, Base, Written, Untold, DeployStep
    <3> QED
      BY <2>1, <3>1, <1>1, TextsAre, TextsThen
  <2>5. Served'[d] = Deployed(d) /\ Deployed(d) # Unread
    BY <1>1, <2>1, <2>2, TextsThen
       DEF Deployed, Busy, CalmInv, FilesAre, Written, Effect, TypeOK, DeployTypeOK, HostTypeOK
  <2>6. \A e \in Slot \ {d} : Same(e)
    BY <1>2, <2>3, <2>4 DEF Same, SameText
  <2> QED
    BY <1>2, <2>2, <2>3, <2>5, <2>6, SwitchIs
<1>6. CASE BecomesActive
  <2>1. \A d \in Slot : SameText(d)
    BY <1>6 DEF SameText, InForce, Served, deployVars, BecomesActive, TypeOK, HostTypeOK, Daemon
  <2> QED
    BY <1>2, <2>1, StutterIs DEF Same
<1>7. CASE Install
  <2>1. \A d \in Slot : SameText(d)
    BY <1>7 DEF SameText, InForce, Served, deployVars, Install, TypeOK, HostTypeOK, DeployTypeOK,
                CalmInv, UnitIs, Unsettled, Effect
  <2> QED
    BY <1>2, <2>1, StutterIs DEF Same
<1>8. ~ RestartFails /\ ~ OtherRestart
  BY DEF RestartFails, OtherRestart, Calm, CalmInv, Sampling, Restarting, Accepted
<1>9. CASE \/ StartRun \/ SamplePxe \/ SampleZtp \/ MissingConf \/ TestFails \/ TestPasses \/ Vouch
           \/ SeenActive \/ NotActive \/ RecheckPxe \/ RecheckZtp \/ Publish \/ Record \/ Tick
  <2>1. UNCHANGED <<conf, daemon>>
    BY <1>9 DEF StartRun, SamplePxe, SampleZtp, Sample, MissingConf, TestFails, TestPasses, Vouch,
                SeenActive, NotActive, RecheckPxe, RecheckZtp, Recheck, Publish, Record, Tick
  <2> QED
    BY <1>3, <2>1
<1> QED
  BY <1>4, <1>5, <1>6, <1>7, <1>8, <1>9 DEF Host, Script

\* A deploy that is given up has left the text in force.
LEMMA GivenUp ==
  ASSUME TypeOK, CalmInv, NEW d \in Slot, pc[d] \notin {"idle", "wait", "verify"},
         UNCHANGED <<conf, daemon, prev, want>>,
         pc[d] \in {"write", "confirm"} \/ pc[d] \notin Unsettled,
         NEW r \in {"preflight_failed", "files_failed", "rolled_back"}, Finish(d, r)
  PROVE  Promise!Next
<1>1. \A e \in Slot : /\ pc'[e] = IF e = d THEN "idle" ELSE pc[e]
                      /\ result'[e] = IF e = d THEN r ELSE result[e]
  BY DEF Finish, Goto, TypeOK, DeployTypeOK
<1>2. \A e \in Slot \ {d} : Same(e)
  BY <1>1 DEF Same, SameText, InForce, Served, Deployed, Told, Busy
<1>3. SameText(d)
  BY <1>1 DEF SameText, InForce, Served, Unsettled, CalmInv, FilesAre
<1>4. Deployed(d) # Unread /\ Deployed(d)' = Unread /\ Told(d)' = "failed"
  BY <1>1 DEF Deployed, Told, Busy, TypeOK, DeployTypeOK
<1>5. Served[d] = InForce[d]
  BY TextsAre
<1> QED
  BY <1>2, <1>3, <1>4, <1>5, GiveUpIs

\* A deploy that succeeds is served.
LEMMA Succeeded ==
  ASSUME TypeOK, CalmInv, NEW d \in Slot, pc[d] \in {"wait", "verify"},
         UNCHANGED <<conf, daemon, prev, want>>, daemon.loaded[d] = want[d], Finish(d, "ok")
  PROVE  Promise!Next
<1>1. \A e \in Slot : /\ pc'[e] = IF e = d THEN "idle" ELSE pc[e]
                      /\ result'[e] = IF e = d THEN "ok" ELSE result[e]
  BY DEF Finish, Goto, TypeOK, DeployTypeOK
<1>2. \A e \in Slot \ {d} : Same(e)
  BY <1>1 DEF Same, SameText, InForce, Served, Deployed, Told, Busy
<1>3. Served'[d] = Served[d] /\ Served[d] = want[d] /\ Deployed(d) = want[d]
  BY DEF Served, Deployed, Busy, Effect, CalmInv, FilesAre
<1>4. InForce'[d] = want[d]
  BY <1>1 DEF InForce, Unsettled, Effect, CalmInv, FilesAre, Written, Busy
<1>5. Deployed(d) # Unread /\ Deployed(d)' = Unread /\ Told(d)' = "ok"
  BY <1>1 DEF Deployed, Told, Busy, TypeOK, DeployTypeOK
<1> QED
  BY <1>2, <1>3, <1>4, <1>5, SucceedIs

\* A step of a deploy on its way changes nothing that is promised.
LEMMA Moves ==
  ASSUME NEW d \in Slot, Busy(d), Busy(d)', UNCHANGED <<daemon, want, result>>,
         \A e \in Slot : InForce'[e] = InForce[e], \A e \in Slot \ {d} : pc'[e] = pc[e]
  PROVE  [Promise!Next]_(Promise!promiseVars)
<1>1. \A e \in Slot : Same(e)
  BY DEF Same, SameText, Served, Deployed, Told, Busy
<1> QED
  BY <1>1, StutterIs

\* Each step of a deploy is nothing, its success or its end without effect.
LEMMA DeployerPromise ==
  ASSUME TypeOK, CalmInv, Calm, NEW d \in Slot, DeployerStep(d)
  PROVE  [Promise!Next]_(Promise!promiseVars)
<1> USE DEF TypeOK, HostTypeOK, DeployTypeOK, At
<1>1. CASE NotInstalled(d)
  BY <1>1, GivenUp DEF NotInstalled, hostVars, Unsettled
<1>2. CASE ProbeTimeout(d)
  BY <1>2, GivenUp DEF ProbeTimeout, Unsettled
<1>3. CASE Confirm(d)
  BY <1>3, GivenUp DEF Confirm, hostVars
<1>4. CASE Verify(d)
  <2>1. conf[d] = want[d] /\ daemon.loaded[d] = want[d]
    BY <1>4 DEF Verify, CalmInv, FilesAre, Written, Serving
  <2> QED
    BY <1>4, <2>1, Succeeded DEF Verify, hostVars
<1>5. CASE PollOk(d)
  <2>1. CASE d = "pxe"
    BY <1>5, <2>1, Moves DEF PollOk, Goto, hostVars, Busy, InForce, Unsettled
  <2>2. CASE d # "pxe"
    <3>1. daemon.loaded[d] = want[d]
      BY <1>5 DEF PollOk, Loaded, CalmInv, Markers, Sampling, Restarting, FirstRun, Serving,
                  OneAtATime, Busy, Base, Written, FilesAre, Untold
    <3> QED
      BY <1>5, <2>2, <3>1, Succeeded DEF PollOk, hostVars
  <2> QED
    BY <2>1, <2>2
<1>6. CASE NothingToProbe(d) \/ ProbeAnswered(d) \/ WriteFiles(d)
  BY <1>6, Moves DEF NothingToProbe, ProbeAnswered, WriteFiles, Goto, hostVars, Busy, InForce,
                     Unsettled, Calm
<1>7. CASE Probe(d)
  BY <1>7, Moves DEF Probe, WriteInPlace, PutConf, Goto, Busy, InForce, Unsettled, Calm
<1>8. CASE Invalidate(d)
  BY <1>8, Moves DEF Invalidate, Goto, Busy, InForce, Unsettled
<1>9. CASE WriteConf(d)
  BY <1>9, Moves DEF WriteConf, WriteInPlace, PutConf, Goto, Busy, InForce, Unsettled, Calm
<1>10. CASE Nudge(d)
  BY <1>10, Moves DEF Nudge, RewriteFails, WriteInPlace, PutConf, Goto, Busy, InForce, Unsettled, Calm
<1>11. CASE Deadline(d)
  <2>1. FailedBeforeRestart(d)
    BY <1>11 DEF Deadline, Calm, Late, CalmInv, Nudged, Verdict, Markers, FailedBeforeRestart,
                 PreRestartReason, Fresh
  <2> QED
    BY <1>11, <2>1, Moves DEF Deadline, Goto, Busy, InForce, Unsettled
<1>12. CASE Rollback(d)
  <2>1. conf[d] = want[d] /\ prev[d] # Absent
    BY <1>12 DEF Rollback, CalmInv, FilesAre, Written, Unsettled
  <2>2. WriteInPlace(d, prev[d]) /\ Goto(d, "confirm") /\ UNCHANGED result
    BY <1>12, <2>1 DEF Rollback, Restore, RestoreFails, Calm
  <2> QED
    BY <1>12, <2>1, <2>2, Moves DEF Rollback, WriteInPlace, PutConf, Goto, Busy, InForce,
                                    Unsettled, Calm
<1>13. ~ FillFile(d) /\ ~ ProbeFails(d) /\ ~ WriteConfFails(d) /\ ~ Undo(d)
  BY DEF FillFile, WriteConfFails, ProbeFails, RewriteFails, Undo, Calm, CalmInv, FilesAre
<1> QED
  BY <1>1, <1>2, <1>3, <1>4, <1>5, <1>6, <1>7, <1>8, <1>9, <1>10, <1>11, <1>12,
     <1>13 DEF DeployerStep

\* The beginning of a deploy starts one.
LEMMA BeginPromise ==
  ASSUME TypeOK, CalmInv, NEW d \in Slot, NEW c \in Offers[d], Begin(d, c)
  PROVE  Promise!Next
<1>1. /\ c \in Content /\ c # Unread
      /\ \A e \in Slot : /\ pc'[e] = IF e = d THEN "preflight" ELSE pc[e]
                         /\ want'[e] = IF e = d THEN c ELSE want[e]
                         /\ result'[e] = IF e = d THEN "none" ELSE result[e]
  BY DEF Begin, Goto, TypeOK, DeployTypeOK
<1>2. pc[d] = "idle" /\ UNCHANGED <<conf, daemon, prev>>
  BY DEF Begin, hostVars
<1>3. \A e \in Slot : SameText(e)
  BY <1>1, <1>2 DEF SameText, InForce, Served, Unsettled
<1>4. \A e \in Slot \ {d} : Same(e)
  BY <1>1, <1>3 DEF Same, Deployed, Told, Busy
<1>5. Deployed(d) = Unread /\ Deployed(d)' = c /\ Told(d)' = "none"
  BY <1>1, <1>2 DEF Deployed, Told, Busy
<1> QED
  BY <1>1, <1>3, <1>4, <1>5, StartIs

\* At boot dnsmasq serves what the files hold.
LEMMA InitPromise == ASSUME Calm, Init PROVE Promise!Init
<1>1. InForce \in [Slot -> Content] /\ Served = InForce
  BY DEF Init, HostInit, InForce, Served, Effect, Unsettled
<1> QED
  BY <1>1 DEF Init, Promise!Init, Busy

\* The deploys implement DeployPromise (deploy_files: the whole set takes effect, or nothing has
\* changed), in a calm environment.
THEOREM PromiseKept == ASSUME Calm PROVE Spec => PromiseSpec
<1>1. Init => Promise!Init
  BY InitPromise
<1>2. TypeOK /\ CalmInv /\ [Next]_vars => [Promise!Next]_(Promise!promiseVars)
  <2> SUFFICES ASSUME TypeOK, CalmInv, [Next]_vars PROVE [Promise!Next]_(Promise!promiseVars)
    OBVIOUS
  <2>1. CASE HostStep
    BY <2>1, HostPromise DEF HostStep
  <2>2. CASE \E d \in Slot : DeployerStep(d)
    BY <2>2, DeployerPromise
  <2>3. CASE \E d \in Slot : \E c \in Offers[d] : Begin(d, c)
    BY <2>3, BeginPromise
  <2>4. ~ \E s \in Slot : \E c \in Edits[s] : Edit(s, c)
    BY DEF Calm
  <2>5. CASE UNCHANGED vars
    <3>1. \A d \in Slot : Same(d)
      BY <2>5 DEF vars, hostVars, deployVars, Same, SameText, InForce, Served, Deployed, Told, Busy
    <3> QED
      BY <3>1, StutterIs
  <2> QED
    BY <2>1, <2>2, <2>3, <2>4, <2>5 DEF Next
<1> QED
  BY <1>1, <1>2, AlwaysCalm, PTL DEF Spec, PromiseSpec, Promise!Spec

=============================================================================
