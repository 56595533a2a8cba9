------------------------------- MODULE Deploy -------------------------------
(***************************************************************************)
(* The container side of the handshake, composed with the host side.       *)
(*                                                                         *)
(* One deployer per slot: it/pxe/server.py::deploy_files writes slot "pxe",*)
(* ct/ztp/server.py::deploy_files slot "ztp".  Each holds its own module's *)
(* _DEPLOY_LOCK from Begin to the end, so a slot has one deploy at a time  *)
(* and nothing orders the two slots.  A deploy goes through                *)
(*                                                                         *)
(*   preflight - probe - files - invalidate - write - wait - verify        *)
(*                                               |      |                  *)
(*                                               undo   rollback - confirm *)
(*                                                                         *)
(* The menus and answer files a deploy also writes do not meet the host    *)
(* script; the step "files" only says whether writing them worked.         *)
(***************************************************************************)
EXTENDS HostReload

CONSTANTS
  Offers,      \* Slot -> the texts its deploys write
  Edits,       \* Slot -> what an operator, or another program, makes of the file
  MaxNudges    \* times a wait that ran out rewrites the file and goes on

ASSUME DeployAssumption ==
  /\ Offers \in [Slot -> SUBSET (Content \ {Empty})]
  /\ Edits \in [Slot -> SUBSET Conf]
  /\ MaxNudges \in Nat

VARIABLES
  pc,        \* Slot -> where its deployer is
  want,      \* Slot -> the text being deployed
  prev,      \* Slot -> conf_prev, the snapshot taken before the write
  nudges,    \* Slot -> attempts in wait_host_reload_retrying
  held,      \* Slot -> bytes not yet written to a file already truncated
  result     \* Slot -> what the last deploy reported

deployVars == <<pc, want, prev, nudges, held, result>>
vars == <<hostVars, deployVars>>

-----------------------------------------------------------------------------
(* State functions *)

DeployStep == {"idle", "preflight", "probe", "files", "invalidate", "write",
               "undo", "wait", "verify", "rollback", "confirm"}

Outcome == {"none", "ok", "preflight_failed", "files_failed", "write_failed",
            "rolled_back", "not_rolled_back", "overwritten"}

DeployTypeOK ==
  /\ pc \in [Slot -> DeployStep]
  /\ want \in [Slot -> Conf]
  /\ prev \in [Slot -> Conf]
  /\ nudges \in [Slot -> 0..MaxNudges]
  /\ held \in [Slot -> Conf \cup {Unread}]
  /\ result \in [Slot -> Outcome]

\* The type invariant of the handshake: both sides' variables.
TypeOK == HostTypeOK /\ DeployTypeOK

Busy(d) == pc[d] # "idle"

\* Deployer d is at step p and has no write of its own under way.
At(d, p) == pc[d] = p /\ held[d] = Unread

\* A wait runs out while a run is queued or under way only if the host is slow.
Late == Quiet \/ "slow" \in Hazards

Fresh(d) == marker[d].st # "NONE" /\ marker[d].fresh

\* wait_host_reload: state OK, same sha, not older than not_before.
Loaded(d, c) == Fresh(d) /\ marker[d].st = "OK" /\ marker[d].sha = c

\* reload_failure_is_pre_restart: a fresh FAIL with a reason given before restart.
FailedBeforeRestart(d) ==
  Fresh(d) /\ marker[d].st = "FAIL" /\ marker[d].reason \in PreRestartReason

Init ==
  /\ HostInit
  /\ pc = [d \in Slot |-> "idle"]
  /\ want = InitConf
  /\ prev = InitConf
  /\ nudges = [d \in Slot |-> 0]
  /\ held = [d \in Slot |-> Unread]
  /\ result = [d \in Slot |-> "none"]

-----------------------------------------------------------------------------
(* Helpers of the actions *)

Goto(d, p) == pc' = [pc EXCEPT ![d] = p]

Finish(d, r) == Goto(d, "idle") /\ result' = [result EXCEPT ![d] = r]

\* open(path, "w") truncates, write() fills: one step, or two if a reader may
\* come in between.
WriteInPlace(d, c) ==
  IF "torn" \in Hazards
  THEN PutConf(d, Empty) /\ held' = [held EXCEPT ![d] = c]
  ELSE PutConf(d, c) /\ UNCHANGED held

\* rewrite_conf_unchanged where writing fails: the file is as it was, or truncated.
RewriteFails(d) ==
  /\ "writefails" \in Hazards
  /\ UNCHANGED <<conf, pending>> \/ PutConf(d, Empty)
  /\ UNCHANGED held

-----------------------------------------------------------------------------
(* The deployer's steps *)

Begin(d, c) ==
  /\ pc[d] = "idle"
  /\ "overlap" \in Hazards \/ \A e \in Slot : ~Busy(e)
  /\ Goto(d, "preflight")
  /\ want' = [want EXCEPT ![d] = c]
  /\ result' = [result EXCEPT ![d] = "none"]
  /\ UNCHANGED <<hostVars, prev, nudges, held>>

\* No version marker: the unit is not installed.  Nothing was written.
NotInstalled(d) ==
  /\ At(d, "preflight")
  /\ ~link
  /\ Finish(d, "preflight_failed")
  /\ UNCHANGED <<hostVars, want, prev, nudges, held>>

\* Nothing to rewrite yet: the live probe is skipped.
NothingToProbe(d) ==
  /\ At(d, "preflight")
  /\ link
  /\ conf[d] = Absent
  /\ Goto(d, "files")
  /\ UNCHANGED <<hostVars, want, prev, nudges, held, result>>

\* Take not_before and rewrite the file with the text it already has.
Probe(d) ==
  /\ At(d, "preflight")
  /\ link
  /\ conf[d] # Absent
  /\ StartWaiting(d)
  /\ WriteInPlace(d, conf[d])
  /\ Goto(d, "probe")
  /\ UNCHANGED <<daemon, applied, link, run, sampled, vetted, restarted, want, prev, nudges, result>>

\* The rewrite failed: the deployment is refused before its first byte.
ProbeFails(d) ==
  /\ At(d, "preflight")
  /\ link
  /\ conf[d] # Absent
  /\ RewriteFails(d)
  /\ Finish(d, "preflight_failed")
  /\ UNCHANGED <<daemon, marker, applied, link, run, sampled, vetted, restarted,
                 want, prev, nudges>>

\* The second half of a write in place.
FillFile(d) ==
  /\ held[d] # Unread
  /\ PutConf(d, held[d])
  /\ held' = [held EXCEPT ![d] = Unread]
  /\ UNCHANGED <<daemon, marker, applied, link, run, sampled, vetted, restarted,
                 pc, want, prev, nudges, result>>

\* Any marker of this second or later, OK or FAIL, shows a living unit.
ProbeAnswered(d) ==
  /\ At(d, "probe")
  /\ Fresh(d)
  /\ Goto(d, "files")
  /\ UNCHANGED <<hostVars, want, prev, nudges, held, result>>

ProbeTimeout(d) ==
  /\ At(d, "probe")
  /\ ~Fresh(d)
  /\ Late
  /\ marker' = Later(marker)
  /\ Finish(d, "preflight_failed")
  /\ UNCHANGED <<conf, daemon, applied, link, pending, run, sampled, vetted, restarted,
                 want, prev, nudges, held>>

WriteFiles(d) ==
  /\ At(d, "files")
  /\ \/ Goto(d, "invalidate") /\ UNCHANGED result
     \/ "writefails" \in Hazards /\ Finish(d, "files_failed")
  /\ UNCHANGED <<hostVars, want, prev, nudges, held>>

\* not_before is taken, the slot's marker removed, the file snapshot.  After
\* the removal there is no older marker for not_before to be compared with.
Invalidate(d) ==
  /\ At(d, "invalidate")
  /\ DropMarker(d)
  /\ prev' = [prev EXCEPT ![d] = conf[d]]
  /\ Goto(d, "write")
  /\ UNCHANGED <<conf, daemon, applied, link, pending, run, sampled, restarted,
                 want, nudges, held, result>>

WriteConf(d) ==
  /\ At(d, "write")
  /\ WriteInPlace(d, want[d])
  /\ restarted' = [restarted EXCEPT ![d] = FALSE]
  /\ nudges' = [nudges EXCEPT ![d] = 0]
  /\ Goto(d, "wait")
  /\ UNCHANGED <<daemon, marker, applied, link, run, sampled, vetted, want, prev, result>>

\* write_conf failed: it wrote the old bytes back, or the file stays truncated.
WriteConfFails(d) ==
  /\ At(d, "write")
  /\ "writefails" \in Hazards
  /\ \/ PutConf(d, Empty)
     \/ conf[d] # Absent /\ PutConf(d, conf[d])
  /\ Goto(d, "undo")
  /\ UNCHANGED <<daemon, marker, applied, link, run, sampled, vetted, restarted,
                 want, prev, nudges, held, result>>

PollOk(d) ==
  /\ At(d, "wait")
  /\ Loaded(d, want[d])
  /\ IF d = "pxe" THEN Goto(d, "verify") /\ UNCHANGED result
                  ELSE Finish(d, "ok")
  /\ UNCHANGED <<hostVars, want, prev, nudges, held>>

\* PXE only: the file must still hold what was written.
Verify(d) ==
  /\ At(d, "verify")
  /\ Finish(d, IF conf[d] = want[d] THEN "ok" ELSE "overwritten")
  /\ UNCHANGED <<hostVars, want, prev, nudges, held>>

\* Mutant of Nudge: the wait goes on, the file is not rewritten.
IdleNudge(d) ==
  /\ At(d, "wait")
  /\ ~Loaded(d, want[d])
  /\ Late
  /\ nudges[d] < MaxNudges
  /\ nudges' = [nudges EXCEPT ![d] = @ + 1]
  /\ marker' = Later(marker)
  /\ UNCHANGED <<conf, daemon, applied, link, pending, run, sampled, vetted, restarted,
                 pc, want, prev, held, result>>

\* A slice of the wait ran out: rewrite the file, the edge may have been lost.
\* rewrite_conf_unchanged gives up on a file that is not there; what it returns is not
\* looked at.
Nudge(d) ==
  /\ At(d, "wait")
  /\ ~Loaded(d, want[d])
  /\ Late
  /\ nudges[d] < MaxNudges
  /\ nudges' = [nudges EXCEPT ![d] = @ + 1]
  /\ marker' = Later(marker)
  /\ IF conf[d] = Absent THEN UNCHANGED <<conf, pending, held>>
                         ELSE WriteInPlace(d, conf[d]) \/ RewriteFails(d)
  /\ UNCHANGED <<daemon, applied, link, run, sampled, vetted, restarted, pc, want, prev, result>>

\* The whole wait ran out.  Only a FAIL given before a restart allows a rollback.
Deadline(d) ==
  /\ At(d, "wait")
  /\ ~Loaded(d, want[d])
  /\ Late
  /\ nudges[d] = MaxNudges
  /\ marker' = Later(marker)
  /\ IF FailedBeforeRestart(d) THEN Goto(d, "rollback") /\ UNCHANGED result
                               ELSE Finish(d, "not_rolled_back")
  /\ UNCHANGED <<conf, daemon, applied, link, pending, run, sampled, vetted, restarted,
                 want, prev, nudges, held>>

\* Mutant of Restore: the files are reported as rolled back, the dnsmasq
\* configuration was forgotten.
ForgetConf(d) == Finish(d, "rolled_back") /\ UNCHANGED <<conf, pending, held>>

\* Put the snapshot back, or remove a file that was not there before.
Restore(d) ==
  IF prev[d] # Absent
  THEN WriteInPlace(d, prev[d]) /\ Goto(d, "confirm") /\ UNCHANGED result
  ELSE DropConf(d) /\ UNCHANGED held /\ Finish(d, "rolled_back")

\* restore_previous gives up before it touches anything (a snapshot could not be
\* read, a path was removed to make room), or its write fails in its turn.
RestoreFails(d, r) ==
  /\ "writefails" \in Hazards
  /\ \/ UNCHANGED <<conf, pending>>
     \/ prev[d] # Absent /\ \E c \in {conf[d], Empty} : PutConf(d, c)
  /\ Finish(d, r)
  /\ UNCHANGED held

\* Someone else has changed the file since: leave it.
Rollback(d) ==
  /\ At(d, "rollback")
  /\ \/ conf[d] = want[d] /\ (Restore(d) \/ RestoreFails(d, "not_rolled_back"))
     \/ conf[d] # want[d] /\ Finish(d, "not_rolled_back") /\ UNCHANGED <<conf, pending, held>>
  /\ UNCHANGED <<daemon, marker, applied, link, run, sampled, vetted, restarted, want, prev, nudges>>

\* The failed write is undone without asking whose bytes the file holds.
Undo(d) ==
  /\ At(d, "undo")
  /\ Restore(d) \/ RestoreFails(d, "write_failed")
  /\ UNCHANGED <<daemon, marker, applied, link, run, sampled, vetted, restarted, want, prev, nudges>>

\* wait_host_reload for the restored text, 8 s: only the log depends on it.
Confirm(d) ==
  /\ At(d, "confirm")
  /\ Finish(d, "rolled_back")
  /\ UNCHANGED <<hostVars, want, prev, nudges, held>>

DeployerStep(d) ==
  \/ NotInstalled(d) \/ NothingToProbe(d) \/ Probe(d) \/ ProbeFails(d) \/ FillFile(d)
  \/ ProbeAnswered(d) \/ ProbeTimeout(d) \/ WriteFiles(d) \/ Invalidate(d)
  \/ WriteConf(d) \/ WriteConfFails(d) \/ PollOk(d) \/ Verify(d) \/ Nudge(d)
  \/ Deadline(d) \/ Rollback(d) \/ Undo(d) \/ Confirm(d)

\* An editor or another program rewrites a configuration file, or removes it.
Edit(s, c) ==
  /\ conf[s] # c /\ held[s] = Unread
  /\ IF c = Absent THEN DropConf(s) ELSE PutConf(s, c)
  /\ UNCHANGED <<daemon, marker, applied, link, run, sampled, vetted, restarted, deployVars>>

HostStep == Host /\ UNCHANGED deployVars

Next ==
  \/ HostStep
  \/ \E d \in Slot : DeployerStep(d)
  \/ \E d \in Slot : \E c \in Offers[d] : Begin(d, c)
  \/ \E s \in Slot : \E c \in Edits[s] : Edit(s, c)

Spec == Init /\ [][Next]_vars

\* The script runs to its end, dnsmasq ends up active, and a deploy's thread is
\* scheduled; nobody has to begin a deploy, restart dnsmasq or edit a file.
Fairness ==
  /\ WF_vars((Script \/ BecomesActive) /\ UNCHANGED deployVars)
  /\ \A d \in Slot : WF_vars(DeployerStep(d))

FairSpec == Spec /\ Fairness

-----------------------------------------------------------------------------
(* Properties that hold whatever the environment does *)

\* A deploy reports success only if the host script gave its OK, for the very
\* text the deploy wrote, after that deploy removed its slot's old marker: a
\* second deploy of the same text cannot live on the first one's verdict, nor
\* one slot on the verdict for the other (wait_host_reload and
\* invalidate_host_reload_state, core/dhcp.py).
SuccessVetted == \A d \in Slot : result[d] = "ok" => want[d] \in vetted[d]

-----------------------------------------------------------------------------
(* Properties of a calm environment (Hazards and Edits empty), and what some   *)
(* hazards break                                                               *)

\* The steps during which the script has restarted dnsmasq, or may have, and has
\* not told anyone yet.
Untold == {"await", "recheck_pxe", "recheck_ztp", "publish"}

\* Invariant 1 of opstk-dnsmasq-reload.sh: the sha in an OK marker is that of
\* the text dnsmasq has really read.
MarkerTruth ==
  run \notin Untold =>
    \A s \in Slot : marker[s].st = "OK" => daemon.loaded[s] = marker[s].sha

\* A deploy rolls its files back only if dnsmasq was not restarted since it wrote
\* them: reload_failure_is_pre_restart proves what its name says, so that the
\* rolled back network is exactly the one before the deploy.
RollbackSafe == \A d \in Slot : pc[d] = "rollback" => ~restarted[d]

\* The script never takes down a running dnsmasq: it restarts it only with files
\* that passed dnsmasq --test, so a bad deploy leaves the old service running.
StaysUp == daemon.state # "down"

\* An edge the path unit lost is made up for: a deploy that is waiting for the
\* host with a text dnsmasq accepts ends with success, never by running out of
\* nudges (wait_host_reload_retrying).
GoodDeploySucceeds ==
  \A d \in Slot :
    (pc[d] = "wait" /\ Accepted([conf EXCEPT ![d] = want[d]])) ~> (result[d] = "ok")

\* All or nothing: the deploys implement DeployPromise, where a deploy either
\* has its text served when it reports success or leaves the served text as it
\* was (deploy_files).  The text in force is the file's, or its snapshot while a
\* deploy is between the write and its verdict; an empty file configures as
\* little as none.
Unsettled == {"write", "undo", "wait", "verify", "rollback", "confirm"}

Effect(c) == IF c = Absent THEN Empty ELSE c

InForce == [d \in Slot |-> Effect(IF pc[d] \in Unsettled THEN prev[d] ELSE conf[d])]

Served == [d \in Slot |-> Effect(daemon.loaded[d])]

Promise == INSTANCE DeployPromise WITH
  Service <- Slot,
  Text    <- Content,
  NoText  <- Unread,
  target  <- [d \in Slot |-> IF Busy(d) THEN want[d] ELSE Unread],
  inForce <- InForce,
  served  <- Served,
  outcome <- [d \in Slot |-> IF result[d] \in {"none", "ok"} THEN result[d]
                                                             ELSE "failed"]

PromiseSpec == Promise!Spec
=============================================================================
