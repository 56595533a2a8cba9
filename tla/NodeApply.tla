------------------------------ MODULE NodeApply ------------------------------
(***************************************************************************)
(* A node plan is applied to its machine: apply_plan, sync_plan and        *)
(* apply_device of api/nodeplan.py, the scripts that it/nodeplan/apply.py  *)
(* writes for a Linux machine and it/nodeplan/device.py for a switch.  The *)
(* platform arms a timer on the Linux machine and goes away; the machine   *)
(* backs its configuration up, installs the new one, checks it, restores   *)
(* the old one if the check fails, and leaves a result that a later sync   *)
(* brings home.  A switch is configured in one session instead.  The plan, *)
(* its machine, and any requests for it in any overlap.                    *)
(***************************************************************************)
EXTENDS Naturals, Sequences

CONSTANTS
  Requests,   \* how many requests; an apply's change_id is the request itself
  MaxEdits,   \* updates of the plan
  Backend,    \* what plans are rendered for
  Config,     \* what a plan may ask for
  Original,   \* what the machine runs before any plan
  Mixed,      \* a configuration of which only a part arrived
  MaxFaults   \* restarts of the machine, lost replies, failing commits, copies that fail

Request == 1..Requests
None == 0    \* no configuration, no change

ASSUME NodeApplyAssumption ==
  /\ Requests \in Nat /\ MaxEdits \in Nat /\ MaxFaults \in Nat
  /\ Backend \subseteq {"netplan", "nmcli", "ifcfg", "device"}
  /\ {Original, Mixed, None} \cap Config = {} /\ Original # Mixed /\ None \notin {Original, Mixed}

VARIABLES
  backend,  \* what the plan is rendered for
  plan,     \* its row: what its interfaces ask for, status, change_id
  req,      \* the handlers
  change,   \* on the machine: the state directory of each change, and its script
  timers,   \* on the machine: the timers that run, in the order of their starting
  disk,     \* the configuration the machine starts with
  live,     \* the configuration it runs
  edits,
  faults,
  good,     \* history: the last configuration that was checked, or Original
  clean,    \* history: since then no change met another, died half way or failed to copy
  met       \* history: two requests were under way at a time

vars == <<backend, plan, req, change, timers, disk, live, edits, faults, good, clean, met>>

Found == Config \cup {Original, Mixed}
Wanted == Config \cup {None}
Answers == {"none", "ok", "refused", "error"}

Plan == [wants : Config, change : Request \cup {None},
         status : {"pending", "generated", "applying", "applied", "rolled_back", "failed"}]

Handler == [at : {"new", "expect", "deploy", "session", "fetch", "commit", "ended"},
            config : Wanted, expected : Wanted, change : Request \cup {None},
            status : {"none", "applying", "applied", "rolled_back", "failed"}, answer : Answers]

Running == {"written", "applied", "undo", "checked"}
Change == [at : Running \cup {"none", "partial", "armed", "dead", "done"},
           config : Wanted, expected : Wanted, backup : Found \cup {None},
           result : {"none", "applied", "rolled_back"},
           before : Found \cup {None}, \* history: what was on the disk when it began
           alone : BOOLEAN,           \* history: no other change's script ran meanwhile
           slipped : BOOLEAN]         \* history: one of its copies failed

TypeOK ==
  /\ backend \in Backend /\ plan \in Plan
  /\ req \in [Request -> Handler]
  /\ change \in [Request -> Change]
  /\ timers \in Seq(Request) /\ \A r \in Request : change[r].at = "armed" <=> \E i \in DOMAIN timers : timers[i] = r
  /\ disk \in Found /\ live \in Found
  /\ edits \in 0..MaxEdits /\ faults \in 0..MaxFaults
  /\ good \in Found /\ clean \in BOOLEAN /\ met \in BOOLEAN
  /\ \A r \in Request : change[r].at \in Running => change[r].backup # None
  /\ plan.change # None => change[plan.change].at \notin {"none", "partial"}

Init ==
  /\ backend \in Backend
  /\ plan \in [wants : Config, change : {None}, status : {"pending"}]
  /\ req = [r \in Request |-> [at |-> "new", config |-> None, expected |-> None, change |-> None,
                               status |-> "none", answer |-> "none"]]
  /\ change = [r \in Request |-> [at |-> "none", config |-> None, expected |-> None,
                                  backup |-> None, result |-> "none", before |-> None,
                                  alone |-> TRUE, slipped |-> FALSE]]
  /\ timers = <<>>
  /\ disk = Original /\ live = Original
  /\ edits = 0 /\ faults = 0 /\ good = Original /\ clean = TRUE /\ met = FALSE

-----------------------------------------------------------------------------
(* The requests. *)

machine == <<change, timers, disk, live, good, clean>>

Open(r) == req[r].at \notin {"new", "ended"}

Fault == faults < MaxFaults /\ faults' = faults + 1

Answer(r, a) ==
  req' = [req EXCEPT ![r] = [at |-> "ended", config |-> None, expected |-> None,
                             change |-> None, status |-> "none", answer |-> a]]

\* The next request, in the order of their numbers.
Arrive(r) ==
  /\ req[r].at = "new" /\ \A q \in 1..r - 1 : req[q].at # "new"
  /\ met' = (met \/ \E q \in Request : Open(q))

\* update_plan: the interfaces are replaced in one commit.
Edit(c) ==
  /\ c # plan.wants /\ edits < MaxEdits /\ edits' = edits + 1
  /\ plan' = [plan EXCEPT !.wants = c]
  /\ UNCHANGED <<backend, req, machine, faults, met>>

\* A job of generated scripts that includes this plan.
Generate ==
  /\ \E r \in Request : req[r].at = "new"
  /\ plan' = [plan EXCEPT !.status = "generated"]
  /\ UNCHANGED <<backend, req, machine, edits, faults, met>>

\* apply_plan, apply_device: the switches are on, the plan has an address, and it is
\* rendered.
BeginApply(r) ==
  /\ Arrive(r)
  /\ req' = [req EXCEPT ![r].config = plan.wants,
                        ![r].at = IF backend = "device" THEN "session" ELSE "expect"]
  /\ UNCHANGED <<backend, plan, machine, edits, faults>>

\* The state to expect comes from a second read of the interfaces.
Expect(r) ==
  /\ req[r].at = "expect"
  /\ req' = [req EXCEPT ![r].expected = plan.wants, ![r].at = "deploy"]
  /\ UNCHANGED <<backend, plan, machine, edits, faults, met>>

\* What r leaves on the machine.
Leave(r, at) ==
  /\ change' = [change EXCEPT ![r].at = at, ![r].config = req[r].config,
                              ![r].expected = req[r].expected]
  /\ timers' = IF at = "armed" THEN Append(timers, r) ELSE timers

\* deploy_bundle, which blocks the event loop: the files, then the timer.
DeployBundle(r) ==
  /\ req[r].at = "deploy"
  /\ Leave(r, "armed")
  /\ req' = [req EXCEPT ![r].at = "commit", ![r].change = r, ![r].status = "applying"]
  /\ UNCHANGED <<backend, plan, disk, live, good, clean, edits, faults, met>>

\* It raises: before the timer was started, or after, when the reply is lost.
DeployBundleFails(r) ==
  /\ req[r].at = "deploy" /\ Fault
  /\ \E at \in {"none", "partial", "armed"} : Leave(r, at)
  /\ Answer(r, "refused")
  /\ UNCHANGED <<backend, plan, disk, live, good, clean, edits, met>>

\* Every handler that has something to write writes only the columns it changed.
Commit(r) ==
  /\ req[r].at = "commit"
  /\ plan' = [plan EXCEPT !.status = req[r].status,
                          !.change = IF req[r].status = "applying" THEN r ELSE @]
  /\ Answer(r, "ok")
  /\ UNCHANGED <<backend, machine, edits, faults, met>>

CommitFails(r) ==
  /\ req[r].at = "commit" /\ Fault
  /\ Answer(r, "error")
  /\ UNCHANGED <<backend, plan, machine, edits, met>>

\* sync_plan up to its await for the install record.
BeginSync(r) ==
  /\ Arrive(r) /\ plan.change # None
  /\ req' = [req EXCEPT ![r].at = "fetch", ![r].change = plan.change]
  /\ UNCHANGED <<backend, plan, machine, edits, faults>>

\* Mutant of Fetch: no result is taken for a change that did not stay.
FetchTimesOut(r) ==
  /\ req[r].at = "fetch"
  /\ LET result == change[req[r].change].result
     IN  req' = [req EXCEPT ![r].at = "commit",
                            ![r].status = IF result = "none" THEN "rolled_back" ELSE result]
  /\ UNCHANGED <<backend, plan, machine, edits, faults, met>>

\* fetch_result, over one address after the other.
Fetch(r) ==
  /\ req[r].at = "fetch"
  /\ LET result == change[req[r].change].result
     IN  /\ result # "none"
         /\ req' = [req EXCEPT ![r].at = "commit", ![r].status = result]
  /\ UNCHANGED <<backend, plan, machine, edits, faults, met>>

\* No result yet, or no way to the machine.
FetchNothing(r) ==
  /\ req[r].at = "fetch" /\ Answer(r, "error")
  /\ UNCHANGED <<backend, plan, machine, edits, faults, met>>

\* push_config, verify_device, save_config in one session that blocks the event loop:
\* what was not understood shows in the configuration read back; only a verified
\* configuration is saved, and only if the caller says so and the device agrees.
Session(r) ==
  /\ req[r].at = "session"
  /\ \E arrived \in {req[r].config, Mixed}, saved \in BOOLEAN :
       /\ live' = arrived
       /\ saved => arrived # Mixed
       /\ disk' = IF saved THEN arrived ELSE disk
       /\ good' = IF saved THEN arrived ELSE good
       /\ clean' = (clean \/ saved)
       /\ req' = [req EXCEPT ![r].at = "commit",
                             ![r].status = IF arrived = Mixed THEN "failed" ELSE "applied"]
  /\ UNCHANGED <<backend, plan, change, timers, edits, faults, met>>

\* A line was answered with an error: nothing is read back and nothing saved.
SessionRejected(r) ==
  /\ req[r].at = "session"
  /\ live' = Mixed
  /\ req' = [req EXCEPT ![r].at = "commit", ![r].status = "rolled_back"]
  /\ UNCHANGED <<backend, plan, change, timers, disk, good, clean, edits, faults, met>>

\* No connection, or it breaks before the saving.
SessionBreaks(r) ==
  /\ req[r].at = "session" /\ Fault
  /\ live' \in {live, Mixed, req[r].config}
  /\ Answer(r, "error")
  /\ UNCHANGED <<backend, plan, change, timers, disk, good, clean, edits, met>>

-----------------------------------------------------------------------------
(* The Linux machine: run.sh and what it calls, for each armed change.      *)

requests == <<backend, plan, req, edits, faults, met>>

Under(r) == change[r].at \in Running

Reach(r, at) == change' = [change EXCEPT ![r].at = at]

\* What WRITE_CONFIG puts on the disk: for nmcli the script is the configuration.
Written(r) == IF backend = "nmcli" THEN disk ELSE change[r].config

\* apply.sh up to the command: the backup, then WRITE_CONFIG.  slips: one of them failed.
Install(r, backup, written, slips) ==
  /\ change[r].at = "armed" /\ timers # <<>> /\ r = Head(timers) /\ timers' = Tail(timers)
  /\ LET meets == \E q \in Request : Under(q)
     IN  /\ clean' = (clean /\ ~meets /\ ~slips)
         /\ change' = [q \in Request |->
              IF q = r THEN [change[q] EXCEPT !.at = "written", !.backup = backup, !.before = disk,
                                              !.alone = ~meets, !.slipped = slips]
              ELSE [change[q] EXCEPT !.alone = @ /\ ~Under(q)]]
  /\ disk' = written
  /\ UNCHANGED <<backend, plan, req, edits, met, live, good>>

\* Mutant of Fire: the backup is made after the writing.
FireCopiesWritten(r) == Install(r, Written(r), Written(r), FALSE) /\ UNCHANGED faults

\* The time is up.  Every timer runs for the same 90 seconds.
Fire(r) == Install(r, disk, Written(r), FALSE) /\ UNCHANGED faults

\* A full disk: what cannot be copied, in part or not at all, stops nothing.
FireSlips(r) ==
  /\ Fault
  /\ \E backup \in {disk, Mixed}, written \in {disk, Mixed, Written(r)} :
       Install(r, backup, IF backend = "nmcli" THEN disk ELSE written, TRUE)

\* APPLY_CMD: the machine runs what is on disk; nmcli's script also puts it there.
ApplyCmd(r, files) ==
  LET config == IF backend = "nmcli" THEN change[r].config ELSE files
  IN  live' = config /\ disk' = config

Apply(r) ==
  /\ change[r].at = "written"
  /\ Reach(r, "applied") /\ ApplyCmd(r, disk)
  /\ UNCHANGED <<requests, timers, good, clean>>

ApplyFails(r) ==
  /\ change[r].at = "written"
  /\ Reach(r, "undo")
  /\ \/ UNCHANGED <<disk, live>>
     \/ ApplyCmd(r, disk)
  /\ UNCHANGED <<requests, timers, good, clean>>

\* probe.sh and check.sh: what is expected is there.
Check(r) ==
  /\ change[r].at = "applied" /\ live = change[r].expected
  /\ Reach(r, "checked")
  /\ good' = change[r].expected
  /\ clean' = (clean \/ change[r].alone)
  /\ UNCHANGED <<requests, timers, disk, live>>

\* Mutant of CheckFails: the check is repeated until the state shows.
CheckRepeats(r) == change[r].at = "applied" /\ UNCHANGED vars

\* An address or the route does not show, also because the network is slow.
CheckFails(r) ==
  /\ change[r].at = "applied"
  /\ Reach(r, "undo")
  /\ UNCHANGED <<requests, timers, disk, live, good, clean>>

\* rollback.sh puts files back; then APPLY_CMD again, and whether that succeeds makes no
\* difference.
Restore(r, files) == ApplyCmd(r, files) \/ (disk' = files /\ UNCHANGED live)

\* Mutant of Restored: what is new in the directory is not removed.
RestoredOver(r) == {change[r].backup, disk}

\* All of netplan's directory is restored, if there is a backup of it; of the ifcfg files
\* those that were there before (a file that was not stays); nothing of nmcli.
Restored(r) ==
  LET missing == change[r].slipped /\ change[r].backup = Mixed
  IN  (IF backend = "nmcli" THEN {} ELSE {change[r].backup})
        \cup (IF backend = "netplan" /\ ~missing THEN {} ELSE {disk})

Rollback(r) ==
  /\ change[r].at = "undo"
  /\ change' = [change EXCEPT ![r].at = "done", ![r].result = "rolled_back"]
  /\ \E files \in Restored(r) : Restore(r, files)
  /\ UNCHANGED <<requests, timers, good, clean>>

\* The directory is removed, or files are overwritten, and the copy then fails.
RollbackSlips(r) ==
  /\ Fault
  /\ change[r].at = "undo" /\ backend # "nmcli"
  /\ change' = [change EXCEPT ![r].at = "done", ![r].result = "rolled_back", ![r].slipped = TRUE]
  /\ Restore(r, Mixed)
  /\ clean' = FALSE
  /\ UNCHANGED <<backend, plan, req, edits, met, timers, good>>

\* run.sh writes result.json.
Finish(r) ==
  /\ change[r].at = "checked"
  /\ change' = [change EXCEPT ![r].at = "done", ![r].result = "applied"]
  /\ UNCHANGED <<requests, timers, disk, live, good, clean>>

\* The machine restarts: timers that were started and not enabled are gone, scripts
\* end where they are, the configuration is read from the disk.
Reboot ==
  /\ Fault
  /\ change' = [r \in Request |-> IF Under(r) \/ change[r].at = "armed"
                                  THEN [change[r] EXCEPT !.at = "dead"] ELSE change[r]]
  /\ timers' = <<>> /\ live' = disk
  /\ clean' = (clean /\ \A r \in Request : ~Under(r))
  /\ UNCHANGED <<backend, plan, req, edits, met, disk, good>>

ScriptStep(r) ==
  \/ Fire(r) \/ Apply(r) \/ ApplyFails(r) \/ Check(r) \/ CheckFails(r)
  \/ Rollback(r) \/ Finish(r)

HandlerStep(r) ==
  \/ Expect(r) \/ DeployBundle(r) \/ Commit(r) \/ Fetch(r) \/ FetchNothing(r)
  \/ Session(r) \/ SessionRejected(r)

Next ==
  \/ \E c \in Config : Edit(c)
  \/ Generate
  \/ \E r \in Request :
       \/ BeginApply(r) \/ BeginSync(r)
       \/ DeployBundleFails(r) \/ CommitFails(r) \/ SessionBreaks(r)
       \/ FireSlips(r) \/ RollbackSlips(r)
       \/ HandlerStep(r) \/ ScriptStep(r)
  \/ Reboot

Spec == Init /\ [][Next]_vars

\* Handlers and scripts that can go on do so; nobody has to send a request.
Fairness == \A r \in Request : WF_vars(HandlerStep(r)) /\ WF_vars(ScriptStep(r))

FairSpec == Spec /\ Fairness

-----------------------------------------------------------------------------
(* What the requests and the scripts promise together. *)

Idle == \A r \in Request : ~Under(r)

\* A timer that the plan knows nothing of: the reply or the commit was lost.
Unknown(r) == change[r].at \notin {"none", "partial"} /\ req[r].answer \in {"refused", "error"}

\* A change that met another, died half way or failed to copy.
Disturbed(c) == c.before # None /\ (~c.alone \/ c.slipped \/ c.at = "dead")

\* What such a change may leave: what it installed, what it found, or a part of them if a
\* copy failed.
Traces(c) == {c.config, c.before} \cup (IF c.slipped THEN {Mixed} ELSE {})

\* What the disturbed ones of the changes cs may have left.
Suspicious(cs) == UNION {Traces(cs[r]) : r \in {q \in Request : Disturbed(cs[q])}}

\* Between changes the machine starts with the last configuration that passed its
\* check, or with the original one: no failed check, no command that fails half way and
\* no session that breaks leaves another one there (apply.py 89-147, device.py 103-152).
\* For netplan and the switches.  Otherwise a change was disturbed, and nothing undisturbed
\* has been checked since: it starts with what a disturbed change installed or found, and
\* with half a configuration only where a copy failed.
VerifiedOrRestored ==
  Idle /\ backend \in {"netplan", "device"} =>
    disk = good \/ (~clean /\ disk \in Suspicious(change))

\* What a plan says of its last change is what that change came to, and a plan that says
\* applied is for a machine that starts with what the change installed, if the plan's
\* requests did not overlap and none was lost (nodeplan.py 569-591, 612-637).
ReportedIsTrue ==
  /\ plan.status \in {"applied", "rolled_back"} /\ backend = "netplan"
  /\ Idle /\ clean /\ ~met /\ \A r \in Request : ~Open(r) /\ ~Unknown(r)
  => /\ change[plan.change].result = plan.status
     /\ plan.status = "applied" /\ ~change[plan.change].slipped => disk = change[plan.change].config

\* A change whose timer was started comes to an end: it leaves a result, or the machine
\* restarted before it did (apply.py 149-167).
ChangesEnd ==
  \A r \in Request : change[r].at = "armed" ~> change[r].at \in {"done", "dead"}

\* A change that reports its rolling back has brought back what the machine had when it
\* began, whatever else ran, restarted or changed it meanwhile, unless a copy failed
\* (apply.py 133, "恢复备份并重新应用").
RolledBackIsBack ==
  [][\A r \in Request :
       /\ change[r].result = "none" /\ change'[r].result = "rolled_back" /\ ~change'[r].slipped
       => disk' = change[r].before]_vars
=============================================================================
