------------------------------ MODULE RepoSync ------------------------------
(***************************************************************************)
(* Requests for a sync of an offline repository.  The container can only   *)
(* write request.json (it/pxe/repo_sync.py); a path unit of the host sees  *)
(* that the file exists and runs opstk-repo-sync.sh, which reports in      *)
(* status.json and result.json and removes the request.  The unit is       *)
(* level triggered: while the file is there, an ended run is followed by   *)
(* the next one.                                                           *)
(*                                                                         *)
(* The platform's two functions run on its event loop, so that they do not *)
(* meet each other; the script meets them between any two of their file    *)
(* operations.                                                             *)
(***************************************************************************)
EXTENDS Naturals

CONSTANTS
  Request,    \* ids of requests
  NoFile,     \* the file is not there, or cannot be parsed
  MaxKills,   \* runs that are killed: after 6 h, or as the host restarts
  Allowed     \* unusual meetings that may happen, a set of Meetings

\* Meetings that a patient operator on a slow host does not bring about:
\*   busy     a sync is asked for while the last request is still there
\*   glimpse  the script reads the request between its creation and its writing
\*   full     the disk is full as the script writes a report: the file is left
\*            truncated, and the script, which runs without -e, goes on
Meetings == {"busy", "glimpse", "full"}

Blank == "blank"    \* created or truncated, not yet written

\* What the host writes, as far as it is shown.
Report == [state : {"running", "done", "failed"}, id : Request]

ASSUME RepoSyncAssumption ==
  /\ NoFile \notin Request \cup {Blank} \cup Report
  /\ Blank \notin Request
  /\ MaxKills \in Nat
  /\ Allowed \subseteq Meetings

VARIABLES
  request, status, result,    \* the files
  platform,   \* where start_sync or sync_status stands
  current,    \* the id start_sync was last given
  linked,     \* the file start_sync has open still has its name
  seen,       \* what sync_status has read since current was asked for
  script,     \* where the run stands: a step, the id it read and its outcome
  kills,
  asked,      \* history: ids asked for
  answered    \* history: ids with a result

vars == <<request, status, result, platform, current, linked, seen, script, kills,
          asked, answered>>

Nothing == [request |-> NoFile, status |-> NoFile, result |-> NoFile, all |-> FALSE]

Seen == [request : Request \cup {NoFile}, status : Report \cup {NoFile},
         result : Report \cup {NoFile}, all : BOOLEAN]

Run == [at : {"idle", "parse", "reject", "mark", "sync", "result", "status", "remove"},
        id : Request \cup {NoFile}, outcome : {"done", "failed"}]

TypeOK ==
  /\ request \in Request \cup {NoFile, Blank}
  /\ status \in Report \cup {NoFile}
  /\ result \in Report \cup {NoFile}
  /\ platform \in {"idle", "clear_status", "clear_result", "open", "write",
                   "read_status", "read_result"}
  /\ current \in Request \cup {NoFile}
  /\ linked \in BOOLEAN
  /\ seen \in Seen
  /\ script \in Run
  /\ kills \in 0..MaxKills
  /\ asked \subseteq Request
  /\ answered \subseteq Request

Init ==
  /\ request = NoFile /\ status = NoFile /\ result = NoFile
  /\ platform = "idle" /\ current = NoFile /\ linked = FALSE /\ seen = Nothing
  /\ script = [at |-> "idle", id |-> NoFile, outcome |-> "done"]
  /\ kills = 0 /\ asked = {} /\ answered = {}

Only(meeting, when) == when => meeting \in Allowed

\* What a report of the script may leave in its file.
Leaves(report) == {report} \cup {f \in {NoFile} : "full" \in Allowed}

-----------------------------------------------------------------------------
(* The platform: start_sync *)

StartSync(r) ==
  /\ platform = "idle" /\ r \notin asked
  /\ Only("busy", request # NoFile)
  /\ platform' = "clear_status" /\ current' = r /\ asked' = asked \cup {r}
  /\ seen' = Nothing
  /\ UNCHANGED <<request, status, result, linked, script, kills, answered>>

ClearStatus ==
  /\ platform = "clear_status" /\ platform' = "clear_result"
  /\ status' = NoFile
  /\ UNCHANGED <<request, result, current, linked, seen, script, kills, asked, answered>>

ClearResult ==
  /\ platform = "clear_result" /\ platform' = "open"
  /\ result' = NoFile
  /\ UNCHANGED <<request, status, current, linked, seen, script, kills, asked, answered>>

\* open(REQUEST, "w"): creates or truncates
OpenRequest ==
  /\ platform = "open" /\ platform' = "write"
  /\ request' = Blank /\ linked' = TRUE
  /\ UNCHANGED <<status, result, current, seen, script, kills, asked, answered>>

\* The bytes go to the open file, whether it still has its name or not.
WriteRequest ==
  /\ platform = "write" /\ platform' = "idle"
  /\ request' = IF linked THEN current ELSE request
  /\ UNCHANGED <<status, result, current, linked, seen, script, kills, asked, answered>>

(* The platform: sync_status *)

ReadRequest ==
  /\ platform = "idle" /\ platform' = "read_status"
  /\ seen' = [Nothing EXCEPT !.request = IF request = Blank THEN NoFile ELSE request]
  /\ UNCHANGED <<request, status, result, current, linked, script, kills, asked, answered>>

\* A report the script is just writing may not parse.
ReadStatus ==
  /\ platform = "read_status" /\ platform' = "read_result"
  /\ \/ seen' = [seen EXCEPT !.status = status]
     \/ script.at \in {"mark", "status"} /\ seen' = seen
  /\ UNCHANGED <<request, status, result, current, linked, script, kills, asked, answered>>

ReadResult ==
  /\ platform = "read_result" /\ platform' = "idle"
  /\ \/ seen' = [seen EXCEPT !.result = result, !.all = TRUE]
     \/ script.at = "result" /\ seen' = [seen EXCEPT !.all = TRUE]
  /\ UNCHANGED <<request, status, result, current, linked, script, kills, asked, answered>>

Platform ==
  \/ ClearStatus \/ ClearResult \/ OpenRequest \/ WriteRequest
  \/ ReadRequest \/ ReadStatus \/ ReadResult

-----------------------------------------------------------------------------
(* The script *)

PlatformUnchanged == UNCHANGED <<platform, current, seen, kills, asked>>

\* Mutant of StartRun: the unit reacts to the creation of the file only.
StartOnEdge ==
  /\ script.at = "idle" /\ request \notin {NoFile, script.id}
  /\ script' = [script EXCEPT !.at = "parse"]
  /\ PlatformUnchanged /\ UNCHANGED <<request, status, result, linked, answered>>

\* PathExists is met and no run is under way: the service starts, takes the lock
\* and finds the file, which nobody else removes.
StartRun ==
  /\ script.at = "idle" /\ request # NoFile
  /\ script' = [script EXCEPT !.at = "parse"]
  /\ PlatformUnchanged /\ UNCHANGED <<request, status, result, linked, answered>>

ParseRequest ==
  /\ script.at = "parse"
  /\ Only("glimpse", request = Blank)
  /\ script' = IF request = Blank THEN [script EXCEPT !.at = "reject"]
               ELSE [script EXCEPT !.at = "mark", !.id = request]
  /\ PlatformUnchanged /\ UNCHANGED <<request, status, result, linked, answered>>

MarkRunning ==
  /\ script.at = "mark"
  /\ status' \in Leaves([state |-> "running", id |-> script.id])
  /\ script' = [script EXCEPT !.at = "sync"]
  /\ PlatformUnchanged /\ UNCHANGED <<request, result, linked, answered>>

\* Mutant of SyncEnds: a sync that fails ends the script.
FailureEndsRun ==
  /\ script.at = "sync"
  /\ \/ script' = [script EXCEPT !.at = "result", !.outcome = "done"]
     \/ script' = [script EXCEPT !.at = "remove", !.outcome = "failed"]
  /\ PlatformUnchanged /\ UNCHANGED <<request, status, result, linked, answered>>

SyncEnds ==
  /\ script.at = "sync"
  /\ \E o \in {"done", "failed"} : script' = [script EXCEPT !.at = "result", !.outcome = o]
  /\ PlatformUnchanged /\ UNCHANGED <<request, status, result, linked, answered>>

\* Mutant of WriteResult: only a sync that went well leaves a result.
ResultOfSuccess ==
  /\ script.at = "result"
  /\ result' = IF script.outcome = "done" THEN [state |-> "done", id |-> script.id] ELSE result
  /\ answered' = answered \cup {script.id}
  /\ script' = [script EXCEPT !.at = "status"]
  /\ PlatformUnchanged /\ UNCHANGED <<request, status, linked>>

\* A write that fails ends the python that was to write the status too, unless it
\* only fails as the file is closed.
WriteResult ==
  /\ script.at = "result"
  /\ result' \in Leaves([state |-> script.outcome, id |-> script.id])
  /\ answered' = answered \cup {i \in {script.id} : result' # NoFile}
  /\ \E step \in {"status"} \cup {w \in {"remove"} : result' = NoFile} :
       script' = [script EXCEPT !.at = step]
  /\ PlatformUnchanged /\ UNCHANGED <<request, status, linked>>

WriteStatus ==
  /\ script.at = "status"
  /\ status' \in Leaves([state |-> script.outcome, id |-> script.id])
  /\ script' = [script EXCEPT !.at = "remove"]
  /\ PlatformUnchanged /\ UNCHANGED <<request, result, linked, answered>>

\* rm -f, by name: after a run, or of a request that could not be parsed.
RemoveRequest ==
  /\ script.at \in {"remove", "reject"}
  /\ request' = NoFile /\ linked' = FALSE
  /\ script' = [script EXCEPT !.at = "idle"]
  /\ PlatformUnchanged /\ UNCHANGED <<status, result, answered>>

Script ==
  \/ StartRun \/ ParseRequest \/ MarkRunning \/ SyncEnds
  \/ WriteResult \/ WriteStatus \/ RemoveRequest

\* TimeoutStartSec, or the host goes down: the files stay as they are.
Killed ==
  /\ script.at # "idle" /\ kills < MaxKills
  /\ kills' = kills + 1
  /\ script' = [script EXCEPT !.at = "idle"]
  /\ UNCHANGED <<request, status, result, platform, current, linked, seen, asked, answered>>

Next == (\E r \in Request : StartSync(r)) \/ Platform \/ Script \/ Killed

Spec == Init /\ [][Next]_vars

\* The event loop runs a handler to its end and the script goes on; a sync ends
\* (or is killed after 6 h).  Nobody has to ask for a sync or for its status.
Fairness == WF_vars(Platform /\ platform # "idle") /\ WF_vars(Script)

FairSpec == Spec /\ Fairness

-----------------------------------------------------------------------------
(* Properties *)

\* Every request is run to an answer, also one whose run was killed: the request
\* stays until its answer is written, and the unit starts the next run because
\* the file exists, not because it appeared (opstk-repo-sync.path).
EveryRequestAnswered == \A r \in Request : (r \in asked) ~> (r \in answered)

\* The script removes only requests it has answered: a file whose content it never
\* ran does not disappear (the rm at the end of opstk-repo-sync.sh is by name).
OnlyAnsweredRemoved ==
  [][request # NoFile /\ request' = NoFile => request \in answered]_vars

\* What is shown after a request is never the state of an older one: start_sync
\* clears the reports, and no run of the old request is left to write new ones.
NoOldAnswer == seen.status # NoFile => seen.status.id = current

\* A sync shown as over is shown with its result: the script writes the result
\* before the status, sync_status reads them in the opposite order.  (A run that
\* was killed and comes again may be at its result as it is read.)
AnswerComplete ==
  /\ seen.all /\ seen.status # NoFile /\ kills = 0
  /\ seen.status.state \in {"done", "failed"}
  => seen.result # NoFile /\ seen.result.id = seen.status.id

\* What the operator is shown is about the sync that was asked for last, and whole, though
\* three files are cleared, written and read one after the other on two sides.
ShownTruly == NoOldAnswer /\ AnswerComplete
=============================================================================
