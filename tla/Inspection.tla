------------------------------ MODULE Inspection ------------------------------
(***************************************************************************)
(* Inspections of devices: ct/inspection/service.py with the websocket and *)
(* the task endpoint of api/inspection.py.  A task is a row that says      *)
(* running before anything runs, a coroutine that fans out one branch per  *)
(* device, and one commit at the end that stores the results and the       *)
(* verdict.  A websocket client may watch, and may leave.                  *)
(***************************************************************************)
EXTENDS Naturals, FiniteSets, SequencesExt

CONSTANTS
  Task, Asset,
  Concurrency,   \* settings.inspection_concurrency
  EarlyLeave,    \* whether a client may go before it is sent its task's id
  MaxFaults      \* commits that fail, and restarts

ASSUME InspectionAssumption ==
  /\ IsFiniteSet(Asset)
  /\ Concurrency \in Nat \ {0} /\ EarlyLeave \in BOOLEAN /\ MaxFaults \in Nat

VARIABLES
  device,   \* what an inspection of each asset comes to
  row,      \* inspection_tasks.status
  stored,   \* inspection_results: per task, assets with their status
  job,      \* run_task_in_background, and the websocket around it: its step
  branch,   \* per task and asset, how far _run is
  ended,    \* per task, the branches that have ended, in that order
  taken,    \* how many of these inspect_many has awaited
  client,   \* who watches
  queue,    \* the websocket's event queue
  told,     \* what the client has been sent
  alerted,  \* assets an alert was scheduled for
  faults,
  unmarked  \* history: tasks whose failure could not be written down

table == <<row, stored>>
run   == <<job, branch, ended, taken, alerted>>
live  == <<client, queue, told>>
harm  == <<faults, unmarked>>
taskVars  == <<device, table, run, live, harm>>

\* A credential that is gone, one that cannot be decrypted, a device that does not
\* answer, one with a metric over a rule's threshold.
Devices == {"missing", "dangling", "undecryptable", "offline", "over", "good"}

JobSteps == {"none", "hello", "start", "gather", "log", "judge", "store", "raised", "drain", "ended"}

BranchSteps == {"none", "waiting", "loading", "working", "returned", "raised"}

Results == Asset \X {"success", "failed"}

Message == ({"begin", "end"} \X Asset) \cup {<<"complete", S>> : S \in SUBSET Asset}

Sentinel == <<"none">>

TaskTypeOK ==
  /\ device \in [Asset -> Devices]
  /\ row \in [Task -> {"none", "running", "done", "failed"}]
  /\ stored \in [Task -> SUBSET Results]
  /\ job \in [Task -> JobSteps]
  /\ branch \in [Task -> [Asset -> BranchSteps]]
  /\ \A t \in Task :
       /\ Range(ended[t]) = {a \in Asset : branch[t][a] \in {"returned", "raised"}}
       /\ taken[t] <= Len(ended[t])
       /\ Range(queue[t]) \subseteq Message \cup {Sentinel}
       /\ Range(told[t]) \subseteq Message
       \* Not more devices at a time than the network is to bear, whatever became
       \* of the task.
       /\ Cardinality({a \in Asset : branch[t][a] \in {"loading", "working"}}) <= Concurrency
  /\ client \in [Task -> {"none", "watching", "gone"}]
  /\ alerted \in [Task -> SUBSET Asset]
  /\ faults \in 0..MaxFaults /\ unmarked \subseteq Task

AllTasks(x) == [t \in Task |-> x]

TaskInit ==
  /\ device \in [Asset -> Devices]
  /\ row = AllTasks("none") /\ stored = AllTasks({})
  /\ job = AllTasks("none") /\ branch = AllTasks([a \in Asset |-> "none"])
  /\ ended = AllTasks(<<>>) /\ taken = AllTasks(0)
  /\ client = AllTasks("none") /\ queue = AllTasks(<<>>) /\ told = AllTasks(<<>>)
  /\ alerted = AllTasks({})
  /\ faults = 0 /\ unmarked = {}

-----------------------------------------------------------------------------
(* A task is made: by POST /tasks, or by a websocket's configuration. *)

Create(t) ==
  /\ row[t] = "none"
  /\ row' = [row EXCEPT ![t] = "running"]
  /\ job' = [job EXCEPT ![t] = "start"]
  /\ UNCHANGED <<device, stored, branch, ended, taken, alerted, live, harm>>

Connect(t) ==
  /\ row[t] = "none"
  /\ row' = [row EXCEPT ![t] = "running"]
  /\ job' = [job EXCEPT ![t] = "hello"]
  /\ client' = [client EXCEPT ![t] = "watching"]
  /\ UNCHANGED <<device, stored, branch, ended, taken, alerted, queue, told, harm>>

\* The client goes.
Leave(t) ==
  /\ client[t] = "watching" /\ job[t] # "ended" /\ (job[t] = "hello" => EarlyLeave)
  /\ client' = [client EXCEPT ![t] = "gone"]
  /\ UNCHANGED <<device, table, run, queue, told, harm>>

\* send_json of the task's id.  To a client that is gone it raises, past the call
\* of run_task_in_background.
Hello(t) ==
  /\ job[t] = "hello"
  /\ IF client[t] = "watching"
     THEN job' = [job EXCEPT ![t] = "start"] /\ UNCHANGED queue
     ELSE /\ job' = [job EXCEPT ![t] = "drain"]
          /\ queue' = [queue EXCEPT ![t] = Append(@, Sentinel)]
  /\ UNCHANGED <<device, table, branch, ended, taken, alerted, client, told, harm>>

-----------------------------------------------------------------------------
(* run_task_in_background *)

Go(t, from, to) == job[t] = from /\ job' = [job EXCEPT ![t] = to]

\* Loads the task, says running and fans out.
Start(t) ==
  /\ Go(t, "start", "gather")
  /\ row' = [row EXCEPT ![t] = "running"]
  /\ branch' = [branch EXCEPT ![t] = [a \in Asset |-> "waiting"]]
  /\ UNCHANGED <<device, stored, ended, taken, alerted, live, harm>>

\* as_completed: the next branch that has ended is awaited, and what it raised
\* raises here, whatever the other branches are doing.
Gather(t) ==
  /\ job[t] = "gather" /\ taken[t] < Len(ended[t])
  /\ taken' = [taken EXCEPT ![t] = @ + 1]
  /\ job' = [job EXCEPT ![t] = IF branch[t][ended[t][taken[t] + 1]] = "raised" THEN "raised"
                               ELSE IF taken[t] + 1 = Cardinality(Asset) THEN "log" ELSE @]
  /\ UNCHANGED <<device, table, branch, ended, alerted, live, harm>>

\* The commit of the output log.
Log(t) ==
  /\ Go(t, "log", "judge")
  /\ UNCHANGED <<device, table, branch, ended, taken, alerted, live, harm>>

\* The rules: no await from the first result to the last row added.
Judge(t) ==
  /\ Go(t, "judge", "store")
  /\ alerted' = [alerted EXCEPT ![t] = {a \in Asset : device[a] = "over"}]
  /\ UNCHANGED <<device, table, branch, ended, taken, live, harm>>

Outcome(a) == IF device[a] = "good" THEN "success" ELSE "failed"

\* Who watches waits for the queue to be sent: a sentinel ends it.
Return(t) ==
  IF client[t] = "none"
  THEN job' = [job EXCEPT ![t] = "ended"] /\ UNCHANGED queue
  ELSE /\ job' = [job EXCEPT ![t] = "drain"]
       /\ queue' = [queue EXCEPT ![t] = Append(@, Sentinel)]

\* One commit of the rows and the verdict.
Store(t) ==
  /\ job[t] = "store"
  /\ stored' = [stored EXCEPT ![t] = {<<a, Outcome(a)>> : a \in Asset}]
  /\ row' = [row EXCEPT ![t] = "done"]
  /\ Return(t)
  /\ UNCHANGED <<device, branch, ended, taken, alerted, client, told, harm>>

\* A commit, or a read before it, fails.
Fault(t) ==
  /\ faults < MaxFaults
  /\ \E s \in {"start", "log", "judge", "store"} : Go(t, s, "raised")
  /\ faults' = faults + 1
  /\ UNCHANGED <<device, table, branch, ended, taken, alerted, live, unmarked>>

\* Mutant of MarkFailed: in the session whose commit has failed, nothing more
\* can be committed.
MarkFailedInSession(t) ==
  /\ job[t] = "raised"
  /\ row' = [row EXCEPT ![t] = IF faults = 0 THEN "failed" ELSE @]
  /\ Return(t)
  /\ UNCHANGED <<device, stored, branch, ended, taken, alerted, client, told, harm>>

\* The outermost except, in a session of its own.
MarkFailed(t) ==
  /\ job[t] = "raised"
  /\ row' = [row EXCEPT ![t] = "failed"]
  /\ Return(t)
  /\ UNCHANGED <<device, stored, branch, ended, taken, alerted, client, told, harm>>

\* That session can fail too, and then nothing is said.
MarkFailedFails(t) ==
  /\ job[t] = "raised" /\ faults < MaxFaults
  /\ faults' = faults + 1 /\ unmarked' = unmarked \cup {t}
  /\ Return(t)
  /\ UNCHANGED <<device, table, branch, ended, taken, alerted, client, told>>

-----------------------------------------------------------------------------
(* A branch: inspect_many's _run, with inspect_one *)

Emit(t, es) == queue' = [queue EXCEPT ![t] = IF client[t] = "none" THEN @ ELSE @ \o es]

End(t, a, how) ==
  /\ branch' = [branch EXCEPT ![t][a] = how]
  /\ ended' = [ended EXCEPT ![t] = Append(@, a)]

\* The semaphore of this call.
Acquire(t, a) ==
  /\ branch[t][a] = "waiting"
  /\ Cardinality({b \in Asset : branch[t][b] \in {"loading", "working"}}) < Concurrency
  /\ branch' = [branch EXCEPT ![t][a] = "loading"]
  /\ UNCHANGED <<device, table, job, ended, taken, alerted, live, harm>>

\* The asset, its credential, the commands; the thread is started for a device
\* that answers the TCP check.
Load(t, a) ==
  /\ branch[t][a] = "loading"
  /\ \/ device[a] = "missing" /\ End(t, a, "returned") /\ UNCHANGED queue
     \/ device[a] = "undecryptable" /\ End(t, a, "raised") /\ UNCHANGED queue
     \/ device[a] = "dangling" /\ End(t, a, "returned") /\ Emit(t, << <<"end", a>> >>)
     \/ device[a] = "offline" /\ End(t, a, "returned") /\ Emit(t, << <<"begin", a>>, <<"end", a>> >>)
     \/ /\ device[a] \in {"over", "good"}
        /\ branch' = [branch EXCEPT ![t][a] = "working"]
        /\ Emit(t, << <<"begin", a>> >>)
        /\ UNCHANGED ended
  /\ UNCHANGED <<device, table, job, taken, alerted, client, told, harm>>

\* The thread returns, the outputs are parsed.
Work(t, a) ==
  /\ branch[t][a] = "working"
  /\ End(t, a, "returned")
  /\ Emit(t, << <<"end", a>> >>)
  /\ UNCHANGED <<device, table, job, taken, alerted, client, told, harm>>

-----------------------------------------------------------------------------
(* The websocket *)

Tell(t, m) == told' = [told EXCEPT ![t] = IF client[t] = "watching" THEN Append(@, m) ELSE @]

\* drain, as long as it runs: behind the sentinel nothing is sent any more.
Drain(t) ==
  /\ job[t] \notin {"none", "ended"} /\ queue[t] # <<>> /\ Head(queue[t]) # Sentinel
  /\ queue' = [queue EXCEPT ![t] = Tail(@)]
  /\ Tell(t, Head(queue[t]))
  /\ UNCHANGED <<device, table, run, client, harm>>

\* Mutant of Complete: the drainer is not awaited.
CompleteAtOnce(t) ==
  /\ Go(t, "drain", "ended")
  /\ Tell(t, <<"complete", IF row[t] = "done" THEN Asset ELSE {}>>)
  /\ UNCHANGED <<device, table, branch, ended, taken, alerted, client, queue, harm>>

\* The drainer has met the sentinel; the results are sent, those that were
\* gathered in full and none if not.
Complete(t) ==
  /\ Go(t, "drain", "ended")
  /\ queue[t] # <<>> /\ Head(queue[t]) = Sentinel
  /\ Tell(t, <<"complete", IF taken[t] = Cardinality(Asset) /\ \A a \in Asset : branch[t][a] = "returned"
                           THEN Asset ELSE {}>>)
  /\ queue' = [queue EXCEPT ![t] = Tail(@)]
  /\ UNCHANGED <<device, table, branch, ended, taken, alerted, client, harm>>

-----------------------------------------------------------------------------
\* Mutant of Recover: every row.
RecoverAll == [t \in Task |-> IF row[t] = "none" THEN "none" ELSE "failed"]

\* recover_interrupted_tasks
Recover == [t \in Task |-> IF row[t] = "running" THEN "failed" ELSE row[t]]

\* The program ends and starts again; it recovers before it serves.
Restart ==
  /\ faults < MaxFaults
  /\ faults' = faults + 1
  /\ row' = Recover
  /\ job' = [t \in Task |-> IF job[t] = "none" THEN "none" ELSE "ended"]
  /\ branch' = AllTasks([a \in Asset |-> "none"]) /\ ended' = AllTasks(<<>>) /\ taken' = AllTasks(0)
  /\ client' = [t \in Task |-> IF client[t] = "none" THEN "none" ELSE "gone"]
  /\ queue' = AllTasks(<<>>)
  /\ UNCHANGED <<device, stored, told, alerted, unmarked>>

JobStep(t) ==
  \/ Hello(t) \/ Start(t) \/ Gather(t) \/ Log(t) \/ Judge(t) \/ Store(t) \/ MarkFailed(t)
  \/ Complete(t)

BranchStep(t, a) == Acquire(t, a) \/ Load(t, a) \/ Work(t, a)

TaskNext ==
  \/ \E t \in Task :
       \/ Create(t) \/ Connect(t) \/ Leave(t)
       \/ JobStep(t) \/ Drain(t) \/ Fault(t) \/ MarkFailedFails(t)
       \/ \E a \in Asset : BranchStep(t, a)
  \/ Restart

TaskSpec == TaskInit /\ [][TaskNext]_taskVars

\* The event loop runs every coroutine that can run; devices are waited for with
\* a timeout.
TaskFairness ==
  \A t \in Task :
    /\ WF_taskVars(JobStep(t)) /\ WF_taskVars(Drain(t))
    /\ \A a \in Asset : WF_taskVars(BranchStep(t, a))

TaskFairSpec == TaskSpec /\ TaskFairness

-----------------------------------------------------------------------------
(* Properties *)

\* A task that is done has one row for each of its devices, a failed one only where
\* the device failed or a rule alerted, and any other task has no row at all: the
\* rows and the verdict are one commit, wherever it is cut off.
DoneIsWhole ==
  \A t \in Task :
    /\ row[t] = "done" <=> stored[t] # {}
    /\ row[t] = "done" =>
         \A a \in Asset : Cardinality({r \in stored[t] : r[1] = a}) = 1
    /\ \A a \in Asset :
         <<a, "failed">> \in stored[t] /\ device[a] \notin {"missing", "dangling", "offline"} => a \in alerted[t]

\* A verdict is final, also for the recovery of a later start.
SettledForGood ==
  [][\A t \in Task : row[t] \in {"done", "failed"} => row'[t] = row[t] /\ stored'[t] = stored[t]]_taskVars

\* No task says running for ever: not when a device fails, a watcher leaves, a
\* commit fails or the program is restarted; only when the failure itself could not
\* be written down.
Settles == \A t \in Task : row[t] = "running" ~> row[t] \in {"done", "failed"} \/ t \in unmarked

\* A watcher is told everything in order, the results last.
StreamInOrder ==
  \A t \in Task : \A i \in DOMAIN told[t] :
    told[t][i][1] = "complete" =>
      /\ i = Len(told[t])
      /\ \A a \in told[t][i][2] :
           device[a] # "missing" => \E j \in 1..i - 1 : told[t][j] = <<"end", a>>

\* Results appear whole, in the tables as on the websocket.
ResultsWhole == DoneIsWhole /\ StreamInOrder
=============================================================================
