----------------------------- MODULE JobsProofs -----------------------------
(***************************************************************************)
(* Theorems about the two jobs in the background: RepoSync, for any number *)
(* of requests and of killed runs, and Inspection, for any number of       *)
(* tasks, of devices and of faults, and whenever a client leaves.          *)
(***************************************************************************)
EXTENDS RepoSync, Inspection, FiniteSetTheorems, TLAPS

USE RepoSyncAssumption, InspectionAssumption

-----------------------------------------------------------------------------
(* Offline repository sync *)

Working == {"mark", "sync", "result", "status", "remove"}

\* Of a patient operator on a slow host: the script works on the request that is
\* there, whose id is the last one asked for, and has answered it before it
\* removes it, as long as its disk is not full.
Current ==
  /\ request \in Request => request = current
  /\ request = Blank <=> platform = "write"
  /\ platform \in {"clear_status", "clear_result", "open"} => request = NoFile
  /\ platform \in {"clear_status", "clear_result", "open", "write"} => current \in Request
  /\ platform = "write" => linked
  /\ request = NoFile => script.at = "idle"
  /\ script.at # "reject"
  /\ script.at \in Working => script.id \in Request /\ script.id = request
  /\ script.at \in {"status", "remove"} => script.id \in answered \/ "full" \in Allowed

\* What is written and shown are reports of that id, once start_sync has cleared
\* what was there.
Fresh ==
  /\ status # NoFile => status.id = current \/ platform = "clear_status"
  /\ NoOldAnswer

SyncInv == TypeOK /\ Current /\ Fresh

\* The whole of an orderly use keeps it, also on a full disk.
LEMMA InvInductive ==
  ASSUME Allowed \subseteq {"full"}
  PROVE  /\ Init => SyncInv
         /\ SyncInv /\ [Next]_vars => SyncInv'
<1> USE DEF SyncInv, Current, Fresh, NoOldAnswer, Nothing, Working, Only, Run, Seen
<1>0. /\ "busy" \notin Allowed /\ "glimpse" \notin Allowed
      /\ \A f \in Report : Leaves(f) \subseteq {f, NoFile}
  BY DEF Leaves
<1>1. Init => SyncInv
  <2>1. ASSUME Init PROVE TypeOK
    <3>1. seen \in Seen /\ script \in Run
      BY <2>1 DEF Init, Seen, Run
    <3>2. kills \in 0..MaxKills
      BY <2>1 DEF Init
    <3>3. /\ request \in Request \cup {NoFile, Blank} /\ current \in Request \cup {NoFile}
          /\ status \in Report \cup {NoFile} /\ result \in Report \cup {NoFile}
          /\ linked \in BOOLEAN /\ asked \subseteq Request /\ answered \subseteq Request
      BY <2>1 DEF Init
    <3>4. platform \in {"idle", "clear_status", "clear_result", "open", "write",
                       "read_status", "read_result"}
      BY <2>1 DEF Init
    <3> QED
      BY ONLY <3>1, <3>2, <3>3, <3>4 DEF TypeOK
  <2>2. ASSUME Init PROVE Current /\ Fresh
    BY <2>2 DEF Init
  <2> QED
    BY <2>1, <2>2
<1>2. ASSUME SyncInv, NEW r \in Request, StartSync(r) PROVE SyncInv'
  BY <1>0, <1>2 DEF StartSync, TypeOK
<1>3. ASSUME SyncInv, ClearStatus PROVE SyncInv'
  BY <1>3 DEF ClearStatus, TypeOK
<1>4. ASSUME SyncInv, ClearResult PROVE SyncInv'
  BY <1>4 DEF ClearResult, TypeOK
<1>5. ASSUME SyncInv, OpenRequest PROVE SyncInv'
  BY <1>5 DEF OpenRequest, TypeOK
<1>6. ASSUME SyncInv, WriteRequest PROVE SyncInv'
  BY <1>6 DEF WriteRequest, TypeOK
<1>7. ASSUME SyncInv, ReadRequest PROVE SyncInv'
  <2>1. /\ seen'.status = NoFile /\ platform = "idle" /\ platform' = "read_status"
        /\ seen'.request \in Request \cup {NoFile} /\ seen'.result = NoFile /\ ~seen'.all
        /\ UNCHANGED <<request, status, result, current, linked, script, kills, asked, answered>>
    BY <1>7 DEF ReadRequest, TypeOK
  <2>2. TypeOK'
    <3>1. seen' \in Seen
      BY <1>7 DEF ReadRequest, TypeOK, Seen
    <3> QED
      BY <1>7, <2>1, <3>1 DEF TypeOK
  <2> QED
    BY <1>7, <2>1, <2>2
<1>8. ASSUME SyncInv, ReadStatus PROVE SyncInv'
  BY <1>8 DEF ReadStatus, TypeOK
<1>9. ASSUME SyncInv, ReadResult PROVE SyncInv'
  <2>1. seen'.status = seen.status /\ platform = "read_result" /\ platform' = "idle"
    BY <1>9 DEF ReadResult, TypeOK, Seen
  <2>2. seen' \in Seen
    BY <1>9, ZenonT(40) DEF ReadResult, TypeOK, Seen
  <2>3. UNCHANGED <<request, status, result, current, linked, script, kills, asked, answered>>
    BY <1>9 DEF ReadResult
  <2>4. TypeOK'
    BY <1>9, <2>1, <2>2, <2>3 DEF TypeOK
  <2> QED
    BY <1>9, <2>1, <2>3, <2>4
<1>10. ASSUME SyncInv, StartRun PROVE SyncInv'
  BY <1>10 DEF StartRun, PlatformUnchanged, TypeOK
<1>11. ASSUME SyncInv, ParseRequest PROVE SyncInv'
  <2>1. request \in Request
    BY <1>0, <1>11 DEF ParseRequest, TypeOK
  <2>2. script' = [script EXCEPT !.at = "mark", !.id = request]
    BY <1>11, <2>1 DEF ParseRequest
  <2>3. script'.at = "mark" /\ script'.id = request
    BY <1>11, <2>2 DEF TypeOK, Run
  <2>4. UNCHANGED <<request, status, result, linked, answered, platform, current, seen, kills, asked>>
    BY <1>11 DEF ParseRequest, PlatformUnchanged
  <2>5. script' \in Run
    BY <1>11, <2>1, <2>2 DEF TypeOK, Run
  <2>6. TypeOK'
    BY <1>11, <2>4, <2>5 DEF TypeOK
  <2> QED
    BY <1>11, <2>1, <2>3, <2>4, <2>6
<1>12. ASSUME SyncInv, MarkRunning PROVE SyncInv'
  <2>1. status' \in {[state |-> "running", id |-> script.id], NoFile}
    BY <1>0, <1>12 DEF MarkRunning, TypeOK, Report
  <2> QED
    BY <1>12, <2>1 DEF MarkRunning, PlatformUnchanged, TypeOK, Report
<1>13. ASSUME SyncInv, SyncEnds PROVE SyncInv'
  <2>1. PICK o \in {"done", "failed"} : script' = [script EXCEPT !.at = "result", !.outcome = o]
    BY <1>13 DEF SyncEnds
  <2>2. script'.at = "result" /\ script'.id = script.id /\ script.at = "sync"
    BY <1>13, <2>1 DEF SyncEnds, TypeOK, Run
  <2>3. UNCHANGED <<request, status, result, linked, answered, platform, current, seen, kills, asked>>
    BY <1>13 DEF SyncEnds, PlatformUnchanged
  <2>4. script' \in Run
    BY <1>13, <2>1 DEF TypeOK, Run
  <2>5. TypeOK'
    BY <1>13, <2>3, <2>4 DEF TypeOK
  <2> QED
    BY <1>13, <2>2, <2>3, <2>5
<1>14. ASSUME SyncInv, WriteResult PROVE SyncInv'
  <2>1. /\ result' \in {[state |-> script.outcome, id |-> script.id], NoFile}
        /\ "full" \notin Allowed => result' # NoFile
    BY <1>0, <1>14 DEF WriteResult, TypeOK, Report, Leaves
  <2>2. PICK step \in {"status", "remove"} : script' = [script EXCEPT !.at = step]
    BY <1>14 DEF WriteResult
  <2>3. script'.at \in {"status", "remove"} /\ script'.id = script.id /\ script' \in Run
    BY <1>14, <2>2 DEF TypeOK
  <2>4. /\ script.at = "result" /\ answered' = answered \cup {i \in {script.id} : result' # NoFile}
        /\ UNCHANGED <<request, status, linked, platform, current, seen, kills, asked>>
    BY <1>14 DEF WriteResult, PlatformUnchanged
  <2>5. result' \in Report \cup {NoFile} /\ answered' \subseteq Request
    BY <1>14, <2>1, <2>4 DEF TypeOK, Report
  <2>6. TypeOK'
    BY <1>14, <2>3, <2>4, <2>5 DEF TypeOK
  <2> QED
    BY <1>14, <2>1, <2>3, <2>4, <2>6
<1>15. ASSUME SyncInv, WriteStatus PROVE SyncInv'
  <2>1. status' \in {[state |-> script.outcome, id |-> script.id], NoFile}
    BY <1>0, <1>15 DEF WriteStatus, TypeOK, Report
  <2> QED
    BY <1>15, <2>1 DEF WriteStatus, PlatformUnchanged, TypeOK, Report
<1>16. ASSUME SyncInv, RemoveRequest PROVE SyncInv'
  BY <1>16, ZenonT(40) DEF RemoveRequest, PlatformUnchanged, TypeOK
<1>17. ASSUME SyncInv, Killed PROVE SyncInv'
  BY <1>17 DEF Killed, TypeOK
<1>18. ASSUME SyncInv, UNCHANGED vars PROVE SyncInv'
  BY <1>18 DEF vars, TypeOK
<1> QED
  BY <1>1, <1>2, <1>3, <1>4, <1>5, <1>6, <1>7, <1>8, <1>9, <1>10, <1>11, <1>12, <1>13,
     <1>14, <1>15, <1>16, <1>17, <1>18 DEF Next, Platform, Script

\* The invariant holds in every state.
LEMMA InvHolds == ASSUME Allowed \subseteq {"full"} PROVE Spec => []SyncInv
BY InvInductive, PTL DEF Spec

\* A step removes a request only when it has been answered.
LEMMA RemovalStep ==
  ASSUME Allowed = {}, SyncInv, [Next]_vars, request # NoFile, request' = NoFile
  PROVE  request \in answered
<1> USE DEF SyncInv, Current, Working
<1>1. CASE RemoveRequest
  BY <1>1 DEF RemoveRequest
<1>2. CASE ~RemoveRequest
  <2>1. request' \in {request, Blank} \cup Request
    BY <1>2, SMTT(30) DEF Next, StartSync, Platform, ClearStatus, ClearResult, OpenRequest, WriteRequest,
       ReadRequest, ReadStatus, ReadResult, Script, StartRun, ParseRequest, MarkRunning,
       SyncEnds, WriteResult, WriteStatus, Killed, vars
  <2> QED
    BY <2>1
<1> QED
  BY <1>1, <1>2

-----------------------------------------------------------------------------
(* What a report that is over says about the result *)

Finished(report) == report # NoFile /\ report.state \in {"done", "failed"}

Whole == result # NoFile /\ result.id = status.id

\* Of runs that were not killed: a status that is over stands beside its result, no
\* run of it is left to begin again, and it stands while a reader goes on to the result.
WholeInv ==
  kills = 0 =>
    /\ platform \in {"clear_result", "open", "write"} => status = NoFile
    /\ script.at = "status" => result # NoFile /\ result.id = script.id
    /\ Finished(status) =>
         /\ Whole /\ script.at \in {"idle", "remove"}
         /\ request # NoFile => script.at = "remove"
    /\ platform = "read_status" => seen.status = NoFile /\ ~seen.all
    /\ platform = "read_result" =>
         /\ ~seen.all
         /\ Finished(seen.status) => status = seen.status
    /\ AnswerComplete

\* The script writes the result first and the platform clears and reads it last.
LEMMA CompleteInductive ==
  ASSUME Allowed = {}
  PROVE  /\ Init => WholeInv
         /\ SyncInv /\ WholeInv /\ [Next]_vars => WholeInv'
<1> USE DEF SyncInv, Current, Working, WholeInv, Finished, Whole, AnswerComplete, Only, Nothing
<1>0. \A f \in Report : Leaves(f) = {f}
  BY DEF Leaves
<1>1. Init => WholeInv
  BY DEF Init
<1>2. ASSUME SyncInv, WholeInv, NEW r \in Request, StartSync(r) PROVE WholeInv'
  BY <1>2 DEF StartSync, TypeOK
<1>3. ASSUME SyncInv, WholeInv, ClearStatus PROVE WholeInv'
  BY <1>3 DEF ClearStatus, TypeOK
<1>4. ASSUME SyncInv, WholeInv, ClearResult PROVE WholeInv'
  BY <1>4 DEF ClearResult, TypeOK
<1>5. ASSUME SyncInv, WholeInv, OpenRequest PROVE WholeInv'
  BY <1>5 DEF OpenRequest, TypeOK
<1>6. ASSUME SyncInv, WholeInv, WriteRequest PROVE WholeInv'
  BY <1>6 DEF WriteRequest, TypeOK
<1>7. ASSUME SyncInv, WholeInv, ReadRequest PROVE WholeInv'
  BY <1>7 DEF ReadRequest, TypeOK
<1>8. ASSUME SyncInv, WholeInv, ReadStatus PROVE WholeInv'
  BY <1>8 DEF ReadStatus, TypeOK, Seen
<1>9. ASSUME SyncInv, WholeInv, ReadResult PROVE WholeInv'
  BY <1>9, ZenonT(40) DEF ReadResult, TypeOK, Seen
<1>10. ASSUME SyncInv, WholeInv, StartRun PROVE WholeInv'
  BY <1>10 DEF StartRun, PlatformUnchanged, TypeOK, Run
<1>11. ASSUME SyncInv, WholeInv, ParseRequest PROVE WholeInv'
  BY <1>11 DEF ParseRequest, PlatformUnchanged, TypeOK, Run
<1>12. ASSUME SyncInv, WholeInv, MarkRunning PROVE WholeInv'
  <2>1. status' = [state |-> "running", id |-> script.id]
    BY <1>0, <1>12 DEF MarkRunning, TypeOK, Report
  <2> QED
    BY <1>12, <2>1 DEF MarkRunning, PlatformUnchanged, TypeOK, Run
<1>13. ASSUME SyncInv, WholeInv, SyncEnds PROVE WholeInv'
  BY <1>13 DEF SyncEnds, PlatformUnchanged, TypeOK, Run
<1>14. ASSUME SyncInv, WholeInv, WriteResult PROVE WholeInv'
  <2>1. /\ script.at = "result" /\ script'.at = "status" /\ script'.id = script.id
        /\ result' = [state |-> script.outcome, id |-> script.id]
        /\ UNCHANGED <<request, status, platform, seen, kills>>
    BY <1>0, <1>14 DEF WriteResult, PlatformUnchanged, TypeOK, Run, Report
  <2>2. result'.id = script.id /\ result' # NoFile
    BY <1>14, <2>1 DEF WriteResult, PlatformUnchanged, TypeOK, Run, Report
  <2> QED
    BY <1>14, <2>1, <2>2
<1>15. ASSUME SyncInv, WholeInv, WriteStatus PROVE WholeInv'
  <2>1. status' = [state |-> script.outcome, id |-> script.id]
    BY <1>0, <1>15 DEF WriteStatus, TypeOK, Run, Report
  <2> QED
    BY <1>15, <2>1 DEF WriteStatus, PlatformUnchanged, TypeOK, Run
<1>16. ASSUME SyncInv, WholeInv, RemoveRequest PROVE WholeInv'
  BY <1>16 DEF RemoveRequest, PlatformUnchanged, TypeOK, Run
<1>17. ASSUME SyncInv, WholeInv, Killed PROVE WholeInv'
  BY <1>17 DEF Killed, TypeOK
<1>18. ASSUME SyncInv, WholeInv, UNCHANGED vars PROVE WholeInv'
  BY <1>18 DEF vars
<1> QED
  BY <1>1, <1>2, <1>3, <1>4, <1>5, <1>6, <1>7, <1>8, <1>9, <1>10, <1>11, <1>12, <1>13,
     <1>14, <1>15, <1>16, <1>17, <1>18 DEF Next, Platform, Script

-----------------------------------------------------------------------------
(* Theorems *)

\* The script removes only requests it has answered, as long as nobody asks for a
\* sync while the last request is there (the rm of opstk-repo-sync.sh).
THEOREM RequestsAreAnswered == ASSUME Allowed = {} PROVE Spec => OnlyAnsweredRemoved
<1>1. SyncInv /\ [Next]_vars => [request # NoFile /\ request' = NoFile => request \in answered]_vars
  BY RemovalStep
<1>2. Spec => []SyncInv
  BY InvHolds
<1> QED
  BY <1>1, <1>2, PTL DEF Spec, OnlyAnsweredRemoved

\* What is shown is never the state of an older request (start_sync), whatever a full
\* disk leaves of the reports.
THEOREM NoOldAnswerShown == ASSUME Allowed \subseteq {"full"} PROVE Spec => []NoOldAnswer
<1>1. SyncInv => NoOldAnswer
  BY DEF SyncInv, Fresh
<1> QED
  BY <1>1, InvHolds, PTL

\* A sync that is shown is the one asked for last, with its own result if it is over, however the reads of sync_status
\* fall between the writes of the script (result first, status second; read the other
\* way round).
THEOREM AnswersAreWhole == ASSUME Allowed = {} PROVE Spec => []ShownTruly
<1>1. Init => WholeInv
  BY CompleteInductive
<1>2. SyncInv /\ WholeInv /\ [Next]_vars => WholeInv'
  BY CompleteInductive
<1>3. SyncInv /\ WholeInv => ShownTruly
  BY DEF SyncInv, Fresh, WholeInv, AnswerComplete, ShownTruly
<1>4. Spec => []SyncInv
  BY InvHolds
<1> QED
  BY <1>1, <1>2, <1>3, <1>4, PTL DEF Spec

-----------------------------------------------------------------------------
(* Inspection *)

Unstarted == {"none", "hello", "start"}

Active == {"hello", "start", "gather", "log", "judge", "store", "raised"}

Past == {"drain", "ended"}

Event == {"begin", "end"} \X Asset

\* Every variable has a value for each task.
Typed ==
  /\ device \in [Asset -> Devices]
  /\ row \in [Task -> {"none", "running", "done", "failed"}]
  /\ stored \in [Task -> SUBSET Results]
  /\ job \in [Task -> JobSteps]
  /\ branch \in [Task -> [Asset -> BranchSteps]]
  /\ ended \in [Task -> Seq(Asset)] /\ taken \in [Task -> Nat]
  /\ client \in [Task -> {"none", "watching", "gone"}]
  /\ queue \in [Task -> Seq(Event \cup {Sentinel})]
  /\ told \in [Task -> Seq(Message)]
  /\ alerted \in [Task -> SUBSET Asset]
  /\ faults \in 0..MaxFaults /\ unmarked \subseteq Task

Over == {a \in Asset : device[a] = "over"}

\* What the job has behind it at each of its steps.
Stage(t) ==
  /\ job[t] \in Active => row[t] = "running"
  /\ job[t] = "none" <=> row[t] = "none"
  /\ job[t] \in Unstarted =>
       ended[t] = <<>> /\ taken[t] = 0 /\ \A a \in Asset : branch[t][a] = "none"
  /\ job[t] \in {"log", "judge", "store"} =>
       taken[t] > 0 /\ \A a \in Asset : branch[t][a] = "returned"
  /\ job[t] = "store" => alerted[t] = Over

\* The branches that ended, each once, and those of them that were taken and did not
\* raise.
Endings(t) ==
  /\ \A a \in Asset : branch[t][a] \in {"returned", "raised"} <=> \E i \in DOMAIN ended[t] : ended[t][i] = a
  /\ \A i, j \in DOMAIN ended[t] : ended[t][i] = ended[t][j] => i = j
  /\ taken[t] <= Len(ended[t])
  /\ job[t] = "gather" => \A i \in DOMAIN ended[t] : i <= taken[t] => branch[t][ended[t][i]] = "returned"
  /\ \A a \in Asset : branch[t][a] \in {"working", "returned"} => device[a] # "undecryptable"

Busy(t) == {a \in Asset : branch[t][a] \in {"loading", "working"}}

Crowd(t) == Cardinality(Busy(t)) <= Concurrency

\* The rows of a task come with its verdict.
Rows(t) ==
  /\ row[t] = "done" => /\ stored[t] = {<<a, Outcome(a)>> : a \in Asset} /\ stored[t] # {}
                        /\ alerted[t] = Over /\ \A a \in Asset : device[a] # "undecryptable"
  /\ row[t] # "done" => stored[t] = {}

\* A watcher has been sent m, or will be before its stream ends.
WillHear(t, m) ==
  \/ \E i \in DOMAIN told[t] : told[t][i] = m
  \/ \E i \in DOMAIN queue[t] : /\ queue[t][i] = m
                                /\ \A j \in DOMAIN queue[t] : j <= i => queue[t][j] # Sentinel

\* A watcher will hear of every branch that returned, as long as the job goes on, and
\* of all of them if the job took them all.
Hears(t) ==
  /\ job[t] \notin Past => \A i \in DOMAIN queue[t] : queue[t][i] # Sentinel
  /\ client[t] = "watching" =>
       \A a \in Asset : /\ branch[t][a] = "returned" /\ device[a] # "missing"
                        /\ job[t] \in Past => taken[t] = Cardinality(Asset)
                        => WillHear(t, <<"end", a>>)

\* What is told of the results comes last, after what it is about.
Told(t) ==
  \A i \in DOMAIN told[t] : told[t][i][1] = "complete" =>
    /\ job[t] = "ended" /\ i = Len(told[t])
    /\ \A a \in told[t][i][2] :
         device[a] # "missing" => \E j \in 1..i - 1 : told[t][j] = <<"end", a>>

Local(t) == Stage(t) /\ Endings(t) /\ Crowd(t) /\ Rows(t) /\ Hears(t) /\ Told(t)

Inv == Typed /\ \A t \in Task : Local(t)

\* A message of a branch is no sentinel and no result.
LEMMA Messages ==
  /\ Event \subseteq Message
  /\ \A m \in Event : m # Sentinel /\ m[1] # "complete"
  /\ \A a \in Asset : <<"begin", a>> \in Event /\ <<"end", a>> \in Event
  /\ \A S \in SUBSET Asset : <<"complete", S>> \in Message /\ <<"complete", S>>[1] = "complete"
                             /\ <<"complete", S>>[2] = S
<1>1. Event \subseteq Message
  BY DEF Event, Message
<1>2. ASSUME NEW m \in Event PROVE m # Sentinel /\ m[1] # "complete"
  <2>1. m[1] \in {"begin", "end"}
    BY <1>2 DEF Event
  <2>2. Sentinel[1] = "none"
    BY DEF Sentinel
  <2> QED
    BY <2>1, <2>2
<1>3. \A a \in Asset : <<"begin", a>> \in Event /\ <<"end", a>> \in Event
  BY DEF Event
<1>4. \A S \in SUBSET Asset : <<"complete", S>> \in Message /\ <<"complete", S>>[1] = "complete"
                             /\ <<"complete", S>>[2] = S
  BY DEF Message
<1> QED
  BY <1>1, <1>2, <1>3, <1>4

LEMMA InvInit == TaskInit => Inv
<1> SUFFICES ASSUME TaskInit PROVE Inv
  OBVIOUS
<1> USE DEF TaskInit, AllTasks
<1>1. Typed
  <2>1. /\ row \in [Task -> {"none", "running", "done", "failed"}]
        /\ stored \in [Task -> SUBSET Results] /\ alerted \in [Task -> SUBSET Asset]
        /\ job \in [Task -> JobSteps] /\ client \in [Task -> {"none", "watching", "gone"}]
        /\ faults \in 0..MaxFaults /\ unmarked \subseteq Task /\ device \in [Asset -> Devices]
    BY DEF JobSteps
  <2>2. branch \in [Task -> [Asset -> BranchSteps]]
    BY DEF BranchSteps
  <2>3. /\ ended \in [Task -> Seq(Asset)] /\ taken \in [Task -> Nat]
        /\ queue \in [Task -> Seq(Event \cup {Sentinel})] /\ told \in [Task -> Seq(Message)]
    OBVIOUS
  <2> QED
    BY <2>1, <2>2, <2>3 DEF Typed
<1>2. ASSUME NEW t \in Task PROVE Local(t)
  <2>1. /\ row[t] = "none" /\ job[t] = "none" /\ stored[t] = {} /\ client[t] = "none"
        /\ ended[t] = <<>> /\ taken[t] = 0 /\ \A a \in Asset : branch[t][a] = "none"
        /\ DOMAIN ended[t] = {} /\ DOMAIN queue[t] = {} /\ DOMAIN told[t] = {} /\ Len(ended[t]) = 0
    BY <1>2
  <2>2. Busy(t) = {}
    BY <2>1 DEF Busy
  <2> QED
    BY <2>1, <2>2, FS_EmptySet DEF Local, Stage, Endings, Crowd, Rows, Hears, Told, Active, Unstarted, Past
<1> QED
  BY <1>1, <1>2 DEF Inv

\* What a step does to one task leaves the others as they are.
LEMMA OtherTasks ==
  ASSUME NEW q \in Task, Local(q), device' = device,
         row'[q] = row[q], stored'[q] = stored[q], job'[q] = job[q], branch'[q] = branch[q],
         ended'[q] = ended[q], taken'[q] = taken[q], client'[q] = client[q],
         queue'[q] = queue[q], told'[q] = told[q], alerted'[q] = alerted[q]
  PROVE  Local(q)'
<1>1. Stage(q)'
  BY DEF Local, Stage, Over
<1>2. Endings(q)'
  BY DEF Local, Endings
<1>3. Crowd(q)'
  BY DEF Local, Crowd, Busy
<1>4. Rows(q)'
  BY DEF Local, Rows, Outcome, Over
<1>5. Hears(q)'
  <2>1. \A m : WillHear(q, m)' <=> WillHear(q, m)
    BY DEF WillHear
  <2> QED
    BY <2>1 DEF Local, Hears
<1>6. Told(q)'
  BY DEF Local, Told
<1> QED
  BY <1>1, <1>2, <1>3, <1>4, <1>5, <1>6 DEF Local

\* Of sequences: one that grows by an element, one that grows by another, one that
\* loses its first element.
LEMMA Grows ==
  ASSUME NEW S, NEW s \in Seq(S), NEW x \in S, NEW r, r = Append(s, x)
  PROVE  /\ r \in Seq(S) /\ Len(r) = Len(s) + 1 /\ Len(s) \in Nat
         /\ DOMAIN s = 1..Len(s) /\ DOMAIN r = 1..Len(s) + 1
         /\ \A i \in DOMAIN s : i # Len(s) + 1 /\ i < Len(s) + 1 /\ r[i] = s[i]
         /\ r[Len(s) + 1] = x
OBVIOUS

LEMMA Follows ==
  ASSUME NEW S, NEW s \in Seq(S), NEW u \in Seq(S), NEW r, r = s \o u
  PROVE  /\ r \in Seq(S)
         /\ \A i \in DOMAIN s : i \in DOMAIN r /\ r[i] = s[i]
         /\ \A i \in DOMAIN u : Len(s) + i \in DOMAIN r /\ r[Len(s) + i] = u[i]
         /\ \A k \in DOMAIN r : \/ k \in DOMAIN s /\ r[k] = s[k]
                                \/ \E i \in DOMAIN u : k = Len(s) + i /\ r[k] = u[i]
         /\ \A i \in DOMAIN s, j \in DOMAIN u : i < Len(s) + j
<1>1. /\ Len(s) \in Nat /\ Len(u) \in Nat /\ DOMAIN s = 1..Len(s) /\ DOMAIN u = 1..Len(u)
      /\ DOMAIN r = 1..Len(s) + Len(u) /\ r \in Seq(S)
  OBVIOUS
<1>2. \A k \in 1..Len(s) + Len(u) : r[k] = IF k <= Len(s) THEN s[k] ELSE u[k - Len(s)]
  OBVIOUS
<1>3. \A k \in 1..Len(s) + Len(u) : k > Len(s) => k - Len(s) \in 1..Len(u) /\ k = Len(s) + (k - Len(s))
  BY <1>1
<1>4. \A i \in 1..Len(u) : Len(s) + i \in 1..Len(s) + Len(u) /\ ~(Len(s) + i <= Len(s)) /\ Len(s) + i - Len(s) = i
  BY <1>1
<1>5. \A k \in DOMAIN r : \/ k \in DOMAIN s /\ r[k] = s[k]
                          \/ \E i \in DOMAIN u : k = Len(s) + i /\ r[k] = u[i]
  <2>1. ASSUME NEW k \in 1..Len(s) + Len(u), k > Len(s) PROVE k - Len(s) \in DOMAIN u /\ r[k] = u[k - Len(s)]
    BY <1>1, <1>2, <1>3, <2>1
  <2>2. ASSUME NEW k \in 1..Len(s) + Len(u), ~(k > Len(s)) PROVE k \in DOMAIN s /\ r[k] = s[k]
    BY <1>1, <1>2, <2>2
  <2> QED
    BY <1>1, <1>3, <2>1, <2>2
<1>6. /\ \A i \in DOMAIN s : i \in DOMAIN r /\ r[i] = s[i]
      /\ \A i \in DOMAIN s, j \in DOMAIN u : i < Len(s) + j
  BY <1>1, <1>2
<1>7. \A i \in DOMAIN u : Len(s) + i \in DOMAIN r /\ r[Len(s) + i] = u[i]
  BY <1>1, <1>2, <1>4
<1> QED
  BY <1>1, <1>5, <1>6, <1>7

LEMMA Shrinks ==
  ASSUME NEW S, NEW s \in Seq(S), s # <<>>
  PROVE  /\ Tail(s) \in Seq(S) /\ Head(s) \in S /\ 1 \in DOMAIN s /\ s[1] = Head(s)
         /\ \A i \in DOMAIN s : i \in Nat /\ (i # 1 => i - 1 \in DOMAIN Tail(s) /\ Tail(s)[i - 1] = s[i])
         /\ \A i \in DOMAIN Tail(s) : i \in Nat /\ i + 1 \in DOMAIN s /\ 1 < i + 1 /\ Tail(s)[i] = s[i + 1]
<1>1. DOMAIN s = 1..Len(s) /\ Len(s) \in Nat /\ Len(s) > 0
  OBVIOUS
<1>2. DOMAIN Tail(s) = 1..Len(s) - 1
  OBVIOUS
<1> QED
  BY <1>1, <1>2

\* What is put at the end of the queue changes nothing of what will be heard; and
\* without a sentinel in the queue it will be heard too.
LEMMA Queued ==
  ASSUME NEW t \in Task, queue[t] \in Seq(Event \cup {Sentinel}),
         NEW es \in Seq(Event \cup {Sentinel}),
         queue'[t] = queue[t] \o es, told'[t] = told[t]
  PROVE  /\ \A m : WillHear(t, m) => WillHear(t, m)'
         /\ (\A i \in DOMAIN queue[t] : queue[t][i] # Sentinel) /\ (\A j \in DOMAIN es : es[j] # Sentinel)
            => /\ \A i \in DOMAIN queue'[t] : queue'[t][i] # Sentinel
               /\ \A j \in DOMAIN es : WillHear(t, es[j])'
<1>1. /\ \A i \in DOMAIN queue[t] : i \in DOMAIN queue'[t] /\ queue'[t][i] = queue[t][i]
      /\ \A i \in DOMAIN es : Len(queue[t]) + i \in DOMAIN queue'[t] /\ queue'[t][Len(queue[t]) + i] = es[i]
      /\ \A k \in DOMAIN queue'[t] :
           \/ k \in DOMAIN queue[t] /\ queue'[t][k] = queue[t][k]
           \/ \E i \in DOMAIN es : k = Len(queue[t]) + i /\ queue'[t][k] = es[i]
      /\ \A i \in DOMAIN queue[t], j \in DOMAIN es : i < Len(queue[t]) + j
  <2>1. /\ \A i \in DOMAIN queue[t] : i \in DOMAIN queue'[t] /\ queue'[t][i] = queue[t][i]
        /\ \A i \in DOMAIN es : Len(queue[t]) + i \in DOMAIN queue'[t] /\ queue'[t][Len(queue[t]) + i] = es[i]
    BY Follows, SMTT(30)
  <2>2. \A k \in DOMAIN queue'[t] :
           \/ k \in DOMAIN queue[t] /\ queue'[t][k] = queue[t][k]
           \/ \E i \in DOMAIN es : k = Len(queue[t]) + i /\ queue'[t][k] = es[i]
    BY Follows
  <2>3. \A i \in DOMAIN queue[t], j \in DOMAIN es : i < Len(queue[t]) + j
    BY Follows
  <2> QED
    BY <2>1, <2>2, <2>3
<1>2. DOMAIN queue[t] \subseteq Nat /\ DOMAIN es \subseteq Nat /\ Len(queue[t]) \in Nat
  OBVIOUS
<1>3. ASSUME NEW m, WillHear(t, m) PROVE WillHear(t, m)'
  <2>1. CASE \E i \in DOMAIN told[t] : told[t][i] = m
    BY <2>1 DEF WillHear
  <2>2. ASSUME NEW i \in DOMAIN queue[t], queue[t][i] = m,
               \A j \in DOMAIN queue[t] : j <= i => queue[t][j] # Sentinel
        PROVE  WillHear(t, m)'
    <3>1. i \in DOMAIN queue'[t] /\ queue'[t][i] = m
      BY <1>1, <2>2
    <3>2. ASSUME NEW k \in DOMAIN queue'[t], k <= i PROVE queue'[t][k] # Sentinel
      BY <1>1, <1>2, <2>2, <3>2
    <3> QED
      BY <3>1, <3>2 DEF WillHear
  <2> QED
    BY <1>3, <2>1, <2>2 DEF WillHear
<1>4. ASSUME \A i \in DOMAIN queue[t] : queue[t][i] # Sentinel, \A j \in DOMAIN es : es[j] # Sentinel
      PROVE  \A i \in DOMAIN queue'[t] : queue'[t][i] # Sentinel
  BY <1>1, <1>4
<1>5. ASSUME \A i \in DOMAIN queue'[t] : queue'[t][i] # Sentinel, NEW j \in DOMAIN es
      PROVE  WillHear(t, es[j])'
  BY <1>1, <1>5, ZenonT(40) DEF WillHear
<1> QED
  BY <1>3, <1>4, <1>5

\* Nothing more is told, or only by a step that leaves what was told last the last.
LEMMA ToldStill ==
  ASSUME NEW t \in Task, Told(t), device' = device, told'[t] = told[t],
         job[t] = "ended" => job'[t] = "ended"
  PROVE  Told(t)'
BY DEF Told

\* What a step does to one task is all it does.
LEMMA OneTask ==
  ASSUME Inv, NEW t \in Task, Typed', Local(t)', device' = device,
         \A q \in Task : q # t =>
           /\ row'[q] = row[q] /\ stored'[q] = stored[q] /\ job'[q] = job[q] /\ branch'[q] = branch[q]
           /\ ended'[q] = ended[q] /\ taken'[q] = taken[q] /\ client'[q] = client[q]
           /\ queue'[q] = queue[q] /\ told'[q] = told[q] /\ alerted'[q] = alerted[q]
  PROVE  Inv'
<1>1. ASSUME NEW q \in Task PROVE Local(q)'
  <2>1. CASE q # t
    BY <2>1, OtherTasks DEF Inv
  <2> QED
    BY <2>1
<1> QED
  BY <1>1 DEF Inv

\* A watcher will hear what it would have, and no other branch has returned.
LEMMA HearsStill ==
  ASSUME NEW t \in Task, Hears(t), device' = device,
         \A a \in Asset : WillHear(t, <<"end", a>>) => WillHear(t, <<"end", a>>)',
         job'[t] \notin Past => \A i \in DOMAIN queue'[t] : queue'[t][i] # Sentinel,
         client'[t] = "watching" => client[t] = "watching",
         \A a \in Asset : branch'[t][a] = "returned" => branch[t][a] = "returned",
         job[t] \in Past => job'[t] \in Past /\ taken'[t] = taken[t]
  PROVE  Hears(t)'
BY DEF Hears

\* The steps of the clients keep it.
LEMMA ClientSteps ==
  ASSUME Inv, NEW t \in Task, Create(t) \/ Connect(t) \/ Leave(t)
  PROVE  Inv'
<1> USE DEF Inv
<1>1. Typed /\ Local(t) /\ t \in DOMAIN row /\ t \in DOMAIN job /\ t \in DOMAIN client
  BY DEF Typed
<1>2. Typed' /\ UNCHANGED <<device, stored, branch, ended, taken, alerted, queue, told>>
  <2>1. CASE Create(t)
    BY <1>1, <2>1 DEF Typed, Create, live, harm, JobSteps
  <2>2. CASE Connect(t)
    BY <1>1, <2>2 DEF Typed, Connect, harm, JobSteps
  <2>3. CASE Leave(t)
    BY <1>1, <2>3 DEF Typed, Leave, harm, table, run
  <2> QED
    BY <2>1, <2>2, <2>3
<1>3. \A q \in Task : q # t => row'[q] = row[q] /\ job'[q] = job[q] /\ client'[q] = client[q]
  BY <1>1 DEF Typed, Create, Connect, Leave, table, run, live
<1>4. Local(t)'
  <2>1. \A m : WillHear(t, m)' <=> WillHear(t, m)
    BY <1>2 DEF WillHear
  <2>2. CASE Create(t) \/ Connect(t)
    <3>1. row[t] = "none" /\ row'[t] = "running" /\ job'[t] \in {"start", "hello"}
      BY <1>1, <2>2 DEF Create, Connect, Typed
    <3>2. job[t] = "none"
      BY <3>1, <1>1 DEF Local, Stage
    <3>3. Stage(t)' /\ Endings(t)'
      BY <1>1, <1>2, <3>1, <3>2 DEF Local, Stage, Endings, Unstarted, Active
    <3>4. Crowd(t)' /\ Rows(t)'
      BY <1>1, <1>2, <3>1 DEF Local, Crowd, Busy, Rows
    <3>5. Hears(t)'
      BY <1>1, <1>2, <3>1, <3>2, <3>3 DEF Local, Hears, Stage, Unstarted, Past
    <3>6. Told(t)'
      BY <1>1, <1>2, <3>1, <3>2 DEF Local, Told
    <3> QED
      BY <3>3, <3>4, <3>5, <3>6 DEF Local
  <2>3. CASE Leave(t)
    <3>1. UNCHANGED <<row, job>> /\ client'[t] = "gone"
      BY <1>1, <2>3 DEF Leave, table, run
    <3>2. Stage(t)'
      BY <1>1, <1>2, <3>1 DEF Local, Stage, Over
    <3>5. Endings(t)'
      BY <1>1, <1>2, <3>1 DEF Local, Endings
    <3>6. Told(t)'
      BY <1>1, <1>2, <3>1, ZenonT(40) DEF Local, Told
    <3>4. Crowd(t)' /\ Rows(t)'
      BY <1>1, <1>2, <3>1 DEF Local, Crowd, Busy, Rows, Outcome, Over
    <3>3. Hears(t)'
      BY <1>1, <1>2, <2>1, <3>1 DEF Local, Hears
    <3> QED
      BY <3>2, <3>3, <3>4, <3>5, <3>6 DEF Local
  <2> QED
    BY <2>2, <2>3
<1> QED
  BY <1>2, <1>3, <1>4, OneTask

\* If the job took as many branches as there are devices, every branch has ended.
LEMMA AllEnded ==
  ASSUME Inv, NEW t \in Task, taken[t] = Cardinality(Asset), NEW a \in Asset
  PROVE  branch[t][a] \in {"returned", "raised"}
<1>1. /\ ended[t] \in Seq(Asset) /\ Endings(t)
  BY DEF Inv, Typed, Local
<1>2. Len(ended[t]) \in Nat /\ DOMAIN ended[t] = 1..Len(ended[t]) /\ ended[t] \in [1..Len(ended[t]) -> Asset]
  BY <1>1
<1>3. ended[t] \in Injection(1..Len(ended[t]), Asset)
  BY <1>1, <1>2 DEF Endings, Injection, IsInjective
<1>4. Cardinality(1..Len(ended[t])) <= Cardinality(Asset)
      /\ (Cardinality(1..Len(ended[t])) = Cardinality(Asset) <=> ended[t] \in Surjection(1..Len(ended[t]), Asset))
  BY <1>3, FS_Injection
<1>5. Cardinality(1..Len(ended[t])) = Len(ended[t]) /\ Cardinality(Asset) \in Nat
  <2>1. Cardinality(1..Len(ended[t])) = IF 1 > Len(ended[t]) THEN 0 ELSE Len(ended[t]) - 1 + 1
    BY <1>2, FS_Interval, SMTT(30)
  <2> QED
    BY <1>2, <2>1, FS_CardinalityType
<1>6. ended[t] \in Surjection(1..Len(ended[t]), Asset)
  BY <1>1, <1>4, <1>5 DEF Endings
<1>7. \E i \in 1..Len(ended[t]) : ended[t][i] = a
  BY <1>6 DEF Surjection
<1> QED
  BY <1>1, <1>2, <1>7 DEF Endings

\* The job says it is over: a watched one with a sentinel behind all that was sent.
LEMMA Returning ==
  ASSUME Inv, NEW t \in Task, Return(t), UNCHANGED told
  PROVE  /\ job' \in [Task -> JobSteps] /\ queue' \in [Task -> Seq(Event \cup {Sentinel})]
         /\ job'[t] \in Past /\ \A q \in Task : q # t => job'[q] = job[q] /\ queue'[q] = queue[q]
         /\ \A m : WillHear(t, m) => WillHear(t, m)'
<1>1. Typed
  BY DEF Inv
<1>2. CASE client[t] = "none"
  <2>1. job' = [job EXCEPT ![t] = "ended"] /\ queue' = queue
    BY <1>2 DEF Return
  <2> QED
    BY <1>1, <2>1 DEF Typed, JobSteps, Past, WillHear
<1>3. CASE client[t] # "none"
  <2>1. job' = [job EXCEPT ![t] = "drain"] /\ queue' = [queue EXCEPT ![t] = Append(queue[t], Sentinel)]
    BY <1>3 DEF Return
  <2>2. queue[t] \in Seq(Event \cup {Sentinel}) /\ <<Sentinel>> \in Seq(Event \cup {Sentinel})
    BY <1>1 DEF Typed
  <2>3. Append(queue[t], Sentinel) = queue[t] \o <<Sentinel>>
        /\ Append(queue[t], Sentinel) \in Seq(Event \cup {Sentinel})
    BY <2>2
  <2>4. \A m : WillHear(t, m) => WillHear(t, m)'
    BY <1>1, <2>1, <2>2, <2>3, Queued DEF Typed
  <2> QED
    BY <1>1, <2>1, <2>3, <2>4 DEF Typed, JobSteps, Past
<1> QED
  BY <1>2, <1>3

\* The steps of a job keep it that only move the job on.
LEMMA PlainJobSteps ==
  ASSUME Inv, NEW t \in Task, Start(t) \/ Gather(t) \/ Log(t) \/ Judge(t) \/ Fault(t)
  PROVE  Inv'
<1> USE DEF Inv
<1>1. Typed /\ Local(t) /\ Stage(t) /\ Endings(t)
  BY DEF Local
<1>2. UNCHANGED <<device, stored, ended, client, queue, told, unmarked>>
  BY DEF Start, Gather, Log, Judge, Fault, live, harm, table
<1>3. /\ Typed' /\ job[t] \in {"start", "gather", "log", "judge", "store"}
      /\ job'[t] \in {"gather", "raised", "log", "judge", "store"}
      /\ \A q \in Task : q # t => /\ row'[q] = row[q] /\ job'[q] = job[q] /\ branch'[q] = branch[q]
                                  /\ taken'[q] = taken[q] /\ alerted'[q] = alerted[q]
  <2>1. CASE Start(t)
    <3>1. branch' \in [Task -> [Asset -> BranchSteps]]
      BY <1>1, <2>1 DEF Start, Typed, BranchSteps
    <3> QED
      BY <1>1, <1>2, <2>1, <3>1 DEF Typed, Start, Go, live, harm, JobSteps
  <2>2. CASE Gather(t)
    BY <1>1, <1>2, <2>2 DEF Typed, Gather, live, harm, table, JobSteps
  <2>3. CASE Log(t)
    BY <1>1, <1>2, <2>3 DEF Typed, Log, Go, live, harm, table, JobSteps
  <2>4. CASE Judge(t)
    BY <1>1, <1>2, <2>4 DEF Typed, Judge, Go, live, harm, table, JobSteps
  <2>5. CASE Fault(t)
    BY <1>1, <1>2, <2>5 DEF Typed, Fault, Go, live, harm, table, JobSteps
  <2> QED
    BY <2>1, <2>2, <2>3, <2>4, <2>5
<1>4. row[t] = "running" /\ row'[t] = "running" /\ job[t] \notin Past /\ job'[t] \notin Past
  <2>1. row[t] = "running"
    BY <1>1, <1>3 DEF Stage, Active
  <2>2. row'[t] = "running"
    BY <1>1, <2>1 DEF Start, Gather, Log, Judge, Fault, table, Typed
  <2> QED
    BY <1>3, <2>1, <2>2 DEF Past
<1>5. \A a \in Asset : branch'[t][a] = "returned" => branch[t][a] = "returned"
  BY <1>1 DEF Start, Gather, Log, Judge, Fault, Typed
<1>6. \A a \in Asset : branch'[t][a] \in {"returned", "raised"} <=> branch[t][a] \in {"returned", "raised"}
  <2>1. job[t] = "start" => \A a \in Asset : branch[t][a] = "none"
    BY <1>1 DEF Stage, Unstarted
  <2>2. Start(t) => \A a \in Asset : branch[t][a] = "none" /\ branch'[t][a] = "waiting"
    BY <1>1, <2>1 DEF Start, Go, Typed
  <2> QED
    BY <2>2 DEF Gather, Log, Judge, Fault
<1>7. Stage(t)' /\ Endings(t)'
  <2>1. Len(ended[t]) \in Nat /\ DOMAIN ended[t] = 1..Len(ended[t]) /\ taken[t] \in Nat /\ ended[t] \in Seq(Asset)
    BY <1>1 DEF Typed
  <2>2. CASE Start(t)
    <3>1. job'[t] = "gather" /\ taken'[t] = 0 /\ ended'[t] = <<>> /\ \A a \in Asset : branch'[t][a] = "waiting"
      BY <1>1, <2>2 DEF Start, Go, Typed, Stage, Unstarted
    <3> QED
      BY <1>4, <3>1 DEF Stage, Endings, Unstarted
  <2>3. CASE Gather(t)
    <3> DEFINE b == ended[t][taken[t] + 1]
    <3>1. /\ job[t] = "gather" /\ taken[t] < Len(ended[t]) /\ taken'[t] = taken[t] + 1 /\ branch' = branch
          /\ alerted' = alerted
          /\ job'[t] = IF branch[t][b] = "raised" THEN "raised"
                       ELSE IF taken[t] + 1 = Cardinality(Asset) THEN "log" ELSE "gather"
      BY <1>1, <2>3 DEF Gather, Typed
    <3>2. taken[t] + 1 \in DOMAIN ended[t] /\ b \in Asset /\ branch[t][b] \in {"returned", "raised"}
      BY <1>1, <2>1, <3>1 DEF Endings
    <3>3. job'[t] # "raised" => \A i \in DOMAIN ended[t] : i <= taken[t] + 1 => branch[t][ended[t][i]] = "returned"
      BY <1>1, <2>1, <3>1, <3>2 DEF Endings
    <3>4. taken[t] + 1 = Cardinality(Asset) => Len(ended[t]) = taken[t] + 1
                                               /\ \A a \in Asset : \E i \in DOMAIN ended[t] : ended[t][i] = a
      <4>1. ended[t] \in Injection(1..Len(ended[t]), Asset)
        BY <1>1, <2>1 DEF Endings, Injection, IsInjective
      <4>2. Cardinality(1..Len(ended[t])) <= Cardinality(Asset)
            /\ (Cardinality(1..Len(ended[t])) = Cardinality(Asset) <=> ended[t] \in Surjection(1..Len(ended[t]), Asset))
        BY <4>1, FS_Injection
      <4>3. Cardinality(1..Len(ended[t])) = IF 1 > Len(ended[t]) THEN 0 ELSE Len(ended[t]) - 1 + 1
        BY <2>1, FS_Interval, SMTT(30)
      <4>4. Cardinality(1..Len(ended[t])) = Len(ended[t]) /\ Cardinality(Asset) \in Nat
        BY <2>1, <4>3, FS_CardinalityType
      <4>5. taken[t] + 1 = Cardinality(Asset) => Len(ended[t]) = taken[t] + 1
        BY <2>1, <3>1, <4>2, <4>4
      <4>6. ended[t] \in Surjection(1..Len(ended[t]), Asset) =>
              \A a \in Asset : \E i \in DOMAIN ended[t] : ended[t][i] = a
        BY <2>1 DEF Surjection
      <4> QED
        BY <4>2, <4>4, <4>5, <4>6
    <3>5. job'[t] = "log" => \A a \in Asset : branch[t][a] = "returned"
      BY <2>1, <3>1, <3>3, <3>4, SMTT(30)
    <3>6. Stage(t)'
      BY <1>2, <1>4, <2>1, <3>1, <3>5 DEF Stage, Unstarted
    <3>7. Endings(t)'
      BY <1>1, <1>2, <2>1, <3>1, <3>3 DEF Endings
    <3> QED
      BY <3>6, <3>7
  <2>4. CASE Log(t) \/ Judge(t) \/ Fault(t)
    <3>1. /\ UNCHANGED <<branch, taken>> /\ job'[t] \in {"judge", "store", "raised"}
          /\ job'[t] \in {"judge", "store"} => job[t] \in {"log", "judge"}
          /\ job'[t] = "store" => alerted'[t] = Over
      BY <1>1, <2>4 DEF Log, Judge, Fault, Go, Typed, Over
    <3>2. job'[t] # "none" /\ job'[t] \notin Unstarted /\ job'[t] # "gather" /\ ended' = ended
      BY <1>2, <3>1 DEF Unstarted
    <3>3. Stage(t)'
      BY <1>1, <1>2, <1>3, <1>4, <3>1, <3>2, SMTT(30) DEF Stage, Over
    <3>4. Endings(t)'
      BY <1>1, <1>2, <3>1, <3>2, SMTT(30) DEF Endings
    <3> QED
      BY <3>3, <3>4
  <2> QED
    BY <2>2, <2>3, <2>4
<1>8. Crowd(t)'
  <2>1. Start(t) => Busy(t)' = {}
    BY <1>1 DEF Start, Busy, Typed
  <2>2. ~Start(t) => branch' = branch
    BY DEF Gather, Log, Judge, Fault
  <2> QED
    BY <1>1, <2>1, <2>2, FS_EmptySet DEF Local, Crowd, Busy
<1>9. Rows(t)' /\ Told(t)'
  BY <1>1, <1>2, <1>4 DEF Local, Rows, Told, Past
<1>10. Hears(t)'
  <2>1. \A m : WillHear(t, m)' <=> WillHear(t, m)
    BY <1>2 DEF WillHear
  <2> QED
    BY <1>1, <1>2, <1>4, <1>5, <2>1 DEF Local, Hears
<1> QED
  BY <1>2, <1>3, <1>7, <1>8, <1>9, <1>10, OneTask DEF Local

\* The steps that end a job, well or not, or end its greeting, keep it.
LEMMA ReturnSteps ==
  ASSUME Inv, NEW t \in Task, Hello(t) \/ Store(t) \/ MarkFailed(t) \/ MarkFailedFails(t)
  PROVE  Inv'
<1> USE DEF Inv
<1>1. Typed /\ Local(t) /\ Stage(t)
  BY DEF Local
<1>2. UNCHANGED <<device, branch, ended, taken, alerted, client, told>>
  BY DEF Hello, Store, MarkFailed, MarkFailedFails, table, harm
<1>3. /\ job' \in [Task -> JobSteps] /\ queue' \in [Task -> Seq(Event \cup {Sentinel})]
      /\ \A q \in Task : q # t => job'[q] = job[q] /\ queue'[q] = queue[q]
      /\ \A m : WillHear(t, m) => WillHear(t, m)'
      /\ job'[t] \in Past \/ (job'[t] = "start" /\ queue' = queue)
  <2>1. CASE Return(t)
    BY <1>2, <2>1, Returning
  <2>2. CASE Hello(t) /\ client[t] = "watching"
    <3>1. job' = [job EXCEPT ![t] = "start"] /\ queue' = queue
      BY <2>2 DEF Hello
    <3> QED
      BY <1>1, <1>2, <3>1 DEF Typed, JobSteps, WillHear
  <2>3. CASE Hello(t) /\ client[t] # "watching"
    <3>1. job' = [job EXCEPT ![t] = "drain"] /\ queue' = [queue EXCEPT ![t] = Append(queue[t], Sentinel)]
      BY <2>3 DEF Hello
    <3>2. queue[t] \in Seq(Event \cup {Sentinel}) /\ <<Sentinel>> \in Seq(Event \cup {Sentinel})
      BY <1>1 DEF Typed
    <3>3. Append(queue[t], Sentinel) = queue[t] \o <<Sentinel>>
          /\ Append(queue[t], Sentinel) \in Seq(Event \cup {Sentinel})
      BY <3>2
    <3>4. \A m : WillHear(t, m) => WillHear(t, m)'
      BY <1>1, <1>2, <3>1, <3>2, <3>3, Queued DEF Typed
    <3> QED
      BY <1>1, <3>1, <3>3, <3>4 DEF Typed, JobSteps, Past
  <2> QED
    BY <2>1, <2>2, <2>3 DEF Store, MarkFailed, MarkFailedFails
<1>4. /\ row' \in [Task -> {"none", "running", "done", "failed"}] /\ row'[t] # "none"
      /\ stored' \in [Task -> SUBSET Results] /\ faults' \in 0..MaxFaults /\ unmarked' \subseteq Task
      /\ \A q \in Task : q # t => row'[q] = row[q] /\ stored'[q] = stored[q]
      /\ job[t] \in {"hello", "store", "raised"} /\ row[t] = "running"
      /\ job'[t] = "start" => Hello(t) /\ row'[t] = "running"
  <2>1. job[t] \in {"hello", "store", "raised"} /\ row[t] = "running"
    BY <1>1 DEF Hello, Store, MarkFailed, MarkFailedFails, Stage, Active
  <2>2. CASE Hello(t)
    BY <1>1, <2>1, <2>2 DEF Hello, Typed, table, harm
  <2>3. CASE Store(t)
    <3>1. {<<a, Outcome(a)>> : a \in Asset} \in SUBSET Results
      BY DEF Results, Outcome
    <3>2. row' = [row EXCEPT ![t] = "done"] /\ UNCHANGED <<faults, unmarked>> /\ Return(t)
          /\ stored' = [stored EXCEPT ![t] = {<<a, Outcome(a)>> : a \in Asset}]
      BY <2>3 DEF Store, harm
    <3>3. job'[t] \in Past
      BY <1>2, <3>2, Returning
    <3> QED
      BY <1>1, <2>1, <3>1, <3>2, <3>3 DEF Typed, Past
  <2>4. CASE MarkFailed(t) \/ MarkFailedFails(t)
    <3>1. Return(t) /\ stored' = stored /\ row' \in {row, [row EXCEPT ![t] = "failed"]}
          /\ unmarked' \in {unmarked, unmarked \cup {t}} /\ faults' \in 0..MaxFaults
      BY <1>1, <2>4 DEF MarkFailed, MarkFailedFails, harm, table, Typed
    <3>2. job'[t] \in Past
      BY <1>2, <3>1, Returning
    <3> QED
      BY <1>1, <2>1, <3>1, <3>2 DEF Typed, Past
  <2> QED
    BY <2>2, <2>3, <2>4
<1>5. Typed'
  BY <1>1, <1>2, <1>3, <1>4 DEF Typed
<1>6. Stage(t)'
  <2>1. Hello(t) => job[t] = "hello"
    BY DEF Hello
  <2> QED
    BY <1>1, <1>2, <1>3, <1>4, <2>1 DEF Stage, Past, Active, Unstarted
<1>7. Endings(t)'
  BY <1>1, <1>2, <1>3 DEF Local, Endings, Past
<1>8. Crowd(t)'
  BY <1>1, <1>2 DEF Local, Crowd, Busy
<1>9. Rows(t)'
  <2>1. stored[t] = {}
    BY <1>1, <1>4 DEF Local, Rows
  <2>2. CASE Store(t)
    <3>1. /\ row'[t] = "done" /\ stored'[t] = {<<a, Outcome(a)>> : a \in Asset} /\ alerted[t] = Over
          /\ taken[t] > 0 /\ \A a \in Asset : branch[t][a] = "returned"
      BY <1>1, <2>2 DEF Store, Typed, Stage
    <3>2. \A a \in Asset : device[a] # "undecryptable"
      BY <1>1, <3>1 DEF Local, Endings
    <3>3. taken[t] \in Nat /\ taken[t] <= Len(ended[t]) /\ ended[t] \in Seq(Asset)
      BY <1>1 DEF Typed, Local, Endings
    <3>4. ended[t][1] \in Asset
      BY <3>1, <3>3
    <3>5. stored'[t] # {}
      BY <3>1, <3>4
    <3> QED
      BY <1>2, <3>1, <3>2, <3>5 DEF Rows, Over, Outcome
  <2>3. CASE ~Store(t)
    <3>1. stored'[t] = {} /\ row'[t] # "done"
      BY <1>1, <1>4, <2>1, <2>3 DEF Hello, MarkFailed, MarkFailedFails, table, Typed
    <3> QED
      BY <3>1 DEF Rows
  <2> QED
    BY <2>2, <2>3
<1>10. Hears(t)'
  <2>1. job[t] \notin Past
    BY <1>4 DEF Past
  <2> QED
    BY <1>1, <1>2, <1>3, <2>1, HearsStill DEF Local, Hears
<1>11. Told(t)'
  BY <1>1, <1>2, <1>4 DEF Local, Told
<1> QED
  BY <1>2, <1>3, <1>4, <1>5, <1>6, <1>7, <1>8, <1>9, <1>10, <1>11, OneTask DEF Local

\* A branch that waits for the semaphore gets it: there is room for one more.
LEMMA AcquireSteps ==
  ASSUME Inv, NEW t \in Task, NEW a \in Asset, Acquire(t, a)
  PROVE  Inv'
<1> USE DEF Inv
<1>1. Typed /\ Local(t) /\ Stage(t)
  BY DEF Local
<1>2. /\ branch[t][a] = "waiting" /\ Cardinality(Busy(t)) < Concurrency
      /\ branch' = [branch EXCEPT ![t][a] = "loading"]
      /\ UNCHANGED <<device, row, stored, job, ended, taken, alerted, client, queue, told, faults, unmarked>>
  BY DEF Acquire, Busy, table, live, harm
<1>3. /\ branch' \in [Task -> [Asset -> BranchSteps]] /\ branch'[t][a] = "loading"
      /\ \A b \in Asset : b # a => branch'[t][b] = branch[t][b]
      /\ \A q \in Task : q # t => branch'[q] = branch[q]
  BY <1>1, <1>2 DEF Typed, BranchSteps
<1>4. Typed'
  BY <1>1, <1>2, <1>3 DEF Typed
<1>5. Stage(t)'
  BY <1>1, <1>2, <1>3 DEF Stage, Over
<1>6. Endings(t)'
  <2>1. \A b \in Asset : /\ branch'[t][b] = "returned" <=> branch[t][b] = "returned"
                         /\ branch'[t][b] = "raised" <=> branch[t][b] = "raised"
                         /\ branch'[t][b] = "working" <=> branch[t][b] = "working"
    BY <1>2, <1>3
  <2>2. \A i \in DOMAIN ended[t] : ended[t][i] \in Asset
    BY <1>1 DEF Typed
  <2> QED
    BY <1>1, <1>2, <2>1, <2>2 DEF Local, Endings
<1>7. Crowd(t)'
  <2>1. Busy(t)' = Busy(t) \cup {a}
    BY <1>3 DEF Busy
  <2>2. IsFiniteSet(Busy(t))
    BY FS_Subset DEF Busy
  <2>3. Cardinality(Busy(t)) \in Nat
    BY <2>2, FS_CardinalityType
  <2>4. Cardinality(Busy(t) \cup {a}) = IF a \in Busy(t) THEN Cardinality(Busy(t)) ELSE Cardinality(Busy(t)) + 1
    BY <2>2, FS_AddElement
  <2>5. Cardinality(Busy(t) \cup {a}) <= Concurrency
    BY <1>2, <2>3, <2>4
  <2>6. Cardinality(Busy(t))' <= Concurrency
    BY <2>1, <2>5
  <2> QED
    BY <2>6 DEF Crowd
<1>8. Rows(t)' /\ Told(t)'
  <2>1. Rows(t)'
    BY <1>1, <1>2, SMTT(30) DEF Local, Rows, Outcome, Over
  <2>2. Told(t)'
    <3>1. Told(t)
      BY <1>1 DEF Local
    <3>2. UNCHANGED <<device, job, told>>
      BY <1>2
    <3> QED
      BY <3>1, <3>2 DEF Told
  <2> QED
    BY <2>1, <2>2
<1>9. Hears(t)'
  <2>1. \A m : WillHear(t, m)' <=> WillHear(t, m)
    BY <1>2 DEF WillHear
  <2> QED
    BY <1>1, <1>2, <1>3, <2>1 DEF Local, Hears
<1> QED
  BY <1>2, <1>3, <1>4, <1>5, <1>6, <1>7, <1>8, <1>9, OneTask DEF Local

\* A branch goes on: it ends or starts its thread, and who watches will hear of it
\* unless the stream has ended.
LEMMA BranchGoesOn ==
  ASSUME Inv, NEW t \in Task, NEW a \in Asset, NEW es \in Seq(Event),
         branch[t][a] \in {"loading", "working"},
         UNCHANGED <<device, table, job, taken, alerted, client, told, harm>>,
         queue' = [queue EXCEPT ![t] = IF client[t] = "none" THEN @ ELSE @ \o es],
         NEW how \in {"working", "returned", "raised"},
         branch' = [branch EXCEPT ![t][a] = how],
         ended' = IF how = "working" THEN ended ELSE [ended EXCEPT ![t] = Append(@, a)],
         how \in {"working", "returned"} => device[a] # "undecryptable",
         how = "returned" /\ device[a] # "missing" => \E j \in DOMAIN es : es[j] = <<"end", a>>
  PROVE  Inv'
<1> USE DEF Inv
<1>1. Typed /\ Local(t) /\ Stage(t)
  BY DEF Local
<1>2. UNCHANGED <<device, row, stored, job, taken, alerted, client, told, faults, unmarked>>
  BY DEF table, harm
<1>3. /\ branch' \in [Task -> [Asset -> BranchSteps]] /\ branch'[t][a] = how
      /\ \A b \in Asset : b # a => branch'[t][b] = branch[t][b]
      /\ \A q \in Task : q # t => branch'[q] = branch[q]
  BY <1>1 DEF Typed, BranchSteps
<1>4. /\ ended[t] \in Seq(Asset) /\ Len(ended[t]) \in Nat /\ DOMAIN ended[t] = 1..Len(ended[t])
      /\ taken[t] \in Nat
      /\ \A i \in DOMAIN ended[t] : ended[t][i] \in Asset
  BY <1>1 DEF Typed
<1>5. /\ ended' \in [Task -> Seq(Asset)]
      /\ \A q \in Task : q # t => ended'[q] = ended[q]
      /\ how = "working" => ended'[t] = ended[t]
      /\ how # "working" => ended'[t] = Append(ended[t], a)
  <2>1. Append(ended[t], a) \in Seq(Asset)
    BY <1>4
  <2>2. ended' \in {ended, [ended EXCEPT ![t] = Append(ended[t], a)]}
    OBVIOUS
  <2>3. ended' \in [Task -> Seq(Asset)] /\ \A q \in Task : q # t => ended'[q] = ended[q]
    BY <1>1, <2>1, <2>2 DEF Typed
  <2> QED
    BY <1>1, <2>3 DEF Typed
<1>6. es \in Seq(Event \cup {Sentinel}) /\ \A j \in DOMAIN es : es[j] \in Event
  OBVIOUS
<1>7. /\ queue' \in [Task -> Seq(Event \cup {Sentinel})]
      /\ \A q \in Task : q # t => queue'[q] = queue[q]
      /\ client[t] = "none" => queue'[t] = queue[t]
      /\ client[t] # "none" => queue'[t] = queue[t] \o es
  <2>1. queue[t] \in Seq(Event \cup {Sentinel}) /\ queue[t] \o es \in Seq(Event \cup {Sentinel})
    BY <1>1, <1>6 DEF Typed
  <2> QED
    BY <1>1, <2>1 DEF Typed
<1>8. Typed'
  BY <1>1, <1>2, <1>3, <1>5, <1>7 DEF Typed
<1>9. Stage(t)'
  <2>1. job[t] \notin {"log", "judge", "store"} \cup Unstarted
    BY <1>1 DEF Stage
  <2> QED
    BY <1>1, <1>2, <2>1 DEF Stage
<1>10. Endings(t)'
  <2>1. Endings(t) /\ branch[t][a] \notin {"returned", "raised"}
    BY <1>1 DEF Local
  <2>2. CASE how = "working"
    <3>1. \A b \in Asset : /\ branch'[t][b] = "returned" <=> branch[t][b] = "returned"
                           /\ branch'[t][b] = "raised" <=> branch[t][b] = "raised"
                           /\ branch'[t][b] = "working" => b = a \/ branch[t][b] = "working"
      BY <1>3, <2>1, <2>2
    <3> QED
      BY <1>2, <1>4, <1>5, <2>1, <2>2, <3>1 DEF Endings
  <2>3. CASE how # "working"
    <3>1. /\ Len(ended'[t]) = Len(ended[t]) + 1
          /\ DOMAIN ended'[t] = 1..Len(ended[t]) + 1
          /\ \A i \in DOMAIN ended[t] : ended'[t][i] = ended[t][i] /\ i # Len(ended[t]) + 1
          /\ ended'[t][Len(ended[t]) + 1] = a
      <4>1. ended[t] \in Seq(Asset) /\ a \in Asset /\ ended'[t] = Append(ended[t], a)
        BY <1>4, <1>5, <2>3
      <4>2. /\ Len(ended'[t]) = Len(ended[t]) + 1
            /\ DOMAIN ended'[t] = 1..Len(ended[t]) + 1
            /\ ended'[t][Len(ended[t]) + 1] = a
        BY ONLY <4>1, Grows
      <4>3. \A i \in DOMAIN ended[t] : ended'[t][i] = ended[t][i] /\ i # Len(ended[t]) + 1
        BY ONLY <4>1, Grows
      <4> QED
        BY <4>2, <4>3, SMTT(30)
    <3>2. \A i \in DOMAIN ended'[t] : i = Len(ended[t]) + 1 \/ i \in DOMAIN ended[t]
      BY <1>4, <3>1
    <3>3. \A i \in DOMAIN ended[t] : i \in DOMAIN ended'[t] /\ ended[t][i] # a
      BY <1>4, <2>1, <3>1 DEF Endings
    <3>4. \A b \in Asset : branch'[t][b] \in {"returned", "raised"} <=> \E i \in DOMAIN ended'[t] : ended'[t][i] = b
      <4>1. \A b \in Asset : branch[t][b] \in {"returned", "raised"} <=> \E i \in DOMAIN ended[t] : ended[t][i] = b
        BY <2>1 DEF Endings
      <4>2. Len(ended[t]) + 1 \in DOMAIN ended'[t]
        BY <1>4, <3>1
      <4>3. ASSUME NEW b \in Asset, b # a
            PROVE  branch'[t][b] \in {"returned", "raised"} <=> \E i \in DOMAIN ended'[t] : ended'[t][i] = b
        BY <1>3, <3>1, <3>2, <3>3, <4>1, <4>3
      <4>4. branch'[t][a] \in {"returned", "raised"} /\ \E i \in DOMAIN ended'[t] : ended'[t][i] = a
        BY <1>3, <2>3, <3>1, <4>2
      <4> QED
        BY <4>3, <4>4
    <3>5. \A i, j \in DOMAIN ended'[t] : ended'[t][i] = ended'[t][j] => i = j
      BY <2>1, <3>1, <3>2, <3>3 DEF Endings
    <3>6. taken'[t] <= Len(ended'[t])
      BY <1>2, <1>4, <2>1, <3>1 DEF Endings
    <3>7. job'[t] = "gather" => \A i \in DOMAIN ended'[t] : i <= taken'[t] => branch'[t][ended'[t][i]] = "returned"
      BY <1>2, <1>3, <1>4, <2>1, <3>1, <3>2, <3>3 DEF Endings
    <3>8. \A b \in Asset : branch'[t][b] \in {"working", "returned"} => device'[b] # "undecryptable"
      BY <1>2, <1>3, <2>1 DEF Endings
    <3> QED
      BY <3>4, <3>5, <3>6, <3>7, <3>8 DEF Endings
  <2> QED
    BY <2>2, <2>3
<1>11. Crowd(t)'
  <2>1. Busy(t)' \subseteq Busy(t)
    BY <1>3 DEF Busy
  <2>2. IsFiniteSet(Busy(t))
    BY FS_Subset DEF Busy
  <2>3. Cardinality(Busy(t)') <= Cardinality(Busy(t)) /\ Cardinality(Busy(t)) \in Nat
        /\ Cardinality(Busy(t)') \in Nat
    BY <2>1, <2>2, FS_Subset, FS_CardinalityType
  <2> QED
    BY <1>1, <2>3 DEF Local, Crowd
<1>12. Rows(t)' /\ Told(t)'
  <2>1. Rows(t)'
    BY <1>1, <1>2 DEF Local, Rows, Outcome, Over
  <2>2. Told(t)'
    BY <1>1, <1>2, ToldStill DEF Local
  <2> QED
    BY <2>1, <2>2
<1>13. Hears(t)'
  <2>1. CASE client[t] = "none"
    BY <1>1, <1>2, <1>7, <2>1 DEF Local, Hears
  <2>2. CASE client[t] # "none"
    <3>1. queue[t] \in Seq(Event \cup {Sentinel}) /\ queue'[t] = queue[t] \o es /\ told'[t] = told[t]
      BY <1>1, <1>2, <1>7, <2>2 DEF Typed
    <3>2. \A j \in DOMAIN es : es[j] # Sentinel
      BY <1>6, Messages
    <3>3. /\ \A m : WillHear(t, m) => WillHear(t, m)'
          /\ (\A i \in DOMAIN queue[t] : queue[t][i] # Sentinel)
             => /\ \A i \in DOMAIN queue'[t] : queue'[t][i] # Sentinel
                /\ \A j \in DOMAIN es : WillHear(t, es[j])'
      BY <1>6, <3>1, <3>2, Queued
    <3>4. job[t] \in Past => taken[t] # Cardinality(Asset)
      BY AllEnded
    <3>5. job'[t] \notin Past => \A i \in DOMAIN queue'[t] : queue'[t][i] # Sentinel
      BY <1>1, <1>2, <3>3 DEF Local, Hears
    <3>6. ASSUME client'[t] = "watching", NEW b \in Asset, branch'[t][b] = "returned", device[b] # "missing",
                 job'[t] \in Past => taken'[t] = Cardinality(Asset)
          PROVE  WillHear(t, <<"end", b>>)'
      <4>1. job[t] \notin Past
        BY <1>2, <3>4, <3>6
      <4>2. CASE b # a
        BY <1>1, <1>2, <1>3, <3>3, <3>6, <4>1, <4>2 DEF Local, Hears
      <4>3. CASE b = a
        <5>1. how = "returned"
          BY <1>3, <3>6, <4>3
        <5>2. PICK j \in DOMAIN es : es[j] = <<"end", a>>
          BY <3>6, <4>3, <5>1
        <5>3. WillHear(t, es[j])'
          BY <1>1, <3>3, <4>1 DEF Local, Hears
        <5>4. WillHear(t, <<"end", a>>)'
          BY <5>2, <5>3 DEF WillHear
        <5> QED
          BY <4>3, <5>4
      <4> QED
        BY <4>2, <4>3
    <3> QED
      BY <1>2, <3>5, <3>6 DEF Hears
  <2> QED
    BY <2>1, <2>2
<1> QED
  BY <1>2, <1>3, <1>5, <1>7, <1>8, <1>9, <1>10, <1>11, <1>12, <1>13, OneTask DEF Local

\* The steps of a branch keep it.
LEMMA BranchStepsKeep ==
  ASSUME Inv, NEW t \in Task, NEW a \in Asset, BranchStep(t, a)
  PROVE  Inv'
<1> USE DEF End
<1>1. Typed
  BY DEF Inv
<1>2. /\ << >> \in Seq(Event) /\ << <<"begin", a>> >> \in Seq(Event) /\ << <<"end", a>> >> \in Seq(Event)
      /\ << <<"begin", a>>, <<"end", a>> >> \in Seq(Event)
      /\ \E j \in DOMAIN << <<"end", a>> >> : << <<"end", a>> >>[j] = <<"end", a>>
      /\ \E j \in DOMAIN << <<"begin", a>>, <<"end", a>> >> : << <<"begin", a>>, <<"end", a>> >>[j] = <<"end", a>>
  <2>1. <<"begin", a>> \in Event /\ <<"end", a>> \in Event
    BY Messages
  <2>2. \A x, y \in Event : /\ << >> \in Seq(Event) /\ <<x>> \in Seq(Event) /\ <<x, y>> \in Seq(Event)
                            /\ 1 \in DOMAIN <<x>> /\ <<x>>[1] = x
                            /\ 2 \in DOMAIN <<x, y>> /\ <<x, y>>[2] = y
    OBVIOUS
  <2> QED
    BY <2>1, <2>2
<1>3. UNCHANGED queue => queue' = [queue EXCEPT ![t] = IF client[t] = "none" THEN @ ELSE @ \o << >>]
  <2>1. queue[t] \in Seq(Event \cup {Sentinel})
    BY <1>1 DEF Typed
  <2>2. queue[t] \o << >> = queue[t]
    BY <2>1
  <2> QED
    BY <1>1, <2>2 DEF Typed
<1>4. CASE Work(t, a)
  <2>1. /\ branch[t][a] = "working" /\ Emit(t, << <<"end", a>> >>)
        /\ UNCHANGED <<device, table, job, taken, alerted, client, told, harm>>
        /\ branch' = [branch EXCEPT ![t][a] = "returned"]
        /\ ended' = [ended EXCEPT ![t] = Append(@, a)]
    BY <1>4 DEF Work
  <2>2. device[a] # "undecryptable"
    BY <2>1 DEF Inv, Local, Endings
  <2> QED
    BY <1>2, <2>1, <2>2, BranchGoesOn DEF Emit
<1>5. CASE Load(t, a)
  <2>1. branch[t][a] = "loading" /\ UNCHANGED <<device, table, job, taken, alerted, client, told, harm>>
    BY <1>5 DEF Load
  <2>2. CASE device[a] = "missing" /\ End(t, a, "returned") /\ UNCHANGED queue
    BY <1>2, <1>3, <2>1, <2>2, BranchGoesOn
  <2>3. CASE device[a] = "undecryptable" /\ End(t, a, "raised") /\ UNCHANGED queue
    BY <1>2, <1>3, <2>1, <2>3, BranchGoesOn
  <2>4. CASE device[a] = "dangling" /\ End(t, a, "returned") /\ Emit(t, << <<"end", a>> >>)
    BY <1>2, <2>1, <2>4, BranchGoesOn DEF Emit
  <2>5. CASE device[a] = "offline" /\ End(t, a, "returned") /\ Emit(t, << <<"begin", a>>, <<"end", a>> >>)
    BY <1>2, <2>1, <2>5, BranchGoesOn DEF Emit
  <2>6. CASE /\ device[a] \in {"over", "good"}
             /\ branch' = [branch EXCEPT ![t][a] = "working"]
             /\ Emit(t, << <<"begin", a>> >>)
             /\ UNCHANGED ended
    BY <1>2, <2>1, <2>6, BranchGoesOn DEF Emit
  <2> QED
    BY <1>5, <2>2, <2>3, <2>4, <2>5, <2>6 DEF Load
<1> QED
  BY <1>4, <1>5, AcquireSteps DEF BranchStep

\* The first message of a queue leaves it, and what a watcher would hear is told it.
LEMMA DrainSteps ==
  ASSUME Inv, NEW t \in Task, Drain(t)
  PROVE  Inv'
<1> USE DEF Inv
<1>1. Typed /\ Local(t)
  OBVIOUS
<1>2. /\ job[t] \notin {"none", "ended"} /\ queue[t] # <<>> /\ Head(queue[t]) # Sentinel
      /\ queue' = [queue EXCEPT ![t] = Tail(@)]
      /\ told' = [told EXCEPT ![t] = IF client[t] = "watching" THEN Append(@, Head(queue[t])) ELSE @]
      /\ UNCHANGED <<device, row, stored, job, branch, ended, taken, alerted, client, faults, unmarked>>
  BY DEF Drain, Tell, table, run, harm
<1>3. /\ queue[t] \in Seq(Event \cup {Sentinel}) /\ told[t] \in Seq(Message)
      /\ Tail(queue[t]) \in Seq(Event \cup {Sentinel}) /\ Head(queue[t]) \in Event \cup {Sentinel}
  BY <1>1, <1>2, Shrinks DEF Typed
<1>4. Head(queue[t]) \in Event /\ Head(queue[t]) \in Message /\ Head(queue[t])[1] # "complete"
  BY <1>2, <1>3, Messages
<1>5. Append(told[t], Head(queue[t])) \in Seq(Message)
  BY <1>3, <1>4
<1>6. /\ queue' \in [Task -> Seq(Event \cup {Sentinel})] /\ told' \in [Task -> Seq(Message)]
      /\ queue'[t] = Tail(queue[t])
      /\ client[t] = "watching" => told'[t] = Append(told[t], Head(queue[t]))
      /\ client[t] # "watching" => told'[t] = told[t]
      /\ \A q \in Task : q # t => queue'[q] = queue[q] /\ told'[q] = told[q]
  BY <1>1, <1>2, <1>3, <1>5 DEF Typed
<1>7. Typed'
  BY <1>1, <1>2, <1>6 DEF Typed
<1>8. /\ 1 \in DOMAIN queue[t] /\ queue[t][1] = Head(queue[t])
      /\ \A i \in DOMAIN queue[t] : i \in Nat /\ (i # 1 => i - 1 \in DOMAIN queue'[t] /\ queue'[t][i - 1] = queue[t][i])
      /\ \A i \in DOMAIN queue'[t] : i \in Nat /\ i + 1 \in DOMAIN queue[t] /\ queue'[t][i] = queue[t][i + 1]
  BY <1>2, <1>3, <1>6, Shrinks
<1>9. client[t] = "watching" =>
        /\ \A i \in DOMAIN told[t] : i \in DOMAIN told'[t] /\ told'[t][i] = told[t][i]
        /\ Len(told[t]) + 1 \in DOMAIN told'[t] /\ told'[t][Len(told[t]) + 1] = Head(queue[t])
        /\ \A i \in DOMAIN told'[t] : i \in DOMAIN told[t] \/ i = Len(told[t]) + 1
  <2> SUFFICES ASSUME client[t] = "watching"
               PROVE  /\ \A i \in DOMAIN told[t] : i \in DOMAIN told'[t] /\ told'[t][i] = told[t][i]
                      /\ Len(told[t]) + 1 \in DOMAIN told'[t] /\ told'[t][Len(told[t]) + 1] = Head(queue[t])
                      /\ \A i \in DOMAIN told'[t] : i \in DOMAIN told[t] \/ i = Len(told[t]) + 1
    OBVIOUS
  <2>1. told[t] \in Seq(Message) /\ Head(queue[t]) \in Message /\ told'[t] = Append(told[t], Head(queue[t]))
    BY <1>3, <1>4, <1>6
  <2> HIDE DEF Inv
  <2>2. /\ \A i \in DOMAIN told[t] : told'[t][i] = told[t][i]
        /\ told'[t][Len(told[t]) + 1] = Head(queue[t])
        /\ DOMAIN told[t] = 1..Len(told[t]) /\ DOMAIN told'[t] = 1..Len(told[t]) + 1 /\ Len(told[t]) \in Nat
    BY ONLY <2>1, Grows
  <2> QED
    BY <2>2
<1>10. Stage(t)' /\ Endings(t)' /\ Crowd(t)' /\ Rows(t)'
  <2>1. Stage(t)' /\ Endings(t)'
    BY <1>1, <1>2 DEF Local, Stage, Endings, Over
  <2>2. Crowd(t)' /\ Rows(t)'
    BY <1>1, <1>2 DEF Local, Crowd, Busy, Rows, Outcome, Over
  <2> QED
    BY <2>1, <2>2
<1>11. Told(t)'
  <2>1. \A i \in DOMAIN told[t] : told[t][i][1] # "complete"
    BY <1>1, <1>2 DEF Local, Told
  <2>2. \A i \in DOMAIN told'[t] : told'[t][i][1] # "complete"
    BY <1>4, <1>6, <1>9, <2>1
  <2> QED
    BY <2>2 DEF Told
<1>12. Hears(t)'
  <2>1. job[t] \notin Past => \A i \in DOMAIN queue'[t] : queue'[t][i] # Sentinel
    BY <1>1, <1>8 DEF Local, Hears
  <2>2. ASSUME client[t] = "watching", NEW m, WillHear(t, m) PROVE WillHear(t, m)'
    <3>1. CASE \E i \in DOMAIN told[t] : told[t][i] = m
      BY <1>9, <2>2, <3>1 DEF WillHear
    <3>2. ASSUME NEW i \in DOMAIN queue[t], queue[t][i] = m,
                 \A j \in DOMAIN queue[t] : j <= i => queue[t][j] # Sentinel
          PROVE  WillHear(t, m)'
      <4>1. CASE i = 1
        BY <1>8, <1>9, <2>2, <3>2, <4>1 DEF WillHear
      <4>2. CASE i # 1
        <5>1. i - 1 \in DOMAIN queue'[t] /\ queue'[t][i - 1] = m
          BY <1>8, <3>2, <4>2
        <5>2. ASSUME NEW j \in DOMAIN queue'[t], j <= i - 1 PROVE queue'[t][j] # Sentinel
          <6>1. j \in Nat /\ i \in Nat /\ j + 1 \in DOMAIN queue[t] /\ queue'[t][j] = queue[t][j + 1]
            BY <1>8
          <6>2. j + 1 <= i
            BY <5>2, <6>1
          <6> QED
            BY <3>2, <6>1, <6>2
        <5> QED
          BY <5>1, <5>2 DEF WillHear
      <4> QED
        BY <4>1, <4>2
    <3> QED
      BY <2>2, <3>1, <3>2 DEF WillHear
  <2> QED
    BY <1>1, <1>2, <2>1, <2>2 DEF Local, Hears
<1> QED
  BY <1>2, <1>6, <1>7, <1>10, <1>11, <1>12, OneTask DEF Local

\* The results are sent when the sentinel has been met: all that there was to hear
\* before has been told.
LEMMA CompleteSteps ==
  ASSUME Inv, NEW t \in Task, Complete(t)
  PROVE  Inv'
<1> USE DEF Inv
<1> DEFINE S == IF taken[t] = Cardinality(Asset) /\ \A a \in Asset : branch[t][a] = "returned"
                THEN Asset ELSE {}
           m == <<"complete", S>>
<1>1. Typed /\ Local(t)
  OBVIOUS
<1>2. /\ job[t] = "drain" /\ job' = [job EXCEPT ![t] = "ended"]
      /\ queue[t] # <<>> /\ Head(queue[t]) = Sentinel
      /\ queue' = [queue EXCEPT ![t] = Tail(@)]
      /\ told' = [told EXCEPT ![t] = IF client[t] = "watching" THEN Append(@, m) ELSE @]
      /\ UNCHANGED <<device, row, stored, branch, ended, taken, alerted, client, faults, unmarked>>
  BY DEF Complete, Go, Tell, table, harm
<1>3. m \in Message /\ m[1] = "complete" /\ m[2] = S
  BY Messages
<1>4. S # {} => taken[t] = Cardinality(Asset) /\ \A a \in Asset : branch[t][a] = "returned"
  OBVIOUS
<1>5. S \subseteq Asset
  OBVIOUS
<1> HIDE DEF m, S
<1>6. /\ queue[t] \in Seq(Event \cup {Sentinel}) /\ told[t] \in Seq(Message)
      /\ Tail(queue[t]) \in Seq(Event \cup {Sentinel}) /\ 1 \in DOMAIN queue[t] /\ queue[t][1] = Sentinel
      /\ \A i \in DOMAIN queue[t] : i \in Nat
  BY <1>1, <1>2, Shrinks DEF Typed
<1>7. Append(told[t], m) \in Seq(Message)
  BY <1>3, <1>6
<1>8. /\ queue' \in [Task -> Seq(Event \cup {Sentinel})] /\ told' \in [Task -> Seq(Message)]
      /\ job' \in [Task -> JobSteps] /\ job'[t] = "ended"
      /\ client[t] = "watching" => told'[t] = Append(told[t], m)
      /\ client[t] # "watching" => told'[t] = told[t]
      /\ \A q \in Task : q # t => queue'[q] = queue[q] /\ told'[q] = told[q] /\ job'[q] = job[q]
  BY <1>1, <1>2, <1>6, <1>7 DEF Typed, JobSteps
<1>9. Typed'
  BY <1>1, <1>2, <1>8 DEF Typed
<1>10. client[t] = "watching" =>
        /\ \A i \in DOMAIN told[t] : i \in DOMAIN told'[t] /\ told'[t][i] = told[t][i] /\ i \in 1..Len(told[t])
        /\ told'[t][Len(told[t]) + 1] = m
        /\ \A i \in DOMAIN told'[t] : i \in DOMAIN told[t] \/ i = Len(told[t]) + 1
        /\ Len(told'[t]) = Len(told[t]) + 1 /\ Len(told[t]) \in Nat
  <2> SUFFICES ASSUME client[t] = "watching"
               PROVE  /\ \A i \in DOMAIN told[t] : i \in DOMAIN told'[t] /\ told'[t][i] = told[t][i] /\ i \in 1..Len(told[t])
                      /\ told'[t][Len(told[t]) + 1] = m
                      /\ \A i \in DOMAIN told'[t] : i \in DOMAIN told[t] \/ i = Len(told[t]) + 1
                      /\ Len(told'[t]) = Len(told[t]) + 1 /\ Len(told[t]) \in Nat
    OBVIOUS
  <2>1. told[t] \in Seq(Message) /\ m \in Message /\ told'[t] = Append(told[t], m)
    BY <1>3, <1>6, <1>8
  <2> HIDE DEF Inv
  <2>2. /\ \A i \in DOMAIN told[t] : told'[t][i] = told[t][i]
        /\ told'[t][Len(told[t]) + 1] = m /\ Len(told'[t]) = Len(told[t]) + 1
        /\ DOMAIN told[t] = 1..Len(told[t]) /\ DOMAIN told'[t] = 1..Len(told[t]) + 1 /\ Len(told[t]) \in Nat
    BY ONLY <2>1, Grows
  <2> QED
    BY <2>2
<1>11. Stage(t)'
  BY <1>1, <1>2, <1>8 DEF Local, Stage, Active, Unstarted
<1>12. Endings(t)'
  BY <1>1, <1>2, <1>8 DEF Local, Endings
<1>13. Crowd(t)' /\ Rows(t)'
  BY <1>1, <1>2 DEF Local, Crowd, Busy, Rows, Outcome, Over
<1>14. ASSUME client[t] = "watching", NEW a \in Asset, branch[t][a] = "returned", device[a] # "missing",
              taken[t] = Cardinality(Asset)
       PROVE  \E i \in DOMAIN told[t] : told[t][i] = <<"end", a>>
  <2>1. WillHear(t, <<"end", a>>)
    BY <1>1, <1>14 DEF Local, Hears
  <2>2. \A i \in DOMAIN queue[t] : 1 <= i
    <3>1. DOMAIN queue[t] = 1..Len(queue[t])
      BY <1>6
    <3> QED
      BY <3>1
  <2> QED
    BY <1>6, <2>1, <2>2 DEF WillHear
<1>15. Hears(t)'
  <2>1. job'[t] \in Past
    BY <1>8 DEF Past
  <2>2. ASSUME client[t] = "watching", NEW a \in Asset, branch[t][a] = "returned", device[a] # "missing",
               taken[t] = Cardinality(Asset)
        PROVE  WillHear(t, <<"end", a>>)'
    BY <1>10, <1>14, <2>2 DEF WillHear
  <2> QED
    BY <1>2, <2>1, <2>2 DEF Hears
<1>16. Told(t)'
  <2>1. \A i \in DOMAIN told[t] : told[t][i][1] # "complete"
    BY <1>1, <1>2 DEF Local, Told
  <2>2. CASE client[t] # "watching"
    BY <1>8, <2>1, <2>2 DEF Told
  <2>3. CASE client[t] = "watching"
    <3>1. ASSUME NEW i \in DOMAIN told'[t], told'[t][i][1] = "complete" PROVE i = Len(told[t]) + 1 /\ told'[t][i] = m
      BY <1>10, <2>1, <2>3, <3>1
    <3>2. ASSUME NEW a \in S, device[a] # "missing" PROVE \E j \in 1..Len(told[t]) : told'[t][j] = <<"end", a>>
      <4>1. \E i \in DOMAIN told[t] : told[t][i] = <<"end", a>>
        BY <1>4, <1>5, <1>14, <2>3, <3>2
      <4> QED
        BY <1>10, <2>3, <4>1
    <3>3. Len(told[t]) + 1 - 1 = Len(told[t]) /\ Len(told'[t]) = Len(told[t]) + 1
      BY <1>10, <2>3
    <3>4. ASSUME NEW i \in DOMAIN told'[t], told'[t][i][1] = "complete"
          PROVE  /\ job'[t] = "ended" /\ i = Len(told'[t])
                 /\ \A a \in told'[t][i][2] :
                      device'[a] # "missing" => \E j \in 1..i - 1 : told'[t][j] = <<"end", a>>
      <4>1. i = Len(told[t]) + 1 /\ i - 1 = Len(told[t]) /\ told'[t][i][2] = S
        BY <1>3, <3>1, <3>3, <3>4
      <4> QED
        BY <1>2, <1>8, <3>2, <3>3, <4>1, ZenonT(40)
    <3> QED
      BY <3>4 DEF Told
  <2> QED
    BY <2>2, <2>3
<1> QED
  BY <1>2, <1>8, <1>9, <1>11, <1>12, <1>13, <1>15, <1>16, OneTask DEF Local

\* A restart keeps it: every job is over and every client gone, and of the rows only
\* those that said running are touched.
LEMMA RestartSteps ==
  ASSUME Inv, Restart
  PROVE  Inv'
<1> USE DEF Inv
<1>1. Typed
  OBVIOUS
<1>2. /\ faults' \in 0..MaxFaults
      /\ row' = [t \in Task |-> IF row[t] = "running" THEN "failed" ELSE row[t]]
      /\ job' = [t \in Task |-> IF job[t] = "none" THEN "none" ELSE "ended"]
      /\ branch' = [t \in Task |-> [a \in Asset |-> "none"]] /\ ended' = [t \in Task |-> <<>>]
      /\ taken' = [t \in Task |-> 0]
      /\ client' = [t \in Task |-> IF client[t] = "none" THEN "none" ELSE "gone"]
      /\ queue' = [t \in Task |-> <<>>]
      /\ UNCHANGED <<device, stored, told, alerted, unmarked>>
  BY <1>1 DEF Restart, Recover, AllTasks, Typed
<1>3. Typed'
  <2>1. /\ row' \in [Task -> {"none", "running", "done", "failed"}] /\ job' \in [Task -> JobSteps]
        /\ client' \in [Task -> {"none", "watching", "gone"}] /\ taken' \in [Task -> Nat]
    BY <1>1, <1>2 DEF Typed, JobSteps
  <2>2. branch' \in [Task -> [Asset -> BranchSteps]]
    BY <1>2 DEF BranchSteps
  <2>3. ended' \in [Task -> Seq(Asset)] /\ queue' \in [Task -> Seq(Event \cup {Sentinel})]
    BY <1>2
  <2> QED
    BY <1>1, <1>2, <2>1, <2>2, <2>3 DEF Typed
<1>4. ASSUME NEW t \in Task PROVE Local(t)'
  <2>1. /\ row'[t] = (IF row[t] = "running" THEN "failed" ELSE row[t])
        /\ job'[t] = (IF job[t] = "none" THEN "none" ELSE "ended")
        /\ \A a \in Asset : branch'[t][a] = "none"
        /\ ended'[t] = <<>> /\ taken'[t] = 0 /\ queue'[t] = <<>> /\ client'[t] # "watching"
        /\ DOMAIN ended'[t] = {} /\ DOMAIN queue'[t] = {} /\ Len(ended'[t]) = 0
    BY <1>2
  <2>2. Local(t)
    OBVIOUS
  <2>3. Stage(t)'
    BY <2>1, <2>2 DEF Local, Stage, Active, Unstarted
  <2>4. Endings(t)'
    BY <2>1 DEF Endings
  <2>5. Crowd(t)'
    <3>1. Busy(t)' = {}
      BY <2>1 DEF Busy
    <3> QED
      BY <3>1, FS_EmptySet DEF Crowd
  <2>6. Rows(t)'
    BY <1>2, <2>1, <2>2 DEF Local, Rows, Outcome, Over
  <2>7. Hears(t)'
    BY <2>1 DEF Hears
  <2>8. Told(t)'
    <3>1. job[t] = "ended" => job'[t] = "ended"
      BY <2>1
    <3> QED
      BY <1>2, <2>2, <3>1, ToldStill DEF Local
  <2> QED
    BY <2>3, <2>4, <2>5, <2>6, <2>7, <2>8 DEF Local
<1> QED
  BY <1>3, <1>4

\* Every step keeps it.
LEMMA InvStep == Inv /\ [TaskNext]_taskVars => Inv'
<1> SUFFICES ASSUME Inv, [TaskNext]_taskVars PROVE Inv'
  OBVIOUS
<1>1. CASE UNCHANGED taskVars
  <2>1. /\ UNCHANGED <<device, row, stored, job, branch, ended, taken, alerted, client, queue, told>>
        /\ UNCHANGED <<faults, unmarked>>
    BY <1>1 DEF taskVars, table, run, live, harm
  <2>2. Typed'
    BY <2>1 DEF Inv, Typed
  <2>3. \A t \in Task : Local(t)'
    BY <2>1, OtherTasks DEF Inv
  <2> QED
    BY <2>2, <2>3 DEF Inv
<1>2. ASSUME NEW t \in Task, JobStep(t) PROVE Inv'
  BY <1>2, PlainJobSteps, ReturnSteps, CompleteSteps DEF JobStep
<1>3. ASSUME NEW t \in Task,
             Create(t) \/ Connect(t) \/ Leave(t) \/ Drain(t) \/ Fault(t) \/ MarkFailedFails(t)
      PROVE  Inv'
  BY <1>3, ClientSteps, DrainSteps, PlainJobSteps, ReturnSteps
<1> QED
  BY <1>1, <1>2, <1>3, BranchStepsKeep, RestartSteps DEF TaskNext

\* The rows, the jobs and the branches are what TaskTypeOK says: a branch that has
\* ended has ended once, and never more devices than the network is to bear are
\* inspected at a time, whatever became of the job (service.py, the semaphore of
\* inspect_many).
THEOREM TasksTypeCorrect == TaskSpec => []TaskTypeOK
<1>1. Inv => TaskTypeOK
  <2> SUFFICES ASSUME Inv PROVE TaskTypeOK
    OBVIOUS
  <2> USE DEF Inv
  <2>1. ASSUME NEW t \in Task
        PROVE  /\ Range(ended[t]) = {a \in Asset : branch[t][a] \in {"returned", "raised"}}
               /\ taken[t] <= Len(ended[t])
               /\ Range(queue[t]) \subseteq Message \cup {Sentinel}
               /\ Range(told[t]) \subseteq Message
               /\ Cardinality({a \in Asset : branch[t][a] \in {"loading", "working"}}) <= Concurrency
    <3>1. ended[t] \in Seq(Asset) /\ queue[t] \in Seq(Event \cup {Sentinel}) /\ told[t] \in Seq(Message)
      BY DEF Typed
    <3>2. Range(ended[t]) = {a \in Asset : branch[t][a] \in {"returned", "raised"}}
      BY <3>1 DEF Range, Local, Endings
    <3>3. Range(queue[t]) \subseteq Message \cup {Sentinel} /\ Range(told[t]) \subseteq Message
      BY <3>1, Messages DEF Range
    <3> QED
      BY <3>2, <3>3 DEF Local, Endings, Crowd, Busy
  <2> QED
    BY <2>1 DEF TaskTypeOK, Typed
<1> QED
  BY <1>1, InvInit, InvStep, PTL DEF TaskSpec

\* Results appear whole, in the tables as on the websocket: a task that is done has one
\* row for each of its devices and any other has none, wherever it was cut off, and who
\* watches is told of the results last (service.py, run_task_in_background;
\* api/inspection.py, the websocket).
THEOREM ResultsAreWhole == TaskSpec => []ResultsWhole
<1>1. Inv => ResultsWhole
  <2> SUFFICES ASSUME Inv PROVE ResultsWhole
    OBVIOUS
  <2> USE DEF Inv
  <2>1. DoneIsWhole
    <3> SUFFICES ASSUME NEW t \in Task
                 PROVE  /\ row[t] = "done" <=> stored[t] # {}
                        /\ row[t] = "done" =>
                             \A a \in Asset : Cardinality({r \in stored[t] : r[1] = a}) = 1
                        /\ \A a \in Asset :
                             <<a, "failed">> \in stored[t] /\ device[a] \notin {"missing", "dangling", "offline"}
                             => a \in alerted[t]
      BY DEF DoneIsWhole
    <3>1. Rows(t)
      BY DEF Local
    <3>2. ASSUME row[t] = "done", NEW a \in Asset PROVE Cardinality({r \in stored[t] : r[1] = a}) = 1
      <4>1. {r \in stored[t] : r[1] = a} = {<<a, Outcome(a)>>}
        BY <3>1, <3>2 DEF Rows
      <4> QED
        BY <4>1, FS_Singleton
    <3>3. ASSUME NEW a \in Asset, <<a, "failed">> \in stored[t], device[a] \notin {"missing", "dangling", "offline"}
          PROVE  a \in alerted[t]
      <4>1. stored[t] = {<<b, Outcome(b)>> : b \in Asset} /\ alerted[t] = Over /\ device[a] # "undecryptable"
        BY <3>1, <3>3 DEF Rows
      <4>2. Outcome(a) = "failed"
        BY <3>3, <4>1
      <4>3. device[a] \in Devices
        BY DEF Typed
      <4> QED
        BY <3>3, <4>1, <4>2, <4>3 DEF Outcome, Over, Devices
    <3> QED
      BY <3>1, <3>2, <3>3 DEF Rows
  <2>2. StreamInOrder
    BY DEF StreamInOrder, Local, Told
  <2> QED
    BY <2>1, <2>2 DEF ResultsWhole
<1> QED
  BY <1>1, InvInit, InvStep, PTL DEF TaskSpec

\* A verdict is final, with its rows, also for the recovery of a later start
\* (service.py, recover_interrupted_tasks).
THEOREM VerdictsAreFinal == TaskSpec => SettledForGood
<1>1. Inv /\ [TaskNext]_taskVars =>
        [\A t \in Task : row[t] \in {"done", "failed"} => row'[t] = row[t] /\ stored'[t] = stored[t]]_taskVars
  <2> SUFFICES ASSUME Inv, TaskNext, NEW t \in Task, row[t] \in {"done", "failed"}
               PROVE  row'[t] = row[t] /\ stored'[t] = stored[t]
    OBVIOUS
  <2>1. Typed /\ job[t] \notin Active
    BY DEF Inv, Local, Stage
  <2>2. ASSUME NEW q \in Task,
               \/ Create(q) \/ Connect(q) \/ Leave(q) \/ Drain(q) \/ Fault(q) \/ MarkFailedFails(q)
               \/ JobStep(q) \/ \E a \in Asset : BranchStep(q, a)
        PROVE  row'[t] = row[t] /\ stored'[t] = stored[t]
    <3>1. CASE Create(q) \/ Connect(q)
      BY <2>1, <3>1 DEF Create, Connect, Typed
    <3>2. CASE Start(q) \/ Store(q) \/ MarkFailed(q)
      BY <2>1, <3>2 DEF Start, Store, MarkFailed, Go, Typed, Active
    <3>3. CASE \/ Leave(q) \/ Drain(q) \/ Fault(q) \/ MarkFailedFails(q)
               \/ Hello(q) \/ Gather(q) \/ Log(q) \/ Judge(q) \/ Complete(q)
               \/ \E a \in Asset : BranchStep(q, a)
      BY <3>3 DEF Leave, Drain, Fault, MarkFailedFails, Hello, Gather, Log, Judge, Complete,
                  BranchStep, Acquire, Load, Work, table
    <3> QED
      BY <2>2, <3>1, <3>2, <3>3 DEF JobStep
  <2>3. CASE Restart
    BY <2>1, <2>3 DEF Restart, Recover, Typed
  <2> QED
    BY <2>2, <2>3 DEF TaskNext
<1> QED
  BY <1>1, InvInit, InvStep, PTL DEF TaskSpec, SettledForGood
=============================================================================
