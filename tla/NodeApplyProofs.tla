--------------------------- MODULE NodeApplyProofs ---------------------------
(***************************************************************************)
(* Theorems about NodeApply, for any number of requests, edits, restarts,  *)
(* lost replies and failing copies, whatever the plan is rendered for.     *)
(***************************************************************************)
EXTENDS NodeApply, TLAPS

USE NodeApplyAssumption

\* A change has been started by its timer: it has made its backup.
Fired(r) == change[r].backup # None

\* A change whose timer was started: it may come to something.
Left(r) == change[r].at \notin {"none", "partial"}

\* A change that is under way, and no other was since it began.
Alone(r) == Under(r) /\ change[r].alone

\* What a request that has got so far has with it, and what it has left behind.
Roles ==
  \A r \in Request :
    /\ req[r].at \in {"new", "expect", "deploy", "session", "fetch"} => change[r].at = "none"
    /\ req[r].at = "commit" /\ req[r].status # "applying" => change[r].at = "none"
    /\ req[r].at \in {"expect", "deploy", "session"} => req[r].config \in Config
    /\ req[r].at = "deploy" => req[r].expected \in Config
    /\ req[r].at = "session" => backend = "device"
    /\ req[r].at \in {"expect", "deploy"} => backend # "device"
    /\ req[r].at = "fetch" => req[r].change \in Request /\ Left(req[r].change)
    /\ req[r].at = "commit" /\ req[r].status = "applying" => req[r].change = r /\ Left(r)
    /\ req[r].at = "commit" => req[r].status # "none"
    /\ req[r].at # "ended" => req[r].answer = "none"

\* What there is of a change on the machine.
Changes ==
  \A r \in Request :
    /\ change[r].at # "none" =>
         change[r].config \in Config /\ change[r].expected \in Config /\ backend # "device"
    /\ change[r].at \in {"none", "partial", "armed"} => ~Fired(r)
    /\ change[r].at \in Running \cup {"done"} => Fired(r)
    /\ change[r].result # "none" <=> change[r].at = "done"

\* A change has one timer.
Queue == \A i, j \in DOMAIN timers : i < j => timers[i] # timers[j]

\* What the machine may start with, or have started with.
Accounted(cs, wasClean, checked, d) == d = checked \/ (~wasClean /\ d \in Suspicious(cs))

\* A backup is what the change found, unless a copy failed.
Copies ==
  \A r \in Request :
    /\ Fired(r) <=> change[r].before # None
    /\ Fired(r) /\ ~change[r].slipped => change[r].backup = change[r].before
    /\ Fired(r) => change[r].backup \in {change[r].before, Mixed}

\* Who is under way with whom, and when the machine is clean.
Company ==
  /\ backend = "device" => disk = good
  /\ \A r \in Request : Under(r) /\ clean =>
       change[r].alone /\ (change[r].slipped => change[r].at = "checked")
  /\ \A r, q \in Request : Alone(r) /\ Under(q) => q = r

\* Of a change that is alone, what is on the disk from one step of its script to the next.
\* What it found is accounted for until its own check: nobody else can check anything.
Lonely(r) ==
  /\ change[r].at = "applied" => live = disk
  /\ change[r].at = "checked" => disk = good
  /\ change[r].slipped => disk \in Traces(change[r])
  /\ ~change[r].slipped =>
       /\ disk = change[r].config
       /\ change[r].at # "checked" => Accounted(change, clean, good, change[r].before)

\* What is on the disk of a machine that is configured by netplan: while changes meet, what
\* one of them installed or found.
Backups ==
  /\ Copies /\ Company
  /\ backend = "netplan" =>
       /\ \A r \in Request : Alone(r) => Lonely(r)
       /\ \A r \in Request : Under(r) /\ ~change[r].alone => disk \in Suspicious(change)
       /\ Idle => Accounted(change, clean, good, disk)

Inv == TypeOK /\ Roles /\ Changes /\ Queue /\ Backups

\* In the beginning nothing was asked and the machine runs what it always did.
LEMMA InvInit == Init => Inv
<1> SUFFICES ASSUME Init PROVE Inv
  OBVIOUS
<1> USE DEF Init
<1>1. backend \in Backend /\ plan \in Plan
  BY DEF Plan
<1>2. req \in [Request -> Handler]
  BY DEF Handler, Wanted, Answers
<1>3. change \in [Request -> Change]
  BY DEF Change, Wanted
<1>4. timers \in Seq(Request) /\ DOMAIN timers = {}
  OBVIOUS
<1>5. /\ disk \in Found /\ live \in Found /\ good \in Found
      /\ edits \in 0..MaxEdits /\ faults \in 0..MaxFaults
  BY DEF Found
<1>6. TypeOK
  BY <1>1, <1>2, <1>3, <1>4, <1>5 DEF TypeOK, Running
<1> QED
  BY <1>4, <1>6 DEF Inv, Roles, Changes, Queue, Backups, Copies, Company, Accounted, Fired, Left,
                 Alone, Under, Running


\* A change that was disturbed stays so, with what it installed and what it found.
KeepsTraces(q) ==
  Disturbed(change[q]) =>
    /\ Disturbed(change'[q])
    /\ change'[q].config = change[q].config /\ change'[q].before = change[q].before
    /\ change[q].slipped => change'[q].slipped

\* So what was accounted for stays so, until something is checked.
LEMMA StillSuspicious ==
  ASSUME \A q \in Request : KeepsTraces(q)
  PROVE  /\ Suspicious(change) \subseteq Suspicious(change')
         /\ good' = good /\ (clean' => clean) =>
              \A d : Accounted(change, clean, good, d) => Accounted(change', clean', good', d)
<1>1. \A q \in Request : Disturbed(change[q]) =>
        Disturbed(change'[q]) /\ Traces(change[q]) \subseteq Traces(change'[q])
  BY DEF KeepsTraces, Traces
<1>2. Suspicious(change) \subseteq Suspicious(change')
  BY <1>1 DEF Suspicious
<1> QED
  BY <1>2 DEF Accounted

\* A disturbed change has left what it installed or found.
LEMMA Suspect ==
  ASSUME NEW cs, NEW r \in Request, Disturbed(cs[r])
  PROVE  Traces(cs[r]) \subseteq Suspicious(cs)
BY DEF Suspicious

\* A step of one handler that leaves the machine and the plan alone: what it knows
\* of itself is enough.
LEMMA HandlerMoves ==
  ASSUME Inv, NEW r \in Request, NEW x \in Handler,
         req' = [req EXCEPT ![r] = x],
         UNCHANGED <<backend, machine>>,
         plan' \in Plan, edits' \in 0..MaxEdits, faults' \in 0..MaxFaults, met' \in BOOLEAN,
         plan'.change # None => Left(plan'.change),
         /\ x.at \in {"new", "expect", "deploy", "session", "fetch"} => change[r].at = "none"
         /\ x.at = "commit" /\ x.status # "applying" => change[r].at = "none"
         /\ x.at \in {"expect", "deploy", "session"} => x.config \in Config
         /\ x.at = "deploy" => x.expected \in Config
         /\ x.at = "session" => backend = "device"
         /\ x.at \in {"expect", "deploy"} => backend # "device"
         /\ x.at = "fetch" => x.change \in Request /\ Left(x.change)
         /\ x.at = "commit" /\ x.status = "applying" => x.change = r /\ Left(r)
         /\ x.at = "commit" => x.status # "none"
         /\ x.at # "ended" => x.answer = "none"
  PROVE  Inv'
<1> USE DEF Inv, machine
<1>1. /\ req' \in [Request -> Handler] /\ req'[r] = x
      /\ \A q \in Request : q # r => req'[q] = req[q]
  BY DEF TypeOK
<1>2. TypeOK'
  BY <1>1 DEF TypeOK, Left, Request
<1>3. Roles'
  BY <1>1 DEF Roles, Left
<1>4. Changes' /\ Queue' /\ Backups'
  BY DEF Changes, Queue, Backups, Copies, Company, Lonely, Fired, Alone, Under, Idle
<1> QED
  BY <1>2, <1>3, <1>4

\* The steps of the handlers keep it that go nowhere near the machine.
LEMMA RequestSteps ==
  ASSUME Inv, NEW r \in Request,
         \/ BeginApply(r) \/ BeginSync(r) \/ Expect(r) \/ Commit(r) \/ CommitFails(r)
         \/ Fetch(r) \/ FetchNothing(r)
  PROVE  Inv'
<1> USE DEF Inv
<1>1. /\ req \in [Request -> Handler] /\ plan \in Plan /\ change \in [Request -> Change]
      /\ plan.wants \in Config /\ plan.change \in Request \cup {None}
      /\ plan.change # None => Left(plan.change)
      /\ edits \in 0..MaxEdits /\ faults \in 0..MaxFaults /\ met \in BOOLEAN
      /\ req[r] \in Handler
  BY DEF TypeOK, Plan, Left
<1>2. CASE BeginApply(r)
  <2> DEFINE x == [req[r] EXCEPT !.config = plan.wants,
                                 !.at = IF backend = "device" THEN "session" ELSE "expect"]
  <2>1. x \in Handler /\ x.config = plan.wants /\ x.at = (IF backend = "device" THEN "session" ELSE "expect")
        /\ x.answer = req[r].answer
    BY <1>1 DEF Handler, Wanted
  <2>2. req' = [req EXCEPT ![r] = x] /\ req[r].at = "new"
    BY <1>1, <1>2 DEF BeginApply, Arrive, Handler
  <2> HIDE DEF x
  <2>3. change[r].at = "none" /\ req[r].answer = "none" /\ UNCHANGED <<backend, machine, plan, edits, faults>>
        /\ met' \in BOOLEAN
    BY <1>1, <1>2, <2>2 DEF BeginApply, Arrive, Roles
  <2> QED
    BY <1>1, <2>1, <2>2, <2>3, HandlerMoves
<1>3. CASE BeginSync(r)
  <2> DEFINE x == [req[r] EXCEPT !.at = "fetch", !.change = plan.change]
  <2>1. x \in Handler /\ x.change = plan.change /\ x.at = "fetch" /\ x.answer = req[r].answer
    BY <1>1 DEF Handler
  <2>2. req' = [req EXCEPT ![r] = x] /\ req[r].at = "new" /\ plan.change # None
    BY <1>1, <1>3 DEF BeginSync, Arrive, Handler
  <2> HIDE DEF x
  <2>3. change[r].at = "none" /\ req[r].answer = "none" /\ UNCHANGED <<backend, machine, plan, edits, faults>>
        /\ met' \in BOOLEAN
    BY <1>1, <1>3, <2>2 DEF BeginSync, Arrive, Roles
  <2> QED
    BY <1>1, <2>1, <2>2, <2>3, HandlerMoves
<1>4. CASE Expect(r)
  <2> DEFINE x == [req[r] EXCEPT !.expected = plan.wants, !.at = "deploy"]
  <2>1. x \in Handler /\ x.expected = plan.wants /\ x.config = req[r].config /\ x.at = "deploy"
        /\ x.answer = req[r].answer
    BY <1>1 DEF Handler, Wanted
  <2>2. req' = [req EXCEPT ![r] = x] /\ req[r].at = "expect"
    BY <1>1, <1>4 DEF Expect, Handler
  <2> HIDE DEF x
  <2>3. UNCHANGED <<backend, plan, machine, edits, faults, met>>
    BY <1>4 DEF Expect
  <2>4. change[r].at = "none" /\ req[r].answer = "none" /\ backend # "device" /\ req[r].config \in Config
    BY <2>2 DEF Roles
  <2> QED
    BY <1>1, <2>1, <2>2, <2>3, <2>4, HandlerMoves
<1>5. ASSUME NEW a \in Answers, Answer(r, a), UNCHANGED <<backend, machine>>,
             plan' \in Plan, edits' \in 0..MaxEdits, faults' \in 0..MaxFaults, met' \in BOOLEAN,
             plan'.change # None => Left(plan'.change)
      PROVE  Inv'
  <2> DEFINE x == [at |-> "ended", config |-> None, expected |-> None,
                   change |-> None, status |-> "none", answer |-> a]
  <2>1. x \in Handler /\ x.at = "ended"
    BY <1>5 DEF Handler, Wanted
  <2>2. req' = [req EXCEPT ![r] = x]
    BY <1>5 DEF Answer
  <2> HIDE DEF x
  <2> QED
    BY <1>5, <2>1, <2>2, HandlerMoves
<1>6. CASE Commit(r)
  <2>1. plan' \in Plan /\ (plan'.change = plan.change \/ (plan'.change = r /\ Left(r)))
    BY <1>1, <1>6 DEF Commit, Plan, Handler, Roles
  <2> QED
    BY <1>1, <1>5, <1>6, <2>1 DEF Commit, Answers
<1>7. CASE CommitFails(r)
  BY <1>1, <1>5, <1>7 DEF CommitFails, Answers, Fault
<1>8. CASE Fetch(r)
  <2> DEFINE c == req[r].change
             x == [req[r] EXCEPT !.at = "commit", !.status = change[c].result]
  <2>1. c \in Request /\ req[r].at = "fetch" /\ change[c].result \in {"applied", "rolled_back"}
        /\ UNCHANGED <<backend, plan, machine, edits, faults, met>>
    BY <1>1, <1>8 DEF Fetch, Roles, Change
  <2>2. x \in Handler /\ x.at = "commit" /\ x.status = change[c].result /\ x.answer = req[r].answer
    BY <1>1, <2>1 DEF Handler
  <2>3. req' = [req EXCEPT ![r] = x]
    BY <1>1, <1>8 DEF Fetch
  <2>4. change[r].at = "none" /\ req[r].answer = "none"
    BY <2>1 DEF Roles
  <2> HIDE DEF x
  <2> QED
    BY <1>1, <2>1, <2>2, <2>3, <2>4, HandlerMoves
<1>9. CASE FetchNothing(r)
  BY <1>1, <1>5, <1>9 DEF FetchNothing, Answers
<1> QED
  BY <1>2, <1>3, <1>4, <1>6, <1>7, <1>8, <1>9

\* What one more timer at the end of the queue is, and what is left when the first
\* one has run out.
LEMMA OneMoreTimer ==
  ASSUME timers \in Seq(Request), NEW r \in Request
  PROVE  /\ Append(timers, r) \in Seq(Request)
         /\ DOMAIN Append(timers, r) = DOMAIN timers \cup {Len(timers) + 1}
         /\ Append(timers, r)[Len(timers) + 1] = r
         /\ \A i \in DOMAIN timers : i < Len(timers) + 1 /\ Append(timers, r)[i] = timers[i]
         /\ DOMAIN timers \subseteq Nat /\ Len(timers) \in Nat
         /\ \A i \in DOMAIN timers : timers[i] \in Request
<1>1. DOMAIN timers = 1..Len(timers) /\ Len(timers) \in Nat
  OBVIOUS
<1>2. DOMAIN Append(timers, r) = 1..Len(timers) + 1
  OBVIOUS
<1> QED
  BY <1>1, <1>2

LEMMA OneTimerLess ==
  ASSUME timers \in Seq(Request), timers # <<>>
  PROVE  /\ Tail(timers) \in Seq(Request) /\ Head(timers) \in Request
         /\ 1 \in DOMAIN timers /\ Head(timers) = timers[1] /\ DOMAIN timers \subseteq Nat
         /\ \A i \in DOMAIN timers : i # 1 => i - 1 \in DOMAIN Tail(timers) /\ Tail(timers)[i - 1] = timers[i]
         /\ \A i \in DOMAIN Tail(timers) : i \in Nat /\ i + 1 \in DOMAIN timers /\ 1 < i + 1
                                           /\ Tail(timers)[i] = timers[i + 1]
<1>1. DOMAIN timers = 1..Len(timers) /\ Len(timers) \in Nat /\ Len(timers) > 0
  OBVIOUS
<1>2. DOMAIN Tail(timers) = 1..Len(timers) - 1
  OBVIOUS
<1> QED
  BY <1>1, <1>2

\* A change is brought to the machine, with its timer or, when that failed, in part.
LEMMA Delivered ==
  ASSUME Inv, NEW r \in Request, req[r].at = "deploy",
         NEW at \in {"none", "partial", "armed"}, Leave(r, at), backend' = backend
  PROVE  /\ change' \in [Request -> Change] /\ change'[r].at = at
         /\ \A q \in Request : q # r => change'[q] = change[q]
         /\ \A q \in Request : q # r => change'[q].at = change[q].at
         /\ change'[r].backup = None /\ change[r].at = "none"
         /\ change'[r].before = change[r].before /\ change'[r].slipped = change[r].slipped
         /\ change'[r].alone = change[r].alone /\ change[r].backup = None
         /\ timers' \in Seq(Request) /\ Changes' /\ Queue'
         /\ \A q \in Request : change'[q].at = "armed" <=> \E i \in DOMAIN timers' : timers'[i] = q
         /\ \A q \in Request : change[q].at \notin {"none", "partial"} => change'[q].at \notin {"none", "partial"}
         /\ \A q \in Request : change'[q].at \in Running => change'[q] = change[q]
         /\ backend # "device"
<1> USE DEF Inv
<1>1. /\ req[r].config \in Config /\ req[r].expected \in Config /\ change[r].at = "none"
      /\ backend # "device" /\ change \in [Request -> Change] /\ change[r] \in Change
      /\ change[r].backup = None /\ change[r].result = "none" /\ timers \in Seq(Request)
  BY DEF Roles, Changes, TypeOK, Fired
<1> DEFINE x == [change[r] EXCEPT !.at = at, !.config = req[r].config, !.expected = req[r].expected]
<1>2. /\ x \in Change /\ x.at = at /\ x.config = req[r].config /\ x.expected = req[r].expected
      /\ x.backup = None /\ x.result = "none" /\ x.before = change[r].before
      /\ x.slipped = change[r].slipped /\ x.alone = change[r].alone
  BY <1>1 DEF Change, Wanted
<1>3. change' = [change EXCEPT ![r] = x]
  BY <1>1 DEF Leave, Change
<1> HIDE DEF x
<1>4. /\ change' \in [Request -> Change] /\ change'[r] = x
      /\ \A q \in Request : q # r => change'[q] = change[q]
  BY <1>1, <1>2, <1>3
<1>5. /\ timers' \in Seq(Request) /\ Queue'
      /\ \A q \in Request : change'[q].at = "armed" <=> \E i \in DOMAIN timers' : timers'[i] = q
  <2>1. \A q \in Request : change[q].at = "armed" <=> \E i \in DOMAIN timers : timers[i] = q
    BY DEF TypeOK
  <2>2. CASE at = "armed"
    <3>1. timers' = Append(timers, r)
      BY <2>2 DEF Leave
    <3> QED
      BY <1>1, <1>2, <1>4, <2>1, <2>2, <3>1, OneMoreTimer DEF Queue
  <2>3. CASE at # "armed"
    <3>1. timers' = timers
      BY <2>3 DEF Leave
    <3> QED
      BY <1>1, <1>2, <1>4, <2>1, <2>3, <3>1 DEF Queue
  <2> QED
    BY <2>2, <2>3
<1>6. Changes'
  BY <1>1, <1>2, <1>4 DEF Changes, Fired, Running
<1> QED
  BY <1>1, <1>2, <1>4, <1>5, <1>6 DEF Running

\* A handler that brings a change to the machine keeps it.
LEMMA DeploySteps ==
  ASSUME Inv, NEW r \in Request, DeployBundle(r) \/ DeployBundleFails(r)
  PROVE  Inv'
<1> USE DEF Inv
<1>1. /\ req \in [Request -> Handler] /\ req[r] \in Handler /\ req[r].at = "deploy"
      /\ plan.change # None => Left(plan.change)
      /\ plan.change \in Request \cup {None} /\ change \in [Request -> Change]
      /\ UNCHANGED <<backend, plan, disk, live, good, clean, edits, met>>
      /\ faults \in 0..MaxFaults
  BY DEF TypeOK, Plan, Left, DeployBundle, DeployBundleFails
<1>2. PICK at \in {"none", "partial", "armed"}, x \in Handler :
        /\ Leave(r, at) /\ req' = [req EXCEPT ![r] = x]
        /\ x.at = "ended" \/ (x.at = "commit" /\ x.change = r /\ x.status = "applying" /\ at = "armed"
                             /\ x.answer = "none")
        /\ faults' \in 0..MaxFaults
  <2>1. CASE DeployBundle(r)
    <3> DEFINE x == [req[r] EXCEPT !.at = "commit", !.change = r, !.status = "applying"]
    <3>1. x \in Handler /\ x.at = "commit" /\ x.change = r /\ x.status = "applying" /\ x.answer = req[r].answer
      BY <1>1 DEF Handler
    <3>2. req' = [req EXCEPT ![r] = x]
      BY <1>1, <2>1 DEF DeployBundle
    <3>3. req[r].answer = "none"
      BY <1>1 DEF Roles
    <3> HIDE DEF x
    <3> QED
      BY <1>1, <2>1, <3>1, <3>2, <3>3 DEF DeployBundle
  <2>2. CASE DeployBundleFails(r)
    <3> DEFINE x == [at |-> "ended", config |-> None, expected |-> None,
                     change |-> None, status |-> "none", answer |-> "refused"]
    <3>1. x \in Handler /\ x.at = "ended"
      BY DEF Handler, Wanted, Answers
    <3>2. req' = [req EXCEPT ![r] = x] /\ faults' \in 0..MaxFaults
      BY <1>1, <2>2 DEF DeployBundleFails, Answer, Fault
    <3>3. PICK at \in {"none", "partial", "armed"} : Leave(r, at)
      BY <2>2 DEF DeployBundleFails
    <3> HIDE DEF x
    <3> QED
      BY <1>1, <3>1, <3>2, <3>3
  <2> QED
    BY <2>1, <2>2
<1>3. /\ change' \in [Request -> Change] /\ change'[r].at = at
      /\ \A q \in Request : q # r => change'[q] = change[q]
      /\ \A q \in Request : q # r => change'[q].at = change[q].at
      /\ change'[r].backup = None /\ change[r].at = "none"
      /\ change'[r].before = change[r].before /\ change'[r].slipped = change[r].slipped
      /\ change'[r].alone = change[r].alone /\ change[r].backup = None
      /\ timers' \in Seq(Request) /\ Changes' /\ Queue'
      /\ \A q \in Request : change'[q].at = "armed" <=> \E i \in DOMAIN timers' : timers'[i] = q
      /\ \A q \in Request : change[q].at \notin {"none", "partial"} => change'[q].at \notin {"none", "partial"}
      /\ \A q \in Request : change'[q].at \in Running => change'[q] = change[q]
      /\ backend # "device"
  BY ONLY <1>1, <1>2, Delivered, Inv
<1>4. /\ req' \in [Request -> Handler] /\ req'[r] = x
      /\ \A q \in Request : q # r => req'[q] = req[q]
  BY <1>1, <1>2
<1>5. TypeOK'
  <2>1. \A q \in Request : change'[q].at \in Running => change'[q].backup # None
    BY <1>3 DEF TypeOK
  <2> QED
    BY <1>1, <1>2, <1>3, <1>4, <2>1 DEF TypeOK, Left
<1>6. Roles'
  BY <1>1, <1>2, <1>3, <1>4 DEF Roles, Left
<1>7. Backups'
  <2>1. \A q \in Request : (Under(q)' <=> Under(q)) /\ (Under(q) => change'[q] = change[q])
    BY <1>1, <1>3 DEF Under, Running
  <2>2. Copies'
    BY <1>3 DEF Backups, Copies, Fired
  <2>3. \A q \in Request : KeepsTraces(q)
    BY <1>3, <2>2 DEF Backups, Copies, Fired, KeepsTraces, Disturbed
  <2>4. /\ Suspicious(change) \subseteq Suspicious(change')
        /\ \A d : Accounted(change, clean, good, d) => Accounted(change', clean', good', d)
    BY <1>1, <2>3, StillSuspicious
  <2>5. Company'
    BY <1>1, <2>1 DEF Backups, Company, Alone
  <2>6. \A q \in Request : Alone(q)' /\ backend = "netplan" => Lonely(q)'
    <3>1. ASSUME NEW q \in Request, Alone(q)', backend = "netplan" PROVE Lonely(q)'
      <4>1. Lonely(q) /\ change'[q] = change[q]
        BY <2>1, <3>1 DEF Backups, Alone
      <4> QED
        BY <1>1, <2>4, <4>1 DEF Lonely
    <3> QED
      BY <3>1
  <2>7. Idle' => Idle
    BY <2>1 DEF Idle
  <2>8. backend = "netplan" => \A q \in Request : Under(q)' /\ ~change'[q].alone => disk' \in Suspicious(change')
    BY <1>1, <2>1, <2>4 DEF Backups
  <2> HIDE DEF Inv
  <2>9. Idle' /\ backend = "netplan" => Accounted(change', clean', good', disk')
    BY <1>1, <2>4, <2>7 DEF Inv, Backups
  <2> QED
    BY <1>1, <2>2, <2>5, <2>6, <2>8, <2>9 DEF Backups
<1> QED
  BY <1>3, <1>5, <1>6, <1>7

\* A handler in a session with a switch keeps it: only what was verified is saved.
LEMMA SessionSteps ==
  ASSUME Inv, NEW r \in Request, Session(r) \/ SessionRejected(r) \/ SessionBreaks(r)
  PROVE  Inv'
<1> USE DEF Inv
<1>1. /\ req \in [Request -> Handler] /\ req[r] \in Handler /\ req[r].at = "session"
      /\ backend = "device" /\ req[r].config \in Config /\ req[r].answer = "none"
      /\ change[r].at = "none" /\ change \in [Request -> Change]
      /\ \A q \in Request : change[q].at = "none"
      /\ UNCHANGED <<backend, plan, change, timers, edits, met>>
      /\ faults \in 0..MaxFaults /\ disk = good
  BY DEF TypeOK, Session, SessionRejected, SessionBreaks, Roles, Changes, Backups, Company
<1>2. PICK x \in Handler :
        /\ req' = [req EXCEPT ![r] = x]
        /\ x.at = "ended" \/ (x.at = "commit" /\ x.status \in {"applied", "rolled_back", "failed"}
                             /\ x.answer = "none")
        /\ faults' \in 0..MaxFaults /\ live' \in Found /\ disk' \in Found
        /\ disk' = good' /\ clean' \in BOOLEAN
  <2>1. ASSUME NEW st \in {"applied", "rolled_back", "failed"},
               req' = [req EXCEPT ![r].at = "commit", ![r].status = st]
        PROVE  \E x \in Handler : /\ req' = [req EXCEPT ![r] = x] /\ x.at = "commit" /\ x.status = st
                                  /\ x.answer = "none"
    <3> DEFINE x == [req[r] EXCEPT !.at = "commit", !.status = st]
    <3>1. x \in Handler /\ x.at = "commit" /\ x.status = st /\ x.answer = "none"
      BY <1>1 DEF Handler
    <3>2. req' = [req EXCEPT ![r] = x]
      BY <1>1, <2>1
    <3> HIDE DEF x
    <3> QED
      BY <3>1, <3>2
  <2>2. CASE Session(r)
    <3>1. PICK arrived \in {req[r].config, Mixed}, saved \in BOOLEAN :
            /\ live' = arrived
            /\ disk' = (IF saved THEN arrived ELSE disk)
            /\ good' = (IF saved THEN arrived ELSE good)
            /\ clean' = (clean \/ saved)
            /\ req' = [req EXCEPT ![r].at = "commit",
                                  ![r].status = IF arrived = Mixed THEN "failed" ELSE "applied"]
      BY <2>2 DEF Session
    <3>2. arrived \in Found /\ disk \in Found /\ clean \in BOOLEAN /\ faults' = faults
      BY <1>1, <2>2 DEF Found, TypeOK, Session
    <3>3. disk' \in Found /\ live' \in Found /\ disk' = good' /\ clean' \in BOOLEAN
      BY <1>1, <3>1, <3>2
    <3> QED
      BY <1>1, <2>1, <3>1, <3>2, <3>3
  <2>3. CASE SessionRejected(r)
    BY <1>1, <2>1, <2>3 DEF SessionRejected, TypeOK, Found
  <2>4. CASE SessionBreaks(r)
    <3> DEFINE x == [at |-> "ended", config |-> None, expected |-> None,
                     change |-> None, status |-> "none", answer |-> "error"]
    <3>1. x \in Handler /\ x.at = "ended"
      BY DEF Handler, Wanted, Answers
    <3>2. req' = [req EXCEPT ![r] = x] /\ faults' \in 0..MaxFaults
      BY <1>1, <2>4 DEF SessionBreaks, Answer, Fault
    <3> HIDE DEF x
    <3>3. disk \in Found /\ live' \in Found /\ UNCHANGED <<disk, good, clean>> /\ clean \in BOOLEAN
      BY <1>1, <2>4 DEF SessionBreaks, TypeOK, Found
    <3> QED
      BY <1>1, <3>1, <3>2, <3>3
  <2> QED
    BY <2>2, <2>3, <2>4
<1>3. /\ req' \in [Request -> Handler] /\ req'[r] = x
      /\ \A q \in Request : q # r => req'[q] = req[q]
  BY <1>1, <1>2
<1>4. TypeOK'
  BY <1>1, <1>2, <1>3 DEF TypeOK
<1>5. Roles' /\ Changes' /\ Queue'
  BY <1>1, <1>2, <1>3 DEF Roles, Changes, Queue, Left, Fired
<1>6. Backups'
  <2>1. \A q \in Request : ~Under(q)'
    BY <1>1 DEF Under, Running
  <2>2. Copies'
    BY <1>1 DEF Backups, Copies, Fired
  <2>3. Company'
    BY <1>1, <1>2, <2>1 DEF Company, Alone
  <2> QED
    BY <1>1, <2>1, <2>2, <2>3 DEF Backups
<1> QED
  BY <1>4, <1>5, <1>6

\* A step of a script that is under way.
Goes(r) ==
  \/ Apply(r) \/ ApplyFails(r) \/ Check(r) \/ CheckFails(r) \/ Rollback(r) \/ RollbackSlips(r)
  \/ Finish(r)

\* Such a step brings r's change to y.
Brings(r, y) ==
  /\ change' = [change EXCEPT ![r] = y]
  /\ y.config = change[r].config /\ y.expected = change[r].expected
  /\ y.backup = change[r].backup /\ y.before = change[r].before /\ y.alone = change[r].alone
  /\ y.slipped <=> change[r].slipped \/ RollbackSlips(r)
  /\ \/ Apply(r) /\ y.at = "applied" /\ y.result = "none"
     \/ ApplyFails(r) /\ y.at = "undo" /\ y.result = "none"
     \/ Check(r) /\ y.at = "checked" /\ y.result = "none"
     \/ CheckFails(r) /\ y.at = "undo" /\ y.result = "none"
     \/ (Rollback(r) \/ RollbackSlips(r)) /\ y.at = "done" /\ y.result = "rolled_back"
     \/ Finish(r) /\ y.at = "done" /\ y.result = "applied"

\* What a step of a script finds and leaves alone.
LEMMA ScriptFinds ==
  ASSUME Inv, NEW r \in Request, Goes(r)
  PROVE  /\ change \in [Request -> Change] /\ change[r] \in Change /\ Under(r)
         /\ disk \in Found /\ live \in Found /\ good \in Found /\ clean \in BOOLEAN
         /\ change[r].config \in Config /\ change[r].expected \in Config
         /\ change[r].result = "none" /\ change[r].backup \in Found
         /\ change[r].alone \in BOOLEAN /\ change[r].slipped \in BOOLEAN
         /\ Config \subseteq Found /\ Mixed \in Found /\ backend # "device"
         /\ UNCHANGED <<backend, plan, req, edits, met, timers>> /\ faults' \in 0..MaxFaults
<1>1. /\ change \in [Request -> Change] /\ Under(r) /\ faults \in 0..MaxFaults
      /\ disk \in Found /\ live \in Found /\ good \in Found /\ clean \in BOOLEAN
  BY DEF Inv, TypeOK, Goes, Apply, ApplyFails, Check, CheckFails, Rollback, RollbackSlips, Finish,
         Under, Running
<1>2. UNCHANGED <<backend, plan, req, edits, met, timers>> /\ faults' \in 0..MaxFaults
  BY <1>1 DEF Goes, Apply, ApplyFails, Check, CheckFails, Rollback, RollbackSlips, Finish, requests,
              Fault
<1>3. change[r] \in Change /\ change[r].backup # None
  BY <1>1 DEF Inv, TypeOK, Under
<1>4. /\ change[r].alone \in BOOLEAN /\ change[r].slipped \in BOOLEAN
      /\ change[r].backup \in Found /\ Config \subseteq Found /\ Mixed \in Found
  BY <1>3 DEF Change, Found
<1> QED
  BY <1>1, <1>2, <1>3, <1>4 DEF Inv, Changes, Under, Running

\* One step of a script that is under way, and where it brings the change.
LEMMA ScriptShape ==
  ASSUME Inv, NEW r \in Request, Goes(r)
  PROVE  \E y \in Change : Brings(r, y)
<1>1. change \in [Request -> Change] /\ change[r] \in Change /\ change[r].result = "none"
  BY ScriptFinds
<1>2. ASSUME NEW at \in Running, Reach(r, at), ~RollbackSlips(r),
             \/ Apply(r) /\ at = "applied"
             \/ ApplyFails(r) /\ at = "undo"
             \/ Check(r) /\ at = "checked"
             \/ CheckFails(r) /\ at = "undo"
      PROVE  \E y \in Change : Brings(r, y)
  <2> DEFINE y == [change[r] EXCEPT !.at = at]
  <2>1. /\ y \in Change /\ y.config = change[r].config /\ y.expected = change[r].expected
        /\ y.backup = change[r].backup /\ y.before = change[r].before /\ y.alone = change[r].alone
        /\ y.slipped = change[r].slipped /\ y.at = at /\ y.result = "none"
    BY <1>1 DEF Change, Running
  <2>2. change' = [change EXCEPT ![r] = y]
    BY <1>1, <1>2 DEF Reach
  <2> HIDE DEF y
  <2> QED
    BY <1>2, <2>1, <2>2 DEF Brings
<1>3. ASSUME NEW res \in {"applied", "rolled_back"}, ~RollbackSlips(r),
             change' = [change EXCEPT ![r].at = "done", ![r].result = res],
             (Rollback(r) /\ res = "rolled_back") \/ (Finish(r) /\ res = "applied")
      PROVE  \E y \in Change : Brings(r, y)
  <2> DEFINE y == [change[r] EXCEPT !.at = "done", !.result = res]
  <2>1. /\ y \in Change /\ y.config = change[r].config /\ y.expected = change[r].expected
        /\ y.backup = change[r].backup /\ y.before = change[r].before /\ y.alone = change[r].alone
        /\ y.slipped = change[r].slipped /\ y.at = "done" /\ y.result = res
    BY <1>1 DEF Change, Running
  <2>2. change' = [change EXCEPT ![r] = y]
    BY <1>1, <1>3
  <2> HIDE DEF y
  <2> QED
    BY <1>3, <2>1, <2>2 DEF Brings
<1>4. ASSUME RollbackSlips(r) PROVE \E y \in Change : Brings(r, y)
  <2> DEFINE y == [change[r] EXCEPT !.at = "done", !.result = "rolled_back", !.slipped = TRUE]
  <2>1. /\ y \in Change /\ y.config = change[r].config /\ y.expected = change[r].expected
        /\ y.backup = change[r].backup /\ y.before = change[r].before /\ y.alone = change[r].alone
        /\ y.slipped = TRUE /\ y.at = "done" /\ y.result = "rolled_back"
    BY <1>1 DEF Change, Running
  <2>2. change' = [change EXCEPT ![r] = y]
    BY <1>1, <1>4 DEF RollbackSlips
  <2> HIDE DEF y
  <2> QED
    BY <1>4, <2>1, <2>2 DEF Brings
<1>5. RollbackSlips(r) => change[r].at = "undo"
  BY DEF RollbackSlips
<1>6. CASE Apply(r)
  BY <1>2, <1>5, <1>6 DEF Apply, Running
<1>7. CASE Check(r)
  BY <1>2, <1>5, <1>7 DEF Check, Running
<1>8. CASE ApplyFails(r)
  BY <1>2, <1>5, <1>8 DEF ApplyFails, Running
<1>9. CASE CheckFails(r)
  BY <1>2, <1>5, <1>9 DEF CheckFails, Running
<1>10. CASE Rollback(r) /\ ~RollbackSlips(r)
  BY <1>3, <1>10 DEF Rollback
<1>11. CASE Finish(r)
  BY <1>3, <1>5, <1>11 DEF Finish
<1> QED
  BY <1>4, <1>6, <1>7, <1>8, <1>9, <1>10, <1>11 DEF Goes

\* A step of a script that is under way moves its own change and nothing else.
LEMMA ScriptMoves ==
  ASSUME Inv, NEW r \in Request, Goes(r), NEW y \in Change, Brings(r, y),
         disk' \in Found, live' \in Found, good' \in Found, clean' \in BOOLEAN
  PROVE  /\ TypeOK' /\ Roles' /\ Changes' /\ Queue' /\ Copies'
         /\ change'[r] = y /\ \A q \in Request : q # r => change'[q] = change[q]
         /\ \A q \in Request : q # r => (Under(q)' <=> Under(q))
         /\ change[r].alone => \A q \in Request : q # r => ~Under(q)
         /\ \A q \in Request : KeepsTraces(q)
<1> USE DEF Inv
<1>1. /\ change \in [Request -> Change] /\ change[r] \in Change /\ Under(r)
      /\ UNCHANGED <<backend, plan, req, edits, met, timers>> /\ faults' \in 0..MaxFaults
      /\ backend # "device" /\ change[r].config \in Config /\ change[r].expected \in Config
  BY ScriptFinds
<1>2. /\ change' \in [Request -> Change] /\ change'[r] = y
      /\ \A q \in Request : q # r => change'[q] = change[q]
  BY <1>1 DEF Brings
<1>3. \A q \in Request : q # r => (Under(q)' <=> Under(q))
  BY <1>2 DEF Under
<1>4. /\ y.config = change[r].config /\ y.expected = change[r].expected
      /\ y.backup = change[r].backup /\ y.before = change[r].before /\ y.alone = change[r].alone
      /\ change[r].slipped => y.slipped
      /\ y.at \in Running \cup {"done"} /\ (y.result # "none" <=> y.at = "done")
  BY DEF Brings, Running
<1>5. /\ change[r].at \notin {"none", "partial", "armed", "dead"}
      /\ y.at \notin {"none", "partial", "armed", "dead"}
      /\ change[r].backup # None
  BY <1>1, <1>4 DEF Under, Running, TypeOK
<1>6. TypeOK'
  <2>1. \A q \in Request : change'[q].at \in Running => change'[q].backup # None
    BY <1>2, <1>4, <1>5 DEF TypeOK
  <2>2. \A q \in Request : change'[q].at = "armed" <=> change[q].at = "armed"
    BY <1>2, <1>5
  <2>3. plan.change # None => change'[plan.change].at \notin {"none", "partial"}
    BY <1>2, <1>5 DEF TypeOK, Plan
  <2> QED
    BY <1>1, <1>2, <2>1, <2>2, <2>3 DEF TypeOK
<1>7. Roles'
  <2>1. \A q \in Request : (Left(q) => Left(q)') /\ (change[q].at = "none" => change'[q].at = "none")
    BY <1>2, <1>5 DEF Left
  <2> QED
    BY <1>1, <2>1 DEF Roles
<1>8. Changes'
  BY <1>1, <1>2, <1>4, <1>5 DEF Changes, Fired
<1>9. Queue'
  BY <1>1 DEF Queue
<1>10. Copies'
  BY <1>2, <1>4 DEF Backups, Copies, Fired
<1>11. \A q \in Request : KeepsTraces(q)
  BY <1>2, <1>4, <1>5 DEF KeepsTraces, Disturbed
<1> QED
  BY <1>1, <1>2, <1>3, <1>6, <1>7, <1>8, <1>9, <1>10, <1>11 DEF Backups, Company, Alone

\* What a step of a script does to the disk of a machine that netplan configures: only a
\* rollback puts something else there.
LEMMA ScriptWrites ==
  ASSUME Inv, NEW r \in Request, Goes(r), NEW y \in Change, Brings(r, y), backend = "netplan"
  PROVE  /\ y.at # "done" \/ y.result = "applied" => disk' = disk
         /\ y.at = "applied" => live' = disk
         /\ y.at = "checked" => good' = live /\ change[r].at = "applied"
         /\ y.at # "checked" => good' = good /\ (clean' => clean)
         /\ y.at = "done" /\ y.result = "applied" => change[r].at = "checked"
         /\ y.at = "done" /\ y.result # "applied" => change[r].at = "undo"
         /\ y.at = "done" /\ y.result # "applied" /\ ~y.slipped =>
              disk' = change[r].before
         /\ y.at = "done" /\ y.result # "applied" /\ y.slipped =>
              disk' \in {change[r].before, Mixed, disk}
         /\ y.slipped /\ ~change[r].slipped => ~clean' /\ y.at = "done"
         /\ change[r].at \in Running
         /\ clean' => clean \/ (change[r].alone /\ y.at = "checked")
<1>1. /\ Under(r) /\ backend' = backend /\ clean \in BOOLEAN
      /\ change[r].alone \in BOOLEAN /\ change[r].slipped \in BOOLEAN
  BY ScriptFinds
<1>2. /\ ~change[r].slipped => change[r].backup = change[r].before
      /\ change[r].backup \in {change[r].before, Mixed}
  BY <1>1 DEF Inv, Changes, Under, Backups, Copies
<1>3. y.slipped <=> change[r].slipped \/ RollbackSlips(r)
  BY DEF Brings
<1>4. RollbackSlips(r) => change[r].at = "undo" /\ disk' = Mixed /\ ~clean' /\ good' = good
  BY DEF RollbackSlips, Restore, ApplyCmd
<1>5. CASE Apply(r) /\ y.at = "applied" /\ y.result = "none"
  BY <1>1, <1>3, <1>4, <1>5 DEF Apply, ApplyCmd, Running
<1>6. CASE ApplyFails(r) /\ y.at = "undo" /\ y.result = "none"
  BY <1>1, <1>3, <1>4, <1>6 DEF ApplyFails, ApplyCmd, Running
<1>7. CASE Check(r) /\ y.at = "checked" /\ y.result = "none"
  BY <1>1, <1>3, <1>4, <1>7 DEF Check, Running
<1>8. CASE CheckFails(r) /\ y.at = "undo" /\ y.result = "none"
  BY <1>1, <1>3, <1>4, <1>8 DEF CheckFails, Running
<1>9. CASE Finish(r) /\ y.at = "done" /\ y.result = "applied"
  BY <1>1, <1>3, <1>4, <1>9 DEF Finish, Running
<1>10. CASE RollbackSlips(r) /\ y.at = "done" /\ y.result = "rolled_back"
  BY <1>1, <1>3, <1>4, <1>10 DEF Running
<1>11. CASE Rollback(r) /\ y.at = "done" /\ y.result = "rolled_back" /\ ~RollbackSlips(r)
  <2>1. PICK files \in Restored(r) : Restore(r, files)
    BY <1>11 DEF Rollback
  <2>2. disk' = files
    BY <2>1 DEF Restore, ApplyCmd
  <2>3. files = change[r].backup \/ (change[r].slipped /\ files = disk)
    BY <2>1 DEF Restored
  <2>4. change[r].at = "undo" /\ good' = good /\ clean' = clean
    BY <1>11 DEF Rollback
  <2> QED
    BY <1>1, <1>2, <1>3, <1>11, <2>2, <2>3, <2>4 DEF Running
<1> QED
  BY <1>5, <1>6, <1>7, <1>8, <1>9, <1>10, <1>11 DEF Brings

\* The steps of a script that is under way keep it.
LEMMA ScriptSteps ==
  ASSUME Inv, NEW r \in Request, Goes(r)
  PROVE  Inv'
<1>1. /\ change \in [Request -> Change] /\ change[r] \in Change /\ Under(r)
      /\ disk \in Found /\ live \in Found /\ good \in Found /\ clean \in BOOLEAN
      /\ change[r].config \in Config /\ change[r].expected \in Config
      /\ change[r].result = "none" /\ change[r].backup \in Found
      /\ change[r].alone \in BOOLEAN /\ change[r].slipped \in BOOLEAN
      /\ Config \subseteq Found /\ Mixed \in Found /\ backend # "device"
      /\ UNCHANGED <<backend, plan, req, edits, met, timers>>
  BY ScriptFinds
<1>2. PICK y \in Change : Brings(r, y)
  BY ScriptShape
<1>3. disk' \in Found /\ live' \in Found /\ good' \in Found /\ clean' \in BOOLEAN
  <2>1. CASE Apply(r) \/ ApplyFails(r)
    BY <1>1, <2>1 DEF Apply, ApplyFails, ApplyCmd
  <2>2. CASE Check(r) \/ CheckFails(r) \/ Finish(r)
    BY <1>1, <2>2 DEF Check, CheckFails, Finish
  <2>3. CASE Rollback(r)
    BY <1>1, <2>3 DEF Rollback, Restored, Restore, ApplyCmd
  <2>4. CASE RollbackSlips(r)
    BY <1>1, <2>4 DEF RollbackSlips, Restore, ApplyCmd
  <2> QED
    BY <2>1, <2>2, <2>3, <2>4 DEF Goes
<1>4. /\ TypeOK' /\ Roles' /\ Changes' /\ Queue' /\ Copies'
      /\ change'[r] = y /\ \A q \in Request : q # r => change'[q] = change[q]
      /\ \A q \in Request : q # r => (Under(q)' <=> Under(q))
      /\ change[r].alone => \A q \in Request : q # r => ~Under(q)
      /\ \A q \in Request : KeepsTraces(q)
  BY <1>2, <1>3, ScriptMoves
<1>5. /\ y.config = change[r].config /\ y.before = change[r].before /\ y.alone = change[r].alone
      /\ change[r].slipped => y.slipped
      /\ y.at \in Running \cup {"done"}
  BY <1>2 DEF Brings, Running
<1>6. Company'
  <2>1. \A q \in Request : Under(q)' => Under(q)
    BY <1>1, <1>4
  <2>2. \A p, q \in Request : Alone(p)' /\ Under(q)' => q = p
    <3>1. \A p \in Request : Alone(p)' => Alone(p)
      BY <1>1, <1>4, <1>5 DEF Alone
    <3> QED
      BY <2>1, <3>1 DEF Inv, Backups, Company
  <2>3. \A q \in Request : Under(q)' /\ clean' =>
          change'[q].alone /\ (change'[q].slipped => change'[q].at = "checked")
    <3>1. clean' => clean \/ (change[r].alone /\ y.at = "checked")
      BY <1>1, <1>2 DEF Brings, Goes, Apply, ApplyFails, Check, CheckFails, Rollback, RollbackSlips,
                        Finish
    <3>2. ASSUME clean', Under(r)' PROVE y.alone /\ (y.slipped => y.at = "checked")
      <4>1. CASE clean
        <5>1. change[r].alone /\ (change[r].slipped => change[r].at = "checked")
          BY <1>1, <4>1 DEF Inv, Backups, Company
        <5>2. change[r].at = "checked" => y.at \in {"done", "checked"}
          BY <1>2 DEF Brings, Apply, ApplyFails, Check, CheckFails, Rollback, RollbackSlips, Finish
        <5>3. ~RollbackSlips(r)
          BY <3>2 DEF RollbackSlips
        <5>4. y.slipped <=> change[r].slipped
          BY <1>2, <5>3 DEF Brings
        <5>5. y.at # "done"
          BY <1>4, <3>2 DEF Under, Running
        <5> QED
          BY <1>5, <5>1, <5>2, <5>4, <5>5
      <4>2. CASE ~clean
        BY <1>5, <3>1, <3>2, <4>2
      <4> QED
        BY <4>1, <4>2
    <3>3. ASSUME clean', NEW q \in Request, q # r, Under(q)
          PROVE  change[q].alone /\ (change[q].slipped => change[q].at = "checked")
      <4>1. clean
        BY <1>4, <3>1, <3>3
      <4> QED
        BY <3>3, <4>1 DEF Inv, Backups, Company
    <3> QED
      BY <1>4, <3>2, <3>3
  <2> QED
    BY <1>1, <2>2, <2>3 DEF Company
<1>7. ASSUME backend = "netplan"
      PROVE  /\ \A q \in Request : Alone(q)' => Lonely(q)'
             /\ \A q \in Request : Under(q)' /\ ~change'[q].alone => disk' \in Suspicious(change')
             /\ Idle' => Accounted(change', clean', good', disk')
  <2>1. /\ y.at # "done" \/ y.result = "applied" => disk' = disk
        /\ y.at = "applied" => live' = disk
        /\ y.at = "checked" => good' = live /\ change[r].at = "applied"
        /\ y.at # "checked" => good' = good /\ (clean' => clean)
        /\ y.at = "done" /\ y.result = "applied" => change[r].at = "checked"
        /\ y.at = "done" /\ y.result # "applied" => change[r].at = "undo"
        /\ y.at = "done" /\ y.result # "applied" /\ ~y.slipped => disk' = change[r].before
        /\ y.at = "done" /\ y.result # "applied" /\ y.slipped =>
             disk' \in {change[r].before, Mixed, disk}
        /\ y.slipped /\ ~change[r].slipped => ~clean' /\ y.at = "done"
        /\ change[r].at \in Running
        /\ clean' => clean \/ (change[r].alone /\ y.at = "checked")
    BY <1>2, <1>7, ScriptWrites
  <2>2. /\ Suspicious(change) \subseteq Suspicious(change')
        /\ y.at # "checked" => \A d : Accounted(change, clean, good, d) => Accounted(change', clean', good', d)
    BY <1>4, <2>1, StillSuspicious
  <2>3. y.before # None
    BY <1>1, <1>5 DEF Inv, Changes, Under, Backups, Copies
  <2>4. y.slipped \/ ~y.alone => Traces(y) \subseteq Suspicious(change')
    BY <1>4, <2>3, Suspect DEF Disturbed
  <2>5. CASE change[r].alone
    <3>1. Lonely(r)
      BY <1>1, <1>7, <2>5 DEF Inv, Backups, Alone
    <3>2. ASSUME y.at # "done" PROVE Lonely(r)'
      <4>1. disk' = disk /\ (y.slipped <=> change[r].slipped)
        BY <1>5, <2>1, <3>2
      <4>2. Traces(y) = Traces(change[r])
        BY <1>5, <4>1 DEF Traces
      <4>3. y.at = "checked" => disk' = good'
        BY <2>1, <3>1, <4>1 DEF Lonely
      <4>4. change[r].at # "checked"
        BY <1>2, <2>1, <3>2 DEF Brings, Apply, ApplyFails, Check, CheckFails, Rollback, RollbackSlips, Finish
      <4>5. ~y.slipped /\ y.at # "checked" => Accounted(change', clean', good', y.before)
        BY <1>5, <2>2, <3>1, <4>1, <4>4 DEF Lonely
      <4> QED
        BY <1>4, <1>5, <2>1, <3>1, <4>1, <4>2, <4>3, <4>5 DEF Lonely
    <3>3. \A q \in Request : Under(q)' => q = r /\ y.at # "done"
      BY <1>4, <2>5 DEF Under, Running
    <3>4. y.at = "done" => Accounted(change', clean', good', disk')
      <4>1. CASE y.at = "done" /\ y.result = "applied"
        BY <2>1, <3>1, <4>1 DEF Lonely, Accounted
      <4>2. CASE y.at = "done" /\ y.result # "applied" /\ ~y.slipped
        BY <1>5, <2>1, <2>2, <3>1, <4>2 DEF Lonely
      <4>3. CASE y.at = "done" /\ y.result # "applied" /\ y.slipped
        <5>1. ~clean'
          BY <1>1, <2>1, <4>3 DEF Inv, Backups, Company
        <5>2. disk \in Traces(y)
          BY <1>5, <3>1, <4>3 DEF Lonely, Traces
        <5>3. disk' \in Traces(y)
          BY <1>5, <2>1, <4>3, <5>2 DEF Traces
        <5> QED
          BY <2>4, <4>3, <5>1, <5>3 DEF Accounted
      <4> QED
        BY <4>1, <4>2, <4>3
    <3>5. Idle' => y.at = "done"
      BY <1>4, <1>5 DEF Idle, Under
    <3> QED
      BY <1>4, <1>5, <2>5, <3>2, <3>3, <3>4, <3>5 DEF Alone
  <2>6. CASE ~change[r].alone
    <3>1. disk \in Suspicious(change')
      BY <1>1, <1>7, <2>2, <2>6 DEF Inv, Backups
    <3>2. \A q \in Request : ~Alone(q)'
      <4>1. \A q \in Request : Alone(q)' => Alone(q)
        BY <1>1, <1>4, <1>5 DEF Alone
      <4>2. \A q \in Request : Alone(q) => q = r
        BY <1>1 DEF Inv, Backups, Company
      <4> QED
        BY <2>6, <4>1, <4>2 DEF Alone
    <3>3. disk' \in Suspicious(change')
      <4>1. {change[r].before, disk} \subseteq Suspicious(change')
        BY <1>5, <2>4, <2>6, <3>1 DEF Traces
      <4>2. y.slipped => Mixed \in Suspicious(change')
        BY <2>4 DEF Traces
      <4> QED
        BY <1>5, <2>1, <4>1, <4>2
    <3>4. Idle' => ~clean'
      <4>1. ~clean
        BY <1>1, <2>6 DEF Inv, Backups, Company
      <4> QED
        BY <2>1, <2>6, <4>1
    <3> QED
      BY <3>2, <3>3, <3>4 DEF Accounted
  <2> QED
    BY <1>1, <2>5, <2>6
<1>8. Backups'
  BY <1>1, <1>4, <1>6, <1>7 DEF Backups
<1> QED
  BY <1>4, <1>8 DEF Inv

\* A timer runs out: the change that was first in the queue makes its backup and
\* installs its configuration, and the others are where they were.
Starts(r) ==
  /\ change \in [Request -> Change] /\ change' \in [Request -> Change]
  /\ change[r].at = "armed" /\ change'[r].at = "written" /\ change'[r].before = disk
  /\ change'[r].config = change[r].config /\ change'[r].expected = change[r].expected
  /\ change'[r].result = change[r].result /\ disk # None
  /\ change'[r].alone <=> \A q \in Request : ~Under(q)
  /\ change'[r].backup \in {disk, Mixed}
  /\ ~change'[r].slipped => change'[r].backup = disk /\ disk' = Written(r)
  /\ change'[r].slipped => disk' \in {disk, Mixed, Written(r)} /\ ~clean'
  /\ \A q \in Request : q # r =>
       /\ change'[q].at = change[q].at /\ change'[q].config = change[q].config
       /\ change'[q].expected = change[q].expected /\ change'[q].backup = change[q].backup
       /\ change'[q].before = change[q].before /\ change'[q].slipped = change[q].slipped
       /\ change'[q].result = change[q].result
       /\ change'[q].alone <=> change[q].alone /\ ~Under(q)
  /\ timers' = Tail(timers) /\ timers # <<>> /\ r = Head(timers) /\ timers \in Seq(Request)
  /\ clean' => clean /\ \A q \in Request : ~Under(q)
  /\ UNCHANGED <<backend, plan, req, edits, met, live, good>> /\ clean' \in BOOLEAN
  /\ faults' \in 0..MaxFaults

LEMMA Fires ==
  ASSUME Inv, NEW r \in Request, Fire(r) \/ FireSlips(r)
  PROVE  Starts(r)
<1>1. /\ change \in [Request -> Change] /\ disk \in Found /\ timers \in Seq(Request)
      /\ disk # None /\ clean \in BOOLEAN /\ faults \in 0..MaxFaults /\ Mixed \in Found
  BY DEF Inv, TypeOK, Found
<1>2. PICK backup \in {disk, Mixed}, written \in {disk, Mixed, Written(r)}, slips \in BOOLEAN :
        /\ Install(r, backup, written, slips)
        /\ faults' \in 0..MaxFaults
        /\ ~slips => backup = disk /\ written = Written(r)
  <2>1. CASE Fire(r)
    <3>1. Install(r, disk, Written(r), FALSE) /\ faults' = faults
      BY <2>1 DEF Fire
    <3> QED
      BY <1>1, <3>1
  <2>2. CASE FireSlips(r)
    <3>1. PICK backup \in {disk, Mixed}, written \in {disk, Mixed, Written(r)} :
            Install(r, backup, IF backend = "nmcli" THEN disk ELSE written, TRUE)
      BY <2>2 DEF FireSlips
    <3>2. faults' \in 0..MaxFaults
      BY <1>1, <2>2 DEF FireSlips, Fault
    <3>3. (IF backend = "nmcli" THEN disk ELSE written) \in {disk, Mixed, Written(r)}
      OBVIOUS
    <3> QED
      BY <3>1, <3>2, <3>3
  <2> QED
    BY <2>1, <2>2
<1> DEFINE meets == \E q \in Request : Under(q)
           z == [change[r] EXCEPT !.at = "written", !.backup = backup, !.before = disk,
                                  !.alone = ~meets, !.slipped = slips]
           o(q) == [change[q] EXCEPT !.alone = @ /\ ~Under(q)]
<1>3. /\ change[r].at = "armed" /\ timers # <<>> /\ r = Head(timers) /\ timers' = Tail(timers)
      /\ disk' = written
      /\ clean' = (clean /\ ~meets /\ ~slips)
      /\ UNCHANGED <<backend, plan, req, edits, met, live, good>>
      /\ change' = [q \in Request |->
              IF q = r THEN [change[q] EXCEPT !.at = "written", !.backup = backup, !.before = disk,
                                              !.alone = ~meets, !.slipped = slips]
              ELSE [change[q] EXCEPT !.alone = @ /\ ~Under(q)]]
  BY <1>2 DEF Install
<1>4. /\ z \in Change /\ z.at = "written" /\ z.backup = backup /\ z.before = disk
      /\ z.config = change[r].config /\ z.expected = change[r].expected
      /\ z.result = change[r].result /\ z.alone = ~meets /\ z.slipped = slips
  <2>1. ASSUME NEW b \in BOOLEAN
        PROVE  LET y == [change[r] EXCEPT !.at = "written", !.backup = backup, !.before = disk,
                                          !.alone = b, !.slipped = slips]
               IN  /\ y \in Change /\ y.at = "written" /\ y.backup = backup /\ y.before = disk
                   /\ y.config = change[r].config /\ y.expected = change[r].expected
                   /\ y.result = change[r].result /\ y.alone = b /\ y.slipped = slips
    <3> DEFINE c == change[r]
    <3>1. c \in Change /\ backup \in Found
      BY <1>1
    <3> DEFINE w == [c EXCEPT !.at = "written", !.backup = backup, !.before = disk]
               y == [c EXCEPT !.at = "written", !.backup = backup, !.before = disk,
                              !.alone = b, !.slipped = slips]
    <3> HIDE DEF c
    <3>2. /\ w \in Change /\ w.at = "written" /\ w.backup = backup /\ w.before = disk
          /\ w.config = c.config /\ w.expected = c.expected /\ w.result = c.result
      BY <1>1, <3>1 DEF Change, Running
    <3>3. y = [w EXCEPT !.alone = b, !.slipped = slips]
      OBVIOUS
    <3> HIDE DEF w, y
    <3>4. /\ y \in Change /\ y.at = "written" /\ y.backup = backup /\ y.before = disk
          /\ y.config = c.config /\ y.expected = c.expected /\ y.result = c.result
          /\ y.alone = b /\ y.slipped = slips
      BY <3>2, <3>3 DEF Change
    <3> QED
      BY <3>4 DEF c, y
  <2>2. (~meets) \in BOOLEAN
    OBVIOUS
  <2> HIDE DEF meets
  <2> QED
    BY <2>1, <2>2
<1>5. ASSUME NEW q \in Request
      PROVE  /\ o(q) \in Change
             /\ o(q).at = change[q].at /\ o(q).config = change[q].config
             /\ o(q).expected = change[q].expected /\ o(q).backup = change[q].backup
             /\ o(q).before = change[q].before /\ o(q).slipped = change[q].slipped
             /\ o(q).result = change[q].result
             /\ o(q).alone <=> change[q].alone /\ ~Under(q)
  <2>1. change[q] \in Change /\ (change[q].alone /\ ~Under(q)) \in BOOLEAN
    BY <1>1
  <2>2. o(q) = [change[q] EXCEPT !.alone = (change[q].alone /\ ~Under(q))]
    BY <2>1 DEF Change
  <2>3. \A b \in BOOLEAN :
          LET y == [change[q] EXCEPT !.alone = b]
          IN  y \in Change /\ y.at = change[q].at /\ y.config = change[q].config
              /\ y.expected = change[q].expected /\ y.backup = change[q].backup
              /\ y.before = change[q].before /\ y.slipped = change[q].slipped
              /\ y.result = change[q].result /\ y.alone = b
    BY <2>1 DEF Change
  <2> HIDE DEF o
  <2> QED
    BY <2>1, <2>2, <2>3
<1>6. change'[r] = z /\ \A q \in Request : q # r => change'[q] = o(q)
  BY <1>3
<1>7. DOMAIN change' = Request /\ change' = [q \in Request |-> change'[q]]
  BY <1>3
<1> HIDE DEF z, o
<1>8. change' \in [Request -> Change]
  BY <1>4, <1>5, <1>6, <1>7
<1>9. /\ change'[r].alone <=> \A q \in Request : ~Under(q)
      /\ clean' => clean /\ ~slips /\ \A q \in Request : ~Under(q)
      /\ clean' \in BOOLEAN
  BY <1>1, <1>3, <1>4, <1>6
<1>10. \A q \in Request : q # r =>
         /\ change'[q].at = change[q].at /\ change'[q].config = change[q].config
         /\ change'[q].expected = change[q].expected /\ change'[q].backup = change[q].backup
         /\ change'[q].before = change[q].before /\ change'[q].slipped = change[q].slipped
         /\ change'[q].result = change[q].result
         /\ change'[q].alone <=> change[q].alone /\ ~Under(q)
  BY <1>5, <1>6
<1>11. /\ change'[r].at = "written" /\ change'[r].backup = backup /\ change'[r].before = disk
       /\ change'[r].config = change[r].config /\ change'[r].expected = change[r].expected
       /\ change'[r].result = change[r].result /\ change'[r].slipped = slips
  BY <1>4, <1>6
<1>12. /\ change'[r].backup \in {disk, Mixed}
       /\ ~change'[r].slipped => change'[r].backup = disk /\ disk' = Written(r)
       /\ change'[r].slipped => disk' \in {disk, Mixed, Written(r)} /\ ~clean'
  BY <1>2, <1>3, <1>9, <1>11
<1> HIDE DEF meets
<1> QED
  BY <1>1, <1>2, <1>3, <1>8, <1>9, <1>10, <1>11, <1>12 DEF Starts

\* A timer that runs out keeps it.
LEMMA FireSteps ==
  ASSUME Inv, NEW r \in Request, Fire(r) \/ FireSlips(r)
  PROVE  Inv'
<1>1. Starts(r)
  BY Fires
<1>2. /\ change[r].config \in Config /\ change[r].expected \in Config /\ backend # "device"
      /\ change[r].result = "none" /\ Config \subseteq Found /\ Mixed \in Found /\ disk \in Found
      /\ change[r].backup = None /\ change[r].before = None
  BY <1>1 DEF Starts, Inv, Changes, Backups, Copies, Fired, TypeOK, Found
<1>3. /\ timers' \in Seq(Request)
      /\ \A q \in Request : change'[q].at = "armed" <=> \E i \in DOMAIN timers' : timers'[i] = q
  <2>1. \A q \in Request : change[q].at = "armed" <=> \E i \in DOMAIN timers : timers[i] = q
    BY DEF Inv, TypeOK
  <2>2. \A i, j \in DOMAIN timers : i < j => timers[i] # timers[j]
    BY DEF Inv, Queue
  <2>3. \A q \in Request : change'[q].at = "armed" <=> q # r /\ change[q].at = "armed"
    BY <1>1 DEF Starts
  <2>4. /\ timers' = Tail(timers) /\ timers # <<>> /\ r = Head(timers) /\ timers \in Seq(Request)
    BY <1>1 DEF Starts
  <2>5. \A i \in DOMAIN timers : timers[i] = r <=> i = 1
    BY <2>2, <2>4, OneTimerLess
  <2>6. \A q \in Request : (\E i \in DOMAIN timers' : timers'[i] = q)
                            <=> \E i \in DOMAIN timers : i # 1 /\ timers[i] = q
    <3>1. ASSUME NEW q \in Request, NEW i \in DOMAIN timers', timers'[i] = q
          PROVE  i + 1 \in DOMAIN timers /\ i + 1 # 1 /\ timers[i + 1] = q
      BY <2>4, <3>1, OneTimerLess
    <3>2. ASSUME NEW q \in Request, NEW i \in DOMAIN timers, i # 1, timers[i] = q
          PROVE  i - 1 \in DOMAIN timers' /\ timers'[i - 1] = q
      BY <2>4, <3>2, OneTimerLess
    <3> QED
      BY <3>1, <3>2
  <2>7. timers' \in Seq(Request)
    BY <2>4, OneTimerLess
  <2>8. \A q \in Request : change'[q].at = "armed" <=> \E i \in DOMAIN timers : i # 1 /\ timers[i] = q
    BY <2>1, <2>3, <2>5
  <2> QED
    BY <2>6, <2>7, <2>8
<1>4. Queue'
  BY <1>1, OneTimerLess DEF Starts, Inv, Queue
<1>5. disk' \in Found
  BY <1>1, <1>2 DEF Starts, Written
<1>6. TypeOK'
  <2>1. \A q \in Request : change'[q].at \in Running => change'[q].backup # None
    BY <1>1 DEF Starts, Inv, TypeOK
  <2>2. plan.change # None => change'[plan.change].at \notin {"none", "partial"}
    BY <1>1 DEF Starts, Inv, TypeOK, Plan
  <2>3. /\ change' \in [Request -> Change] /\ clean' \in BOOLEAN /\ faults' \in 0..MaxFaults
        /\ UNCHANGED <<backend, plan, req, edits, met, live, good>>
    BY <1>1 DEF Starts
  <2> QED
    BY <1>3, <1>5, <2>1, <2>2, <2>3 DEF Inv, TypeOK
<1>7. Roles'
  <2>1. \A q \in Request : (Left(q) => Left(q)') /\ (change[q].at = "none" => change'[q].at = "none")
    BY <1>1 DEF Starts, Left
  <2>2. UNCHANGED <<backend, req>>
    BY <1>1 DEF Starts
  <2> QED
    BY <2>1, <2>2 DEF Inv, Roles
<1>8. Changes'
  BY <1>1, <1>2 DEF Starts, Inv, Changes, Fired, Running
<1>9. Backups'
  <2>1. /\ Under(r)' /\ ~Under(r) /\ \A q \in Request : q # r => (Under(q)' <=> Under(q))
        /\ ~Idle'
    BY <1>1 DEF Starts, Under, Running, Idle
  <2>2. Copies'
    BY <1>1 DEF Starts, Inv, Backups, Copies, Fired
  <2>3. \A q \in Request : KeepsTraces(q)
    BY <1>1, <1>2 DEF Starts, KeepsTraces, Disturbed
  <2>4. /\ Suspicious(change) \subseteq Suspicious(change')
        /\ \A d : Accounted(change, clean, good, d) => Accounted(change', clean', good', d)
    BY <1>1, <2>3, StillSuspicious DEF Starts
  <2>5. \A q \in Request : Alone(q)' => q = r /\ Idle
    BY <1>1, <2>1 DEF Starts, Alone, Idle
  <2>6. Company'
    <3>1. clean' => Idle /\ ~change'[r].slipped
      BY <1>1 DEF Starts, Idle
    <3>2. \A q \in Request : Under(q)' /\ clean' => q = r /\ change'[q].alone /\ ~change'[q].slipped
      BY <1>1, <2>1, <3>1 DEF Starts, Idle
    <3>3. \A p, q \in Request : Alone(p)' /\ Under(q)' => q = p
      BY <2>1, <2>5 DEF Idle
    <3>4. backend' # "device"
      BY <1>1, <1>2 DEF Starts
    <3> QED
      BY <3>2, <3>3, <3>4 DEF Company
  <2>7. ASSUME backend = "netplan"
        PROVE  /\ \A q \in Request : Alone(q)' => Lonely(q)'
               /\ \A q \in Request : Under(q)' /\ ~change'[q].alone => disk' \in Suspicious(change')
    <3>1. Written(r) = change'[r].config /\ change'[r].before = disk /\ change'[r].at = "written"
      BY <1>1, <2>7 DEF Starts, Written
    <3>2. disk' \in Traces(change'[r]) /\ (~change'[r].slipped => disk' = change'[r].config)
      BY <1>1, <3>1 DEF Starts, Traces
    <3>3. Idle => Lonely(r)'
      <4>1. Idle => Accounted(change', clean', good', disk)
        BY <2>4, <2>7 DEF Inv, Backups
      <4> QED
        BY <3>1, <3>2, <4>1 DEF Lonely
    <3>4. ASSUME NEW q \in Request, Under(q)', ~change'[q].alone PROVE disk' \in Suspicious(change')
      <4>1. ~Idle
        BY <1>1, <2>1, <3>4 DEF Starts, Idle
      <4>2. Disturbed(change'[r])
        BY <1>1, <4>1 DEF Starts, Disturbed, Idle
      <4> QED
        BY <3>2, <4>2, Suspect
    <3> QED
      BY <2>5, <3>3, <3>4
  <2>8. backend' = backend
    BY <1>1 DEF Starts
  <2> QED
    BY <2>1, <2>2, <2>6, <2>7, <2>8 DEF Backups
<1> QED
  BY <1>4, <1>6, <1>7, <1>8, <1>9 DEF Inv

\* A restart of the machine keeps it: it starts with what is on the disk.
LEMMA RebootSteps ==
  ASSUME Inv, Reboot
  PROVE  /\ Inv'
         /\ \A q \in Request : /\ Left(q)' <=> Left(q)
                               /\ change'[q].config = change[q].config
                               /\ change'[q].backup = change[q].backup
                               /\ change'[q].result = change[q].result
                               /\ change'[q].slipped = change[q].slipped
                               /\ ~Under(q)'
                               /\ Left(q) => change'[q].at \in {"done", "dead"}
         /\ timers' = <<>> /\ DOMAIN timers' = {} /\ disk' = disk /\ (clean' => clean /\ Idle)
         /\ UNCHANGED <<backend, plan, req, met>>
<1> USE DEF Inv
<1>1. /\ change \in [Request -> Change] /\ UNCHANGED <<backend, plan, req, edits, met, disk, good>>
      /\ live' = disk /\ faults' \in 0..MaxFaults /\ timers' = <<>>
      /\ clean' = (clean /\ \A r \in Request : ~Under(r)) /\ clean' \in BOOLEAN
      /\ change' = [r \in Request |-> IF Under(r) \/ change[r].at = "armed"
                                      THEN [change[r] EXCEPT !.at = "dead"] ELSE change[r]]
  BY DEF Reboot, Fault, TypeOK
<1>2. timers' \in Seq(Request) /\ DOMAIN timers' = {}
  BY <1>1
<1>3. \A r \in Request : /\ change'[r] \in Change
                         /\ change'[r].config = change[r].config /\ change'[r].expected = change[r].expected
                         /\ change'[r].backup = change[r].backup /\ change'[r].result = change[r].result
                         /\ change'[r].before = change[r].before /\ change'[r].slipped = change[r].slipped
                         /\ change'[r].alone = change[r].alone
                         /\ change'[r].at = IF Under(r) \/ change[r].at = "armed" THEN "dead" ELSE change[r].at
  <2>1. \A c \in Change : LET y == [c EXCEPT !.at = "dead"]
                          IN  /\ y \in Change /\ y.config = c.config /\ y.expected = c.expected
                              /\ y.backup = c.backup /\ y.result = c.result /\ y.at = "dead"
                              /\ y.before = c.before /\ y.slipped = c.slipped /\ y.alone = c.alone
    BY DEF Change
  <2> QED
    BY <1>1, <2>1
<1>4. change' \in [Request -> Change]
  BY <1>1, <1>3
<1>5. \A r \in Request : change'[r].at \notin Running \cup {"armed"} /\ ~Under(r)' /\ (Left(r)' <=> Left(r))
                         /\ (change'[r].at = "none" <=> change[r].at = "none")
                         /\ (change'[r].at = "done" <=> change[r].at = "done")
                         /\ (change'[r].at = "partial" <=> change[r].at = "partial")
                         /\ (Left(r) => change'[r].at \in {"done", "dead"})
  <2>1. \A r \in Request : change[r].at \in Running \cup {"none", "partial", "armed", "dead", "done"}
    BY <1>1 DEF Change
  <2> QED
    BY <1>3, <2>1 DEF Under, Running, Left
<1>6. TypeOK'
  <2>1. plan.change # None => change'[plan.change].at \notin {"none", "partial"}
    BY <1>1, <1>5 DEF TypeOK, Plan
  <2> QED
    BY <1>1, <1>2, <1>4, <1>5, <2>1 DEF TypeOK
<1>7. Roles'
  BY <1>1, <1>5 DEF Roles
<1>8. Changes'
  BY <1>1, <1>3, <1>5 DEF Changes, Fired, Running
<1>9. Queue'
  BY <1>2 DEF Queue
<1>10. Backups'
  <2>1. Copies'
    BY <1>3 DEF Backups, Copies, Fired
  <2>2. Company'
    BY <1>1, <1>5 DEF Backups, Company, Alone
  <2>3. \A q \in Request : KeepsTraces(q)
    BY <1>3 DEF KeepsTraces, Disturbed
  <2>4. /\ Suspicious(change) \subseteq Suspicious(change')
        /\ \A d : Accounted(change, clean, good, d) => Accounted(change', clean', good', d)
    BY <1>1, <2>3, StillSuspicious
  <2>5. ASSUME backend = "netplan" PROVE Accounted(change', clean', good', disk')
    <3>1. CASE Idle
      BY <1>1, <2>4, <2>5, <3>1 DEF Backups
    <3>2. CASE ~Idle
      <4>1. PICK r \in Request : Under(r)
        BY <3>2 DEF Idle
      <4>2. Disturbed(change'[r]) /\ Traces(change'[r]) \subseteq Suspicious(change')
        <5>1. change'[r].at = "dead" /\ change'[r].before # None
          BY <1>3, <2>1, <4>1 DEF Copies, Fired, Under, TypeOK
        <5> QED
          BY <5>1, Suspect DEF Disturbed
      <4>3. CASE change[r].alone
        <5>1. Lonely(r)
          BY <2>5, <4>1, <4>3 DEF Backups, Alone
        <5>2. disk \in Traces(change'[r])
          BY <1>3, <5>1 DEF Lonely, Traces
        <5> QED
          BY <1>1, <4>1, <4>2, <5>2 DEF Accounted
      <4>4. CASE ~change[r].alone
        <5>1. disk \in Suspicious(change)
          BY <2>5, <4>1, <4>4 DEF Backups
        <5> QED
          BY <1>1, <2>4, <4>1, <5>1 DEF Accounted
      <4> QED
        BY <4>3, <4>4
    <3> QED
      BY <3>1, <3>2
  <2> QED
    BY <1>1, <1>5, <2>1, <2>2, <2>5 DEF Backups, Alone
<1> QED
  BY <1>1, <1>2, <1>3, <1>5, <1>6, <1>7, <1>8, <1>9, <1>10 DEF Idle

\* A change of the plan keeps it, whatever asks for it.
LEMMA PlanSteps ==
  ASSUME Inv, (\E c \in Config : Edit(c)) \/ Generate
  PROVE  Inv'
<1> USE DEF Inv
<1>1. /\ plan' \in Plan /\ plan'.change = plan.change /\ edits' \in 0..MaxEdits
      /\ UNCHANGED <<backend, req, machine, faults, met>>
  BY DEF Edit, Generate, Plan, TypeOK
<1>2. TypeOK'
  BY <1>1 DEF TypeOK, machine
<1> QED
  BY <1>1, <1>2 DEF machine, Roles, Changes, Queue, Backups, Copies, Company, Lonely, Left, Fired,
                    Alone, Under, Idle

\* Every step keeps it.
LEMMA InvStep == Inv /\ [Next]_vars => Inv'
<1> SUFFICES ASSUME Inv, [Next]_vars PROVE Inv'
  OBVIOUS
<1>1. CASE UNCHANGED vars
  BY <1>1 DEF vars, Inv, TypeOK, Roles, Changes, Queue, Backups, Copies, Company, Lonely, Left,
              Fired, Alone, Under, Idle
<1>2. CASE \E r \in Request :
             \/ BeginApply(r) \/ BeginSync(r)
             \/ DeployBundleFails(r) \/ CommitFails(r) \/ SessionBreaks(r)
             \/ FireSlips(r) \/ RollbackSlips(r)
             \/ HandlerStep(r) \/ ScriptStep(r)
  BY <1>2, RequestSteps, DeploySteps, SessionSteps, ScriptSteps, FireSteps
     DEF HandlerStep, ScriptStep, Goes
<1> QED
  BY <1>1, <1>2, PlanSteps, RebootSteps DEF Next

\* The plan's row, its requests and what they leave on the machine are what TypeOK says:
\* a script that is under way has its backup, and a change_id that the plan holds
\* is one whose timer was started.
THEOREM MachineTypeCorrect == Spec => []TypeOK
<1>1. Inv => TypeOK
  BY DEF Inv
<1> QED
  BY <1>1, InvInit, InvStep, PTL DEF Spec

\* Between changes the machine starts with the last configuration that passed its check,
\* or with the original one; or, once changes met, died half way or failed to copy, with
\* what one of those installed or found and, where a copy failed, a part of it (apply.py
\* 89-147, device.py 103-152).  For any number of requests that overlap, of restarts and
\* of failing copies.
THEOREM BetweenChanges == Spec => []VerifiedOrRestored
<1>1. Inv => VerifiedOrRestored
  <2>1. Inv /\ Idle /\ backend = "device" => disk = good
    BY DEF Inv, Backups, Company
  <2>2. Inv /\ Idle /\ backend = "netplan" => Accounted(change, clean, good, disk)
    BY DEF Inv, Backups
  <2> QED
    BY <2>1, <2>2 DEF VerifiedOrRestored, Accounted
<1> QED
  BY <1>1, InvInit, InvStep, PTL DEF Spec

-----------------------------------------------------------------------------
(* What a plan reports. *)

\* Requests come in the order of their numbers.  While no two were under way at a
\* time, one has ended before the next begins, and the changes they leave on the
\* machine are started in that order: a change that is alone is the last one.
InTurn ==
  /\ \A r, q \in Request : r < q /\ req[r].at = "new" => req[q].at = "new"
  /\ ~met =>
       /\ \A r, q \in Request : Open(r) /\ Open(q) => q = r
       /\ \A r, q \in Request : r < q /\ req[q].at # "new" => req[r].at = "ended"
       /\ \A r \in Request : \A i \in DOMAIN timers : Fired(r) => r < timers[i]
       /\ \A i, j \in DOMAIN timers : i < j => timers[i] < timers[j]
       /\ \A r, q \in Request : Alone(r) /\ Fired(q) => q <= r

\* Then the plan knows the last change that was left, unless its handler is about to
\* write it down or failed to, and what the plan reports is this change's result.
Known ==
  ~met =>
    /\ \A r \in Request : Left(r) =>
         \/ req[r].at = "commit" /\ req[r].status = "applying"
         \/ Unknown(r)
         \/ plan.change # None /\ r <= plan.change
    /\ \A r \in Request :
         /\ req[r].at = "fetch" => req[r].change = plan.change
         /\ req[r].at = "commit" /\ req[r].status # "applying" /\ backend # "device" =>
              /\ req[r].change = plan.change /\ req[r].change \in Request
              /\ change[req[r].change].result = req[r].status
    /\ backend # "device" /\ plan.status \in {"applied", "rolled_back"} =>
         plan.change \in Request /\ change[plan.change].result = plan.status

\* And the last change that was started, if it stayed and nothing slipped, is on the disk.
Stays ==
  backend = "netplan" /\ ~met /\ clean =>
    \A r \in Request :
      /\ change[r].result = "applied" /\ ~change[r].slipped
      /\ \A q \in Request : Fired(q) => q <= r
      => disk = change[r].config

Turns == InTurn /\ Known /\ Stays

LEMMA TurnsInit == Init => Turns
BY DEF Init, Turns, InTurn, Known, Stays, Open, Fired, Left, Alone, Under, Running, Unknown

\* A request arrives: if none is open, all before it have ended.
LEMMA Arrivals ==
  ASSUME Inv, Turns, NEW r \in Request, BeginApply(r) \/ BeginSync(r)
  PROVE  Turns'
<1>1. /\ req \in [Request -> Handler] /\ req[r].at = "new" /\ Request \subseteq Nat
      /\ \A q \in Request : q < r => req[q].at # "new"
      /\ met' = (met \/ \E q \in Request : Open(q))
      /\ UNCHANGED <<plan, machine, backend>>
  BY DEF BeginApply, BeginSync, Arrive, Request, Inv, TypeOK
<1>2. /\ \A q \in Request : q # r => req'[q] = req[q]
      /\ req'[r].at \in {"expect", "session", "fetch"}
      /\ req'[r].at = "fetch" => req'[r].change = plan.change
  <2>1. CASE BeginApply(r)
    BY <1>1, <2>1 DEF BeginApply
  <2>2. CASE BeginSync(r)
    BY <1>1, <2>2 DEF BeginSync
  <2> QED
    BY <2>1, <2>2
<1>3. UNCHANGED <<change, timers, disk, live, good, clean>>
  BY <1>1 DEF machine
<1>4. \A q \in Request : /\ Open(q)' <=> (q = r \/ Open(q))
                         /\ req'[q].at = "new" => req[q].at = "new"
                         /\ q # r /\ req[q].at = "new" => req'[q].at = "new"
  BY <1>1, <1>2 DEF Open
<1>5. ~met' => ~met /\ \A q \in Request : ~Open(q)
  BY <1>1
<1>6. InTurn'
  <2>1. \A q, p \in Request : q < p /\ req'[q].at = "new" => req'[p].at = "new"
    BY <1>1, <1>2, <1>4 DEF Turns, InTurn
  <2>2. ~met' => \A q, p \in Request : q < p /\ req'[p].at # "new" => req'[q].at = "ended"
    <3>1. SUFFICES ASSUME ~met', NEW q \in Request, NEW p \in Request, q < p, req'[p].at # "new"
                   PROVE  req'[q].at = "ended"
      OBVIOUS
    <3>2. CASE p = r
      BY <1>1, <1>2, <1>5, <3>1, <3>2 DEF Open
    <3>3. CASE p # r
      BY <1>1, <1>2, <1>5, <3>1, <3>3 DEF Turns, InTurn
    <3> QED
      BY <3>2, <3>3
  <2>3. ~met' => \A q, p \in Request : Open(q)' /\ Open(p)' => p = q
    BY <1>4, <1>5
  <2>4. ~met' =>
       /\ \A q \in Request : \A i \in DOMAIN timers' : Fired(q)' => q < timers'[i]
       /\ \A i, j \in DOMAIN timers' : i < j => timers'[i] < timers'[j]
       /\ \A q, p \in Request : Alone(q)' /\ Fired(p)' => p <= q
    BY <1>3, <1>5 DEF Turns, InTurn, Fired, Alone, Under
  <2> QED
    BY <2>1, <2>2, <2>3, <2>4 DEF InTurn
<1>7. Known'
  BY <1>1, <1>2, <1>3, <1>5 DEF Turns, Known, Left, Unknown, Inv, Roles
<1>8. Stays'
  BY <1>1, <1>3, <1>5 DEF Turns, Stays, Fired
<1> QED
  BY <1>6, <1>7, <1>8 DEF Turns

\* An open request moves on, without a word to the machine or in a session.
LEMMA Progress ==
  ASSUME Inv, Turns, NEW r \in Request,
         \/ Expect(r) \/ Commit(r) \/ CommitFails(r) \/ Fetch(r) \/ FetchNothing(r)
         \/ Session(r) \/ SessionRejected(r) \/ SessionBreaks(r)
  PROVE  Turns'
<1>1. /\ req \in [Request -> Handler] /\ req[r] \in Handler /\ plan \in Plan /\ Request \subseteq Nat
      /\ UNCHANGED <<change, timers, backend, met>> /\ Open(r)
      /\ backend # "device" => UNCHANGED <<disk, live, good, clean>>
      /\ req[r].at = "session" => backend = "device"
  BY DEF Inv, TypeOK, Roles, Expect, Commit, CommitFails, Fetch, FetchNothing, Session,
         SessionRejected, SessionBreaks, Open, machine, Request
<1>2. /\ \A q \in Request : q # r => req'[q] = req[q]
      /\ req'[r].at \in {"deploy", "commit", "ended"}
  <2>1. CASE Expect(r)
    BY <1>1, <2>1 DEF Expect
  <2>2. CASE Commit(r) \/ CommitFails(r) \/ FetchNothing(r) \/ SessionBreaks(r)
    BY <1>1, <2>2 DEF Commit, CommitFails, FetchNothing, SessionBreaks, Answer
  <2>3. CASE Fetch(r)
    BY <1>1, <2>3 DEF Fetch
  <2>4. CASE Session(r)
    BY <1>1, <2>4 DEF Session
  <2>5. CASE SessionRejected(r)
    BY <1>1, <2>5 DEF SessionRejected
  <2> QED
    BY <2>1, <2>2, <2>3, <2>4, <2>5
<1>3. InTurn'
  <2>1. \A q \in Request : /\ Open(q)' => Open(q)
                           /\ req'[q].at = "new" <=> req[q].at = "new"
                           /\ req[q].at = "ended" => req'[q].at = "ended"
    BY <1>1, <1>2 DEF Open
  <2> QED
    BY <1>1, <2>1 DEF Turns, InTurn, Fired, Alone, Under
<1>4. Known'
  <2> SUFFICES ASSUME ~met PROVE Known'
    BY <1>1 DEF Known
  <2>1. \A q \in Request : q # r => ~Open(q)
    BY <1>1 DEF Turns, InTurn
  <2>2. CASE Expect(r)
    <3>1. req[r].at = "expect" /\ req'[r].at = "deploy" /\ UNCHANGED plan
      BY <1>1, <2>2 DEF Expect
    <3> QED
      BY <1>1, <1>2, <3>1 DEF Turns, Known, Left, Unknown, Inv, Roles
  <2>3. CASE Commit(r)
    <3>1. /\ req[r].at = "commit" /\ req'[r].at = "ended" /\ req'[r].answer = "ok"
          /\ plan'.status = req[r].status
          /\ plan'.change = (IF req[r].status = "applying" THEN r ELSE plan.change)
      BY <1>1, <2>3 DEF Commit, Answer, Plan
    <3>2. \A q \in Request : Left(q) => q <= r \/ Unknown(q)
      <4>1. \A q \in Request : q > r => req[q].at = "new"
        BY <1>1, <2>1 DEF Turns, InTurn, Open
      <4>2. \A q \in Request : req[q].at = "new" => ~Left(q)
        BY DEF Inv, Roles, Left
      <4> QED
        BY <1>1, <4>1, <4>2
    <3>3. \A q \in Request : q # r => (req'[q].at \notin {"fetch", "commit"})
      BY <1>2, <2>1 DEF Open
    <3>4. ASSUME req[r].status = "applying" PROVE Known'
      <4>1. plan'.change = r /\ r # None /\ plan'.status = "applying"
        BY <1>1, <3>1, <3>4 DEF Request, None
      <4>2. \A q \in Request : Unknown(q) => q # r
        BY <3>1 DEF Unknown, Inv, Roles
      <4>3. \A q \in Request : Left(q)' => Unknown(q)' \/ q <= r
        BY <1>1, <1>2, <3>2, <4>2 DEF Left, Unknown
      <4>4. req'[r].at = "ended"
        BY <3>1
      <4> QED
        BY <3>3, <4>1, <4>3, <4>4 DEF Known
    <3>5. ASSUME req[r].status # "applying" PROVE Known'
      <4>1. ~Left(r)
        BY <3>1, <3>5 DEF Inv, Roles, Left
      <4>2. backend # "device" /\ plan'.status \in {"applied", "rolled_back"} =>
              plan'.change \in Request /\ change'[plan'.change].result = plan'.status
        BY <1>1, <3>1, <3>5 DEF Turns, Known
      <4>3. \A q \in Request : Left(q)' => Unknown(q)' \/ (plan'.change # None /\ q <= plan'.change)
        BY <1>1, <1>2, <2>1, <3>1, <3>5, <4>1 DEF Turns, Known, Left, Unknown, Open
      <4> QED
        BY <1>1, <3>1, <3>3, <4>2, <4>3 DEF Known
    <3> QED
      BY <3>4, <3>5
  <2>4. CASE CommitFails(r)
    <3>1. req[r].at = "commit" /\ req'[r].at = "ended" /\ req'[r].answer = "error" /\ UNCHANGED plan
      BY <1>1, <2>4 DEF CommitFails, Answer
    <3> QED
      BY <1>1, <1>2, <3>1 DEF Turns, Known, Left, Unknown
  <2>5. CASE Fetch(r)
    <3>1. /\ req[r].at = "fetch" /\ req'[r].at = "commit" /\ UNCHANGED plan
          /\ req'[r].change = req[r].change /\ req'[r].status = change[req[r].change].result
          /\ req[r].change \in Request
      BY <1>1, <2>5 DEF Fetch, Inv, Roles
    <3>2. ~Left(r)
      BY <3>1 DEF Inv, Roles, Left
    <3> QED
      BY <1>1, <1>2, <3>1, <3>2 DEF Turns, Known, Left, Unknown
  <2>6. CASE FetchNothing(r)
    <3>1. req[r].at = "fetch" /\ req'[r].at = "ended" /\ req'[r].answer = "error" /\ UNCHANGED plan
      BY <1>1, <2>6 DEF FetchNothing, Answer
    <3> QED
      BY <1>1, <1>2, <3>1 DEF Turns, Known, Left, Unknown
  <2>7. CASE Session(r) \/ SessionRejected(r) \/ SessionBreaks(r)
    <3>1. UNCHANGED plan /\ backend = "device"
      BY <1>1, <2>7 DEF Session, SessionRejected, SessionBreaks
    <3>2. \A q \in Request : ~Left(q)
      BY <3>1 DEF Inv, Changes, Left
    <3>3. req'[r].at # "fetch"
      BY <1>2
    <3> QED
      BY <1>1, <1>2, <3>1, <3>2, <3>3 DEF Turns, Known, Left
  <2> QED
    BY <2>2, <2>3, <2>4, <2>5, <2>6, <2>7
<1>5. Stays'
  BY <1>1 DEF Turns, Stays, Fired
<1> QED
  BY <1>3, <1>4, <1>5 DEF Turns

\* A change comes to the machine: it is newer than any that was started.
LEMMA Deliveries ==
  ASSUME Inv, Turns, NEW r \in Request, DeployBundle(r) \/ DeployBundleFails(r)
  PROVE  Turns'
<1>1. /\ req \in [Request -> Handler] /\ req[r].at = "deploy" /\ Request \subseteq Nat
      /\ UNCHANGED <<backend, plan, disk, live, good, clean, met>>
      /\ timers \in Seq(Request)
  BY DEF DeployBundle, DeployBundleFails, Inv, TypeOK, Request
<1>2. PICK at \in {"none", "partial", "armed"} : Leave(r, at)
  BY DEF DeployBundle, DeployBundleFails
<1>3. /\ \A q \in Request : q # r => req'[q] = req[q]
      /\ \/ req'[r].at = "commit" /\ req'[r].status = "applying"
         \/ req'[r].at = "ended" /\ req'[r].answer = "refused"
  <2>1. CASE DeployBundle(r)
    BY <1>1, <2>1 DEF DeployBundle
  <2>2. CASE DeployBundleFails(r)
    BY <1>1, <2>2 DEF DeployBundleFails, Answer
  <2> QED
    BY <2>1, <2>2
<1>4. /\ change' \in [Request -> Change] /\ change'[r].at = at
      /\ \A q \in Request : q # r => change'[q] = change[q]
      /\ change'[r].backup = None /\ change[r].at = "none" /\ Changes'
  BY <1>1, <1>2, Delivered
<1>5. \A q \in Request : (Fired(q)' <=> Fired(q)) /\ (Fired(q) => q # r /\ Left(q))
  BY <1>4 DEF Fired, Left, Inv, Changes
<1>6. ~met => \A q \in Request : Left(q) => q < r
  <2>1. ~met => \A q \in Request : q > r => req[q].at = "new"
    BY <1>1 DEF Turns, InTurn, Open
  <2>2. \A q \in Request : req[q].at = "new" => ~Left(q)
    BY DEF Inv, Roles, Left
  <2>3. ~Left(r)
    BY <1>4 DEF Left
  <2> QED
    BY <1>1, <2>1, <2>2, <2>3
<1>7. \A q \in Request : Alone(q)' => Alone(q)
  BY <1>4 DEF Alone, Under, Running
<1>8. InTurn'
  <2>1. \A q \in Request : /\ Open(q)' => Open(q)
                           /\ req'[q].at = "new" <=> req[q].at = "new"
                           /\ req[q].at = "ended" => req'[q].at = "ended"
    BY <1>1, <1>3 DEF Open
  <2>2. ~met =>
          /\ \A q \in Request : \A i \in DOMAIN timers' : Fired(q)' => q < timers'[i]
          /\ \A i, j \in DOMAIN timers' : i < j => timers'[i] < timers'[j]
    <3> SUFFICES ASSUME ~met
                 PROVE  /\ \A q \in Request : \A i \in DOMAIN timers' : Fired(q)' => q < timers'[i]
                        /\ \A i, j \in DOMAIN timers' : i < j => timers'[i] < timers'[j]
      OBVIOUS
    <3>1. /\ \A q \in Request : \A i \in DOMAIN timers : Fired(q) => q < timers[i]
          /\ \A i, j \in DOMAIN timers : i < j => timers[i] < timers[j]
      BY DEF Turns, InTurn
    <3>2. CASE timers' = timers
      BY <1>5, <3>1, <3>2
    <3>3. CASE timers' = Append(timers, r)
      <4>1. \A i \in DOMAIN timers : timers[i] < r
        <5>1. \A i \in DOMAIN timers : Left(timers[i]) /\ timers[i] \in Request
          <6>1. \A i \in DOMAIN timers : timers[i] \in Request
            BY <1>1
          <6>2. \A q \in Request : (\E i \in DOMAIN timers : timers[i] = q) => change[q].at = "armed"
            BY DEF Inv, TypeOK
          <6> QED
            BY <6>1, <6>2 DEF Left
        <5> QED
          BY <1>6, <5>1
      <4>2. \A q \in Request : Fired(q) => q < r
        BY <1>5, <1>6
      <4> QED
        BY <1>1, <1>5, <3>1, <3>3, <4>1, <4>2, OneMoreTimer
    <3> QED
      BY <1>2, <3>2, <3>3 DEF Leave
  <2>3. ~met => \A q, p \in Request : Alone(q)' /\ Fired(p)' => p <= q
    BY <1>5, <1>7 DEF Turns, InTurn
  <2> QED
    BY <1>1, <2>1, <2>2, <2>3 DEF Turns, InTurn
<1>9. Known'
  <2>1. \A q \in Request : Left(q)' => Left(q) \/ q = r
    BY <1>4 DEF Left
  <2>2. Left(r)' => (req'[r].at = "commit" /\ req'[r].status = "applying") \/ Unknown(r)'
    BY <1>3 DEF Left, Unknown
  <2>3. \A q \in Request : q # r => (Unknown(q)' <=> Unknown(q))
    BY <1>3, <1>4 DEF Unknown
  <2>4. \A q \in Request : change[q].result # "none" => change'[q] = change[q]
    BY <1>4 DEF Inv, Changes
  <2>5. ~met => \A q \in Request : q # r => req'[q].at \notin {"fetch", "commit"}
    BY <1>1, <1>3 DEF Turns, InTurn, Open
  <2> QED
    BY <1>1, <1>3, <2>1, <2>2, <2>3, <2>4, <2>5 DEF Turns, Known
<1>10. Stays'
  <2>1. \A q \in Request : change'[q].result = "applied" => change'[q] = change[q] /\ change[q].result = "applied"
    BY <1>4 DEF Inv, Changes
  <2> QED
    BY <1>1, <1>5, <2>1 DEF Turns, Stays
<1> QED
  BY <1>8, <1>9, <1>10 DEF Turns

\* A script goes on: while it is alone it is the one that was started last.
LEMMA ScriptTurns ==
  ASSUME Inv, Turns, NEW r \in Request, Goes(r)
  PROVE  Turns'
<1>1. /\ Under(r) /\ UNCHANGED <<backend, plan, req, edits, met, timers>>
      /\ change[r].result = "none" /\ change \in [Request -> Change] /\ Request \subseteq Nat
  BY ScriptFinds DEF Request
<1>2. PICK y \in Change : Brings(r, y)
  BY ScriptShape
<1>3. /\ change'[r] = y
      /\ \A q \in Request : q # r => change'[q] = change[q]
      /\ \A q \in Request : /\ Fired(q)' <=> Fired(q)
                            /\ Left(q)' <=> Left(q)
                            /\ Alone(q)' => Alone(q)
                            /\ change'[q].config = change[q].config
                            /\ change[q].result # "none" => change'[q].result = change[q].result
  <2>1. change'[r] = y /\ \A q \in Request : q # r => change'[q] = change[q]
    BY <1>1, <1>2 DEF Brings
  <2>2. y.at \notin {"none", "partial"} /\ y.backup = change[r].backup /\ y.config = change[r].config
        /\ y.alone = change[r].alone
    BY <1>2 DEF Brings
  <2> QED
    BY <1>1, <2>1, <2>2 DEF Fired, Left, Alone, Under, Running
<1>4. InTurn'
  BY <1>1, <1>3 DEF Turns, InTurn, Open
<1>5. Known'
  <2>1. \A q \in Request : req[q].at = "commit" => req[q].status # "none"
    BY DEF Inv, Roles
  <2> QED
    BY <1>1, <1>3, <2>1, ZenonT(40) DEF Turns, Known, Unknown, Left
<1>6. Stays'
  <2> SUFFICES ASSUME backend = "netplan", ~met, clean', NEW q \in Request,
                      change'[q].result = "applied", ~change'[q].slipped,
                      \A p \in Request : Fired(p) => p <= q
               PROVE  disk' = change'[q].config
    BY <1>1, <1>3 DEF Stays
  <2>1. change[r].alone
    <3>1. clean \/ change[r].alone
      BY <1>2, ScriptWrites
    <3> QED
      BY <1>1, <3>1 DEF Inv, Backups, Company
  <2>2. Alone(r) /\ Fired(r)
    BY <1>1, <2>1 DEF Alone, Inv, Changes, Under
  <2>3. q = r
    <3>1. Fired(q)
      <4>1. q # r => change[q].result = "applied"
        BY <1>3
      <4> QED
        BY <2>2, <4>1 DEF Inv, Changes
    <3> QED
      BY <1>1, <2>2, <3>1 DEF Turns, InTurn
  <2>4. y.at = "done" /\ y.result = "applied" /\ ~y.slipped /\ ~change[r].slipped
    BY <1>2, <1>3, <2>3 DEF Brings
  <2>5. disk' = disk
    BY <1>2, <2>4, ScriptWrites
  <2>6. disk = change[r].config
    BY <2>2, <2>4 DEF Inv, Backups, Lonely
  <2> QED
    BY <1>3, <2>3, <2>5, <2>6
<1> QED
  BY <1>4, <1>5, <1>6 DEF Turns

\* A timer runs out: the change is newer than all that were started before.
LEMMA FireTurns ==
  ASSUME Inv, Turns, NEW r \in Request, Fire(r) \/ FireSlips(r)
  PROVE  Turns'
<1>1. Starts(r)
  BY Fires
<1>2. UNCHANGED <<backend, plan, req, met>> /\ Request \subseteq Nat
      /\ timers' = Tail(timers) /\ timers # <<>> /\ r = Head(timers) /\ timers \in Seq(Request)
  BY <1>1 DEF Starts, Request
<1>3. \A q \in Request : /\ Fired(q)' <=> q = r \/ Fired(q)
                         /\ Left(q)' <=> Left(q)
                         /\ change'[q].result = change[q].result
                         /\ change'[q].config = change[q].config
                         /\ q # r => change'[q].slipped = change[q].slipped
                         /\ Alone(q)' => q = r
  BY <1>1 DEF Starts, Fired, Left, Alone, Under, Running
<1>4. InTurn'
  <2>1. ~met => \A q \in Request : Fired(q) => q < r
    BY <1>2, OneTimerLess DEF Turns, InTurn
  <2>2. ~met => \A i \in DOMAIN timers : i # 1 => r < timers[i]
    BY <1>2, OneTimerLess DEF Turns, InTurn
  <2>3. ASSUME ~met
        PROVE  /\ \A q \in Request : \A i \in DOMAIN timers' : Fired(q)' => q < timers'[i]
               /\ \A i, j \in DOMAIN timers' : i < j => timers'[i] < timers'[j]
    <3>1. \A i \in DOMAIN timers' : /\ i \in Nat /\ i + 1 \in DOMAIN timers /\ i + 1 # 1
                                    /\ timers'[i] = timers[i + 1]
      BY <1>2, OneTimerLess
    <3>2. /\ \A q \in Request : \A i \in DOMAIN timers : Fired(q) => q < timers[i]
          /\ \A i, j \in DOMAIN timers : i < j => timers[i] < timers[j]
      BY <2>3 DEF Turns, InTurn
    <3>3. \A q \in Request : \A i \in DOMAIN timers' : Fired(q)' => q < timers'[i]
      BY <1>3, <2>2, <2>3, <3>1, <3>2
    <3>4. \A i, j \in DOMAIN timers' : i < j => i + 1 < j + 1
      BY <3>1
    <3>5. \A i, j \in DOMAIN timers' : i < j => timers'[i] < timers'[j]
      BY <3>1, <3>2, <3>4
    <3> QED
      BY <3>3, <3>5
  <2>4. ~met => \A p, q \in Request : Alone(p)' /\ Fired(q)' => q <= p
    BY <1>2, <1>3, <2>1
  <2> QED
    BY <1>2, <2>3, <2>4 DEF Turns, InTurn, Open
<1>5. Known'
  BY <1>2, <1>3 DEF Turns, Known, Unknown, Left
<1>6. Stays'
  <2>1. change[r].result = "none"
    BY <1>1 DEF Starts, Inv, Changes
  <2>2. ~met => \A q \in Request : Fired(q) => q < r
    BY <1>2, OneTimerLess DEF Turns, InTurn
  <2>3. \A q \in Request : change[q].result = "applied" => Fired(q) /\ q # r
    BY <2>1 DEF Inv, Changes
  <2>4. ~met => \A q \in Request : change[q].result = "applied" /\ (\A p \in Request : Fired(p)' => p <= q) => FALSE
    BY <1>2, <1>3, <2>2, <2>3
  <2> QED
    BY <1>2, <1>3, <2>4 DEF Stays
<1> QED
  BY <1>4, <1>5, <1>6 DEF Turns

\* A restart of the machine, or a change of the plan.
LEMMA OtherTurns ==
  ASSUME Inv, Turns, Reboot \/ Generate \/ \E c \in Config : Edit(c)
  PROVE  Turns'
<1>1. CASE Reboot
  <2>1. /\ \A q \in Request : /\ Left(q)' <=> Left(q)
                              /\ change'[q].config = change[q].config
                              /\ change'[q].backup = change[q].backup
                              /\ change'[q].result = change[q].result
                              /\ change'[q].slipped = change[q].slipped
                              /\ ~Under(q)'
                              /\ Left(q) => change'[q].at \in {"done", "dead"}
        /\ timers' = <<>> /\ DOMAIN timers' = {} /\ disk' = disk /\ (clean' => clean /\ Idle)
        /\ UNCHANGED <<backend, plan, req, met>>
    BY <1>1, RebootSteps
  <2>2. \A q \in Request : (Fired(q)' <=> Fired(q)) /\ ~Alone(q)'
    BY <2>1 DEF Fired, Alone
  <2>3. InTurn'
    BY <2>1, <2>2 DEF Turns, InTurn, Open
  <2>4. Known'
    BY <2>1 DEF Turns, Known, Unknown, Left
  <2>5. Stays'
    BY <2>1, <2>2 DEF Turns, Stays
  <2> QED
    BY <2>3, <2>4, <2>5 DEF Turns
<1>2. CASE Generate \/ \E c \in Config : Edit(c)
  <2>1. /\ UNCHANGED <<backend, req, machine, met>> /\ plan'.change = plan.change
        /\ plan'.status = plan.status \/ plan'.status = "generated"
    BY <1>2 DEF Generate, Edit, Inv, TypeOK, Plan
  <2> QED
    BY <2>1 DEF machine, Turns, InTurn, Known, Stays, Open, Fired, Left, Alone, Under, Unknown
<1> QED
  BY <1>1, <1>2

\* Every step keeps what requests know of their changes.
LEMMA TurnsStep == Inv /\ Turns /\ [Next]_vars => Turns'
<1> SUFFICES ASSUME Inv, Turns, [Next]_vars PROVE Turns'
  OBVIOUS
<1>1. CASE UNCHANGED vars
  BY <1>1 DEF vars, Turns, InTurn, Known, Stays, Open, Fired, Left, Alone, Under, Unknown
<1>2. CASE \E r \in Request :
             \/ BeginApply(r) \/ BeginSync(r)
             \/ DeployBundleFails(r) \/ CommitFails(r) \/ SessionBreaks(r)
             \/ FireSlips(r) \/ RollbackSlips(r)
             \/ HandlerStep(r) \/ ScriptStep(r)
  BY <1>2, Arrivals, Progress, Deliveries, ScriptTurns, FireTurns DEF HandlerStep, ScriptStep, Goes
<1> QED
  BY <1>1, <1>2, OtherTurns DEF Next

\* What a plan says of its last change is what that change came to, and a plan that
\* says applied is for a machine that starts with what the change installed, if the
\* requests, however many, did not overlap and none was lost (nodeplan.py 569-591,
\* 612-637).
THEOREM ReportsAreTrue == Spec => []ReportedIsTrue
<1>1. Inv /\ Turns => ReportedIsTrue
  <2> SUFFICES ASSUME Inv, Turns, plan.status \in {"applied", "rolled_back"}, backend = "netplan",
                      Idle, clean, ~met, \A r \in Request : ~Open(r) /\ ~Unknown(r)
               PROVE  /\ change[plan.change].result = plan.status
                      /\ plan.status = "applied" /\ ~change[plan.change].slipped =>
                           disk = change[plan.change].config
    BY DEF ReportedIsTrue
  <2>1. plan.change \in Request /\ change[plan.change].result = plan.status
    BY DEF Turns, Known
  <2>2. \A q \in Request : Fired(q) => q <= plan.change
    BY DEF Turns, Known, Open, Inv, Changes, Left
  <2> QED
    BY <2>1, <2>2 DEF Turns, Stays
<1>2. Init => Inv /\ Turns
  BY InvInit, TurnsInit
<1>3. Inv /\ Turns /\ [Next]_vars => Inv' /\ Turns'
  BY InvStep, TurnsStep
<1> QED
  BY <1>1, <1>2, <1>3, PTL DEF Spec

\* A change that reports its rolling back has brought back what the machine had when it
\* began, whatever ran, restarted or was edited between its backup and its report: its
\* state directory still holds that configuration and no other one (apply.py 116-122,
\* 133).  For netplan, and a switch has no such report; the run of nmcli shows that it
\* does not hold there.
THEOREM BackIsBack ==
  ASSUME Backend \subseteq {"netplan", "device"}
  PROVE  Spec => RolledBackIsBack
<1> DEFINE Back == \A r \in Request :
          /\ change[r].result = "none" /\ change'[r].result = "rolled_back" /\ ~change'[r].slipped
          => disk' = change[r].before
<1>1. ASSUME Inv, [Next]_vars PROVE Back
  <2>1. ASSUME \A q \in Request : change[q].result = "none" => change'[q].result = "none"
        PROVE  Back
    BY <2>1
  <2>2. ASSUME NEW r \in Request, Goes(r) PROVE Back
    <3>1. change \in [Request -> Change] /\ backend = "netplan"
      BY <1>1, <2>2, ScriptFinds DEF Inv, TypeOK
    <3>2. PICK y \in Change : Brings(r, y)
      BY <1>1, <2>2, ScriptShape
    <3>3. change'[r] = y /\ \A q \in Request : q # r => change'[q] = change[q]
      BY <3>1, <3>2 DEF Brings
    <3>4. y.result = "rolled_back" /\ ~y.slipped => disk' = change[r].before
      <4>1. y.result = "rolled_back" => y.at = "done"
        BY <3>2 DEF Brings
      <4> QED
        BY <1>1, <2>2, <3>1, <3>2, <4>1, ScriptWrites
    <3> QED
      BY <3>3, <3>4
  <2>3. ASSUME NEW r \in Request, Fire(r) \/ FireSlips(r) PROVE Back
    <3>1. \A q \in Request : change'[q].result = change[q].result
      BY <1>1, <2>3, Fires DEF Starts
    <3> QED
      BY <2>1, <3>1
  <2>4. ASSUME NEW r \in Request, DeployBundle(r) \/ DeployBundleFails(r) PROVE Back
    <3>1. req[r].at = "deploy" /\ \E at \in {"none", "partial", "armed"} : Leave(r, at)
      BY <2>4 DEF DeployBundle, DeployBundleFails
    <3>2. \A q \in Request : change'[q].result = change[q].result
      <4>1. change \in [Request -> Change]
        BY <1>1 DEF Inv, TypeOK
      <4> QED
        BY <3>1, <4>1 DEF Leave, Change
    <3> QED
      BY <2>1, <3>2
  <2>5. CASE Reboot
    BY <1>1, <2>1, <2>5, RebootSteps
  <2>6. ASSUME change' = change PROVE Back
    BY <2>1, <2>6
  <2>7. ASSUME NEW r \in Request,
               \/ BeginApply(r) \/ BeginSync(r) \/ CommitFails(r) \/ SessionBreaks(r)
               \/ Expect(r) \/ Commit(r) \/ Fetch(r) \/ FetchNothing(r)
               \/ Session(r) \/ SessionRejected(r)
        PROVE  change' = change
    BY <2>7 DEF BeginApply, BeginSync, CommitFails, SessionBreaks, Expect, Commit, Fetch,
                FetchNothing, Session, SessionRejected, machine
  <2>8. Generate \/ (\E c \in Config : Edit(c)) \/ UNCHANGED vars => change' = change
    BY DEF Generate, Edit, machine, vars
  <2> HIDE DEF Back
  <2> QED
    BY <1>1, <2>2, <2>3, <2>4, <2>5, <2>6, <2>7, <2>8 DEF Next, HandlerStep, ScriptStep, Goes
<1>2. Inv /\ [Next]_vars =>
        [\A r \in Request :
           /\ change[r].result = "none" /\ change'[r].result = "rolled_back" /\ ~change'[r].slipped
           => disk' = change[r].before]_vars
  BY <1>1
<1> QED
  BY <1>2, InvInit, InvStep, PTL DEF Spec, RolledBackIsBack
=============================================================================
