---------------------------- MODULE RegistersProofs ----------------------------
(***************************************************************************)
(* Theorems about NodePlans and ZtpPositions, for any number of machines,  *)
(* devices, plans, positions and requests.                                 *)
(***************************************************************************)
EXTENDS NodePlans, ZtpPositions, FiniteSetTheorems, WellFoundedInduction, TLAPS

USE NodePlansAssumption

-----------------------------------------------------------------------------
(* Node plans: what the handlers and the tables hold.                      *)

Seens == UNION {[K -> Nat] : K \in SUBSET Key}

PlanRequest ==
  [at : {"new", "begun", "checked", "ended"}, kind : {"create", "update", "import"},
   todo : Seq(Body), plan : Nat, old : SUBSET Row, seen : Seens]

PlansTyped ==
  /\ open \in BOOLEAN /\ jobs \subseteq Job /\ met \subseteq DOMAIN plans
  /\ plans \in Seq(Plan) /\ Len(plans) <= MaxPlans
  /\ req \in [Request -> PlanRequest]

\* Only a file makes several plans, only an update is about a plan that is there.
Asked(r) ==
  /\ Begun(r) <=> req[r].todo # <<>>
  /\ req[r].kind = "update" => req[r].seen = Nothing
  /\ req[r].kind # "update" => req[r].plan = 0
  /\ About(r) \subseteq 0..Len(plans) /\ Range(req[r].seen) \subseteq 1..Len(plans)
  /\ ~ Begun(r) => req[r].plan = 0 /\ req[r].seen = Nothing

\* Two handlers that are about one plan have met there.
Meeting ==
  \A q, r \in Request : q # r /\ Begun(q) /\ Begun(r) => (About(q) \cap About(r)) \ {0} \subseteq met

\* Unless it has met another, an update that is checked has read the plan as it is ...
ReadIt(r) ==
  req[r].at = "checked" /\ req[r].plan \in Here \ met => req[r].old = plans[req[r].plan].rows

\* ... and a file has made the plans it has seen.
Made(r) ==
  \A k \in DOMAIN req[r].seen : req[r].seen[k] \in Here \ met =>
    /\ FileKey(plans[req[r].seen[k]].mac) = k
    /\ \A row \in plans[req[r].seen[k]].rows : row.by = r

PlanInv ==
  /\ PlansTyped /\ OnePlanPerMachine /\ Meeting
  /\ \A r \in Request : Asked(r) /\ ReadIt(r)

\* A shared serial is a key of one machine at most.
Labelled == \A m, n \in Unlabelled : m = n

Whole == InterfacesAsSent /\ \A r \in Request : Made(r)

-----------------------------------------------------------------------------
\* The plan of a table that is exchanged for another is the only one that changes.
LEMMA PlanExchanged ==
  ASSUME plans \in Seq(Plan), NEW p \in DOMAIN plans, NEW x \in Plan, plans' = [plans EXCEPT ![p] = x]
  PROVE  /\ plans' \in Seq(Plan) /\ Len(plans') = Len(plans) /\ DOMAIN plans' = DOMAIN plans
         /\ plans'[p] = x /\ \A q \in DOMAIN plans \ {p} : plans'[q] = plans[q]
BY ONLY plans \in Seq(Plan), p \in DOMAIN plans, x \in Plan, plans' = [plans EXCEPT ![p] = x]

\* What the table holds.
LEMMA PlansAre ==
  ASSUME PlansTyped
  PROVE  /\ plans \in Seq(Plan) /\ DOMAIN plans = 1..Len(plans) /\ Len(plans) \in Nat
         /\ DOMAIN plans \subseteq 1..MaxPlans /\ Here \subseteq DOMAIN plans
         /\ \A p \in DOMAIN plans :
              /\ plans[p] \in Plan /\ plans[p].mac \in Machine /\ plans[p].rows \subseteq Row
              /\ plans[p].owner \in Machine \cup {Nobody}
              /\ plans[p].serial \in Machine \cup {NoSerial, Shared}
<1>1. plans \in Seq(Plan) /\ Len(plans) <= MaxPlans
  BY DEF PlansTyped
<1>2. DOMAIN plans = 1..Len(plans) /\ Len(plans) \in Nat /\ \A p \in DOMAIN plans : plans[p] \in Plan
  BY ONLY <1>1
<1>3. DOMAIN plans \subseteq 1..MaxPlans
  BY ONLY <1>1, <1>2, NodePlansAssumption
<1>4. Here \subseteq DOMAIN plans
  BY DEF Here
<1> QED
  BY <1>1, <1>2, <1>3, <1>4 DEF Plan

\* A machine's serial is one that a plan may have.
LEMMA SerialIs ==
  ASSUME NEW m \in Machine
  PROVE  /\ Serial(m) \in Machine \cup {NoSerial, Shared}
         /\ FileKey(m) \in Key
         /\ NoSerial \notin Machine /\ Shared \notin Machine /\ Nobody \notin Machine
         /\ NoSerial # Shared
<1>1. NoSerial \notin Machine /\ Shared \notin Machine /\ Nobody \notin Machine
  OBVIOUS
<1>2. NoSerial # Shared
  BY DEF NoSerial, Shared
<1> QED
  BY <1>1, <1>2 DEF Serial, FileKey, Key

\* Two machines with one key in a file have the serial that many have.
LEMMA KeysTellApart ==
  ASSUME Labelled, NEW m \in Machine, NEW n \in Machine, FileKey(m) = FileKey(n) PROVE m = n
<1>1. NoSerial \notin Machine /\ Shared \notin Machine /\ NoSerial # Shared
  BY SerialIs
<1> QED
  BY <1>1 DEF FileKey, Serial, Labelled

LEMMA PlanInvInit == Init => PlanInv /\ Whole
<1> SUFFICES ASSUME Init PROVE PlanInv /\ Whole
  OBVIOUS
<1> USE DEF Init
<1>1. DOMAIN Nothing = {} /\ Nothing \in Seens
  <2>1. Nothing \in [{} -> Nat] /\ {} \in SUBSET Key
    BY DEF Nothing
  <2> QED
    BY <2>1 DEF Seens
<1>2. \A r \in Request : req[r] = New("new") /\ req[r].at = "new" /\ req[r].todo = <<>>
                         /\ req[r].plan = 0 /\ req[r].seen = Nothing /\ req[r].kind = "create"
  BY DEF New
<1>3. New("new") \in PlanRequest
  BY <1>1 DEF New, PlanRequest
<1>4. PlansTyped
  <2>1. req \in [Request -> PlanRequest]
    BY <1>3
  <2>2. plans \in Seq(Plan) /\ Len(plans) <= MaxPlans /\ DOMAIN plans = {}
    OBVIOUS
  <2> QED
    BY <2>1, <2>2 DEF PlansTyped
<1>5. Here = {}
  BY DEF Here
<1>6. \A r \in Request : Asked(r) /\ ReadIt(r) /\ Made(r)
  <2>1. Range(Nothing) = {}
    BY <1>1 DEF Range
  <2> QED
    BY <1>1, <1>2, <2>1 DEF Asked, ReadIt, Made, Begun, About
<1> QED
  BY <1>2, <1>4, <1>5, <1>6
  DEF PlanInv, Whole, OnePlanPerMachine, InterfacesAsSent, Meeting, Begun

-----------------------------------------------------------------------------
(* What the steps leave alone. *)

\* A handler that does not act, about plans that nobody changes without meeting it.
LEMMA OthersStay ==
  ASSUME NEW q \in Request, PlansTyped, Asked(q), ReadIt(q), req'[q] = req[q],
         Len(plans') \in Nat, Len(plans) <= Len(plans'),
         \A p \in About(q) : p \in Here' \ met' =>
           /\ p \in Here \ met
           /\ plans'[p].rows = plans[p].rows /\ plans'[p].mac = plans[p].mac
  PROVE  Asked(q)' /\ ReadIt(q)' /\ (Made(q) => Made(q)')
<1>1. Len(plans) \in Nat
  BY PlansAre
<1>2. Begun(q)' <=> Begun(q)
  BY DEF Begun
<1>3. About(q)' = About(q)
  BY DEF About
<1>4. Asked(q)'
  BY <1>1, <1>2, <1>3 DEF Asked
<1>5. ReadIt(q)'
  <2>1. req[q].plan \in About(q)
    BY DEF About
  <2> QED
    BY <2>1 DEF ReadIt
<1>6. Made(q) => Made(q)'
  <2> SUFFICES ASSUME Made(q), NEW k \in DOMAIN req[q].seen, req[q].seen[k] \in Here' \ met'
               PROVE  /\ FileKey(plans'[req[q].seen[k]].mac) = k
                      /\ \A row \in plans'[req[q].seen[k]].rows : row.by = q
    BY DEF Made
  <2>1. req[q].seen[k] \in About(q)
    BY DEF About, Range
  <2> QED
    BY <2>1 DEF Made
<1> QED
  BY <1>4, <1>5, <1>6

\* A handler that has dealt with a body goes on with the next one, or ends.
LEMMA DoneLeaves ==
  ASSUME NEW r \in Request, PlansTyped, Asked(r), Begun(r), NEW seen \in Seens, Done(r, seen),
         req[r].kind = "update" => seen = Nothing,
         Range(seen) \subseteq 1..Len(plans'), Len(plans') \in Nat, Len(plans) <= Len(plans')
  PROVE  /\ req' \in [Request -> PlanRequest] /\ \A q \in Request \ {r} : req'[q] = req[q]
         /\ Asked(r)' /\ ReadIt(r)'
         /\ req'[r].seen \in {seen, Nothing}
         /\ About(r)' \subseteq About(r) \cup Range(seen) \cup {0}
<1> DEFINE rest == Tail(req[r].todo)
           next == [req[r] EXCEPT !.at = "begun", !.todo = rest, !.seen = seen]
<1>1. /\ req \in [Request -> PlanRequest] /\ req[r] \in PlanRequest
      /\ req' = [req EXCEPT ![r] = IF rest = <<>> THEN New("ended") ELSE next]
  BY DEF PlansTyped, Done
<1>2. Nothing \in Seens /\ DOMAIN Nothing = {} /\ Range(Nothing) = {}
  <2>1. Nothing \in [{} -> Nat] /\ {} \in SUBSET Key /\ DOMAIN Nothing = {}
    BY DEF Nothing
  <2> QED
    BY <2>1 DEF Seens, Range
<1>3. rest \in Seq(Body)
  <2>1. req[r].todo \in Seq(Body) /\ req[r].todo # <<>>
    BY <1>1 DEF PlanRequest, Asked
  <2> QED
    BY <2>1
<1>4. CASE rest = <<>>
  <2> DEFINE end == New("ended")
  <2>1. /\ end \in PlanRequest /\ end.at = "ended" /\ end.todo = <<>> /\ end.plan = 0
        /\ end.seen = Nothing /\ end.kind = "create"
    BY <1>2 DEF New, PlanRequest
  <2>2. req' = [req EXCEPT ![r] = end]
    BY <1>1, <1>4
  <2> HIDE DEF end
  <2>3. req'[r] = end /\ req' \in [Request -> PlanRequest] /\ \A q \in Request \ {r} : req'[q] = req[q]
    BY <1>1, <2>1, <2>2
  <2>4. ~ Begun(r)' /\ About(r)' = {0}
    BY <1>2, <2>1, <2>3 DEF Begun, About
  <2> QED
    BY <1>2, <2>1, <2>3, <2>4 DEF Asked, ReadIt
<1>5. CASE rest # <<>>
  <2>1. /\ next \in PlanRequest /\ next.at = "begun" /\ next.todo = rest /\ next.plan = req[r].plan
        /\ next.seen = seen /\ next.kind = req[r].kind
    BY <1>1, <1>3 DEF PlanRequest
  <2>2. req' = [req EXCEPT ![r] = next]
    BY <1>1, <1>5
  <2> HIDE DEF next, rest
  <2>3. req'[r] = next /\ req' \in [Request -> PlanRequest] /\ \A q \in Request \ {r} : req'[q] = req[q]
    BY <1>1, <2>1, <2>2
  <2>4. Begun(r)' /\ About(r)' = {req[r].plan} \cup Range(seen)
    BY <2>1, <2>3 DEF Begun, About
  <2>5. req[r].plan \in 0..Len(plans) /\ Len(plans) \in Nat
    BY PlansAre DEF Asked, About
  <2>6. Asked(r)'
    <3>1. About(r)' \subseteq 0..Len(plans')
      BY <2>4, <2>5
    <3> QED
      BY <1>5, <2>1, <2>3, <2>4, <3>1 DEF Asked
  <2>7. ReadIt(r)'
    BY <2>1, <2>3 DEF ReadIt
  <2> QED
    BY <2>1, <2>3, <2>4, <2>6, <2>7 DEF About
<1> QED
  BY <1>4, <1>5

\* Nobody meets when a handler goes on about the same plans, or about a new one.
LEMMA NobodyMeets ==
  ASSUME NEW r \in Request, PlanInv, \A q \in Request \ {r} : req'[q] = req[q], met' = met,
         About(r)' \subseteq About(r) \cup {0, Len(plans) + 1}, Begun(r)' => Begun(r)
  PROVE  Meeting'
<1>1. Len(plans) \in Nat /\ Meeting /\ \A q \in Request : Asked(q)
  BY PlansAre DEF PlanInv
<1>2. ASSUME NEW q \in Request \ {r}
      PROVE  /\ About(q)' = About(q) /\ About(q) \subseteq 0..Len(plans)
             /\ Begun(q)' <=> Begun(q)
  BY <1>1, <1>2 DEF About, Begun, Asked
<1>3. ASSUME NEW q \in Request \ {r}, Begun(q)', Begun(r)'
      PROVE  (About(q)' \cap About(r)') \ {0} \subseteq met
  <2>1. (About(q) \cap About(r)) \ {0} \subseteq met
    BY <1>1, <1>2, <1>3 DEF Meeting
  <2>2. Len(plans) + 1 \notin About(q)
    BY <1>1, <1>2
  <2> QED
    BY <1>2, <2>1, <2>2
<1>4. ASSUME NEW q \in Request \ {r}, NEW o \in Request \ {r}, q # o, Begun(q)', Begun(o)'
      PROVE  (About(q)' \cap About(o)') \ {0} \subseteq met
  BY <1>1, <1>2, <1>4 DEF Meeting
<1> QED
  BY <1>3, <1>4 DEF Meeting

\* The register stays sound while plans are only switched, ordered or deleted.
PlansStay ==
  /\ plans' \in Seq(Plan) /\ Len(plans') = Len(plans) /\ DOMAIN plans' = DOMAIN plans
  /\ \A p \in DOMAIN plans :
       /\ plans'[p].here => plans[p].here
       /\ plans'[p].serial = plans[p].serial /\ plans'[p].mac = plans[p].mac
       /\ plans'[p].owner = plans[p].owner /\ plans'[p].rows = plans[p].rows

LEMMA QuietKeeps ==
  ASSUME PlanInv, PlansStay, UNCHANGED <<req, met>>, open' \in BOOLEAN, jobs' \subseteq Job
  PROVE  PlanInv' /\ (Whole => Whole')
<1>1. PlansTyped /\ OnePlanPerMachine /\ Meeting /\ \A r \in Request : Asked(r) /\ ReadIt(r)
  BY DEF PlanInv
<1>2. PlansTyped'
  BY <1>1 DEF PlansTyped, PlansStay
<1>3. Here' \subseteq Here /\ Here \subseteq DOMAIN plans
  BY DEF Here, PlansStay
<1>4. OnePlanPerMachine'
  BY <1>1, <1>3 DEF OnePlanPerMachine, PlansStay
<1>5. Meeting'
  BY <1>1 DEF Meeting, Begun, About
<1>6. ASSUME NEW q \in Request PROVE Asked(q)' /\ ReadIt(q)' /\ (Made(q) => Made(q)')
  <2>1. Len(plans') \in Nat /\ Len(plans) <= Len(plans')
    BY <1>1, PlansAre DEF PlansStay
  <2>2. \A p \in About(q) : p \in Here' \ met' =>
           /\ p \in Here \ met
           /\ plans'[p].rows = plans[p].rows /\ plans'[p].mac = plans[p].mac
    BY <1>3 DEF PlansStay
  <2> QED
    BY <1>1, <2>1, <2>2, OthersStay
<1>7. InterfacesAsSent => InterfacesAsSent'
  BY <1>3 DEF InterfacesAsSent, PlansStay
<1> QED
  BY <1>2, <1>4, <1>5, <1>6, <1>7 DEF PlanInv, Whole

-----------------------------------------------------------------------------
(* Plans are switched, ordered and deleted. *)

LEMMA SwitchKeeps == ASSUME PlanInv, Switch PROVE PlanInv' /\ (Whole => Whole')
<1>1. PlansStay /\ UNCHANGED <<req, met>>
  BY DEF Switch, PlansStay, PlanInv, PlansTyped
<1>2. open' \in BOOLEAN /\ jobs' \subseteq Job
  BY DEF Switch, PlanInv, PlansTyped
<1> QED
  BY <1>1, <1>2, QuietKeeps

LEMMA FlagKeeps ==
  ASSUME PlanInv, NEW p \in Here, Delete(p) \/ SwitchPlan(p) PROVE PlanInv' /\ (Whole => Whole')
<1>1. PlansTyped
  BY DEF PlanInv
<1>2. p \in DOMAIN plans /\ plans[p] \in Plan /\ plans \in Seq(Plan) /\ plans[p].here
  BY <1>1, PlansAre DEF Here
<1>3. UNCHANGED <<open, jobs, req, met>>
  BY DEF Delete, SwitchPlan
<1>4. PICK x \in Plan : /\ plans' = [plans EXCEPT ![p] = x]
                        /\ x.serial = plans[p].serial /\ x.mac = plans[p].mac
                        /\ x.owner = plans[p].owner /\ x.rows = plans[p].rows
  <2>1. CASE Delete(p)
    <3> DEFINE x == [plans[p] EXCEPT !.here = FALSE]
    <3>1. /\ x \in Plan /\ x.serial = plans[p].serial /\ x.mac = plans[p].mac
          /\ x.owner = plans[p].owner /\ x.rows = plans[p].rows
      BY <1>2 DEF Plan
    <3>2. plans' = [plans EXCEPT ![p] = x]
      BY <2>1 DEF Delete
    <3> QED
      BY <3>1, <3>2
  <2>2. CASE SwitchPlan(p)
    <3> DEFINE x == [plans[p] EXCEPT !.enabled = ~ @]
    <3>1. /\ x \in Plan /\ x.serial = plans[p].serial /\ x.mac = plans[p].mac
          /\ x.owner = plans[p].owner /\ x.rows = plans[p].rows
      BY <1>2 DEF Plan
    <3>2. plans' = [plans EXCEPT ![p] = x]
      BY <2>2 DEF SwitchPlan
    <3> QED
      BY <3>1, <3>2
  <2> QED
    BY <2>1, <2>2
<1>5. PlansStay
  <2>1. /\ plans' \in Seq(Plan) /\ Len(plans') = Len(plans) /\ DOMAIN plans' = DOMAIN plans
        /\ plans'[p] = x /\ \A q \in DOMAIN plans \ {p} : plans'[q] = plans[q]
    BY <1>2, <1>4, PlanExchanged
  <2> QED
    BY <1>2, <1>4, <2>1 DEF PlansStay
<1> QED
  BY <1>1, <1>3, <1>5, QuietKeeps DEF PlansTyped

LEMMA CreateJobKeeps ==
  ASSUME PlanInv, NEW asked \in SUBSET DOMAIN plans, NEW cautious \in BOOLEAN, CreateJob(asked, cautious)
  PROVE  PlanInv' /\ (Whole => Whole')
<1> DEFINE items == {p \in asked \cap Here : plans[p].enabled /\ plans[p].rows # {}}
           changed(p) == IF p \in items THEN [plans[p] EXCEPT !.status = "generated"] ELSE plans[p]
           job == [cautious |-> cautious, asked |-> asked, items |-> items]
<1>1. /\ plans' = [p \in DOMAIN plans |-> changed(p)]
      /\ jobs' = jobs \cup {job}
      /\ UNCHANGED <<open, req, met>>
  BY DEF CreateJob
<1>2. PlansTyped
  BY DEF PlanInv
<1>3. /\ DOMAIN plans = 1..Len(plans) /\ Len(plans) \in Nat /\ DOMAIN plans \subseteq 1..MaxPlans
      /\ \A p \in DOMAIN plans : plans[p] \in Plan
  BY <1>2, PlansAre
<1>4. job \in Job
  BY <1>3 DEF Job
<1>5. ASSUME NEW p \in DOMAIN plans
      PROVE  /\ changed(p) \in Plan /\ changed(p).here = plans[p].here
             /\ changed(p).serial = plans[p].serial /\ changed(p).mac = plans[p].mac
             /\ changed(p).owner = plans[p].owner /\ changed(p).rows = plans[p].rows
  BY <1>3, <1>5 DEF Plan
<1> HIDE DEF changed, job
<1>6. PlansStay
  <2>1. plans' \in [1..Len(plans) -> Plan]
    BY <1>1, <1>3, <1>5
  <2>2. plans' \in Seq(Plan) /\ Len(plans') = Len(plans) /\ DOMAIN plans' = DOMAIN plans
    BY ONLY <1>3, <2>1
  <2> QED
    BY <1>1, <1>5, <2>2 DEF PlansStay
<1>7. open' \in BOOLEAN /\ jobs' \subseteq Job
  BY <1>1, <1>2, <1>4 DEF PlansTyped
<1> QED
  BY <1>1, <1>6, <1>7, QuietKeeps

-----------------------------------------------------------------------------
(* Requests begin, are checked and write. *)

\* A request begins on one body or more, about a plan that is there or about none.
LEMMA BeginKeeps ==
  ASSUME PlanInv, NEW r \in Request, NEW kind \in {"create", "update", "import"},
         NEW todo \in Seq(Body), todo # <<>>, NEW plan \in Nat, plan \in DOMAIN plans \/ plan = 0,
         kind # "update" => plan = 0, Begin(r, kind, todo, plan)
  PROVE  PlanInv' /\ (Whole => Whole')
<1> DEFINE h == [New("begun") EXCEPT !.kind = kind, !.todo = todo, !.plan = plan]
<1>1. /\ req[r].at = "new" /\ req' = [req EXCEPT ![r] = h]
      /\ met' = met \cup (({plan} \ {0}) \cap UNION {About(q) : q \in {q \in Request : Begun(q)}})
      /\ UNCHANGED <<open, plans, jobs>>
  BY DEF Begin
<1>2. /\ PlansTyped /\ OnePlanPerMachine /\ Meeting
      /\ \A q \in Request : Asked(q) /\ ReadIt(q)
      /\ req \in [Request -> PlanRequest]
  BY DEF PlanInv, PlansTyped
<1>3. Nothing \in Seens /\ DOMAIN Nothing = {} /\ Range(Nothing) = {}
  <2>1. Nothing \in [{} -> Nat] /\ {} \in SUBSET Key /\ DOMAIN Nothing = {}
    BY DEF Nothing
  <2> QED
    BY <2>1 DEF Seens, Range
<1>4. /\ h \in PlanRequest /\ h.at = "begun" /\ h.kind = kind /\ h.todo = todo /\ h.plan = plan
      /\ h.seen = Nothing
  BY <1>3 DEF New, PlanRequest
<1> HIDE DEF h
<1>5. req'[r] = h /\ req' \in [Request -> PlanRequest] /\ \A q \in Request \ {r} : req'[q] = req[q]
  BY <1>1, <1>2, <1>4
<1>6. About(r)' = {plan} /\ Begun(r)'
  BY <1>3, <1>4, <1>5 DEF About, Begun
<1>7. /\ Len(plans) \in Nat /\ DOMAIN plans = 1..Len(plans) /\ met' \subseteq DOMAIN plans
  <2>1. Len(plans) \in Nat /\ DOMAIN plans = 1..Len(plans) /\ met \subseteq DOMAIN plans
    BY <1>2, PlansAre DEF PlansTyped
  <2> QED
    BY <1>1, <2>1
<1>8. PlansTyped'
  BY <1>1, <1>2, <1>5, <1>7 DEF PlansTyped
<1>9. ASSUME NEW q \in Request \ {r} PROVE About(q)' = About(q) /\ (Begun(q)' <=> Begun(q))
  BY <1>5, <1>9 DEF About, Begun
<1>10. Meeting'
  <2>1. ASSUME NEW q \in Request \ {r}, Begun(q) PROVE (About(q) \cap {plan}) \ {0} \subseteq met'
    BY <1>1, <2>1
  <2>2. ASSUME NEW q \in Request \ {r}, NEW o \in Request \ {r}, q # o, Begun(q), Begun(o)
        PROVE  (About(q) \cap About(o)) \ {0} \subseteq met'
    BY <1>1, <1>2, <2>2 DEF Meeting
  <2> QED
    BY <1>6, <1>9, <2>1, <2>2 DEF Meeting
<1>11. Here' = Here /\ OnePlanPerMachine'
  BY <1>1, <1>2 DEF OnePlanPerMachine, Here
<1>12. ASSUME NEW q \in Request PROVE Asked(q)' /\ ReadIt(q)' /\ (Made(q) => Made(q)')
  <2>1. CASE q # r
    <3>1. \A p \in About(q) : p \in Here' \ met' =>
            /\ p \in Here \ met /\ plans'[p].rows = plans[p].rows /\ plans'[p].mac = plans[p].mac
      BY <1>1, <1>11
    <3> QED
      BY <1>1, <1>2, <1>5, <1>7, <2>1, <3>1, OthersStay
  <2>2. CASE q = r
    <3>1. Asked(r)'
      BY <1>1, <1>3, <1>4, <1>5, <1>6, <1>7 DEF Asked
    <3>2. ReadIt(r)' /\ Made(r)'
      BY <1>3, <1>4, <1>5 DEF ReadIt, Made
    <3> QED
      BY <2>2, <3>1, <3>2
  <2> QED
    BY <2>1, <2>2
<1>13. InterfacesAsSent => InterfacesAsSent'
  BY <1>1, <1>11 DEF InterfacesAsSent
<1> QED
  BY <1>8, <1>10, <1>11, <1>12, <1>13 DEF PlanInv, Whole

\* The checks change nothing but the handler.
LEMMA CheckKeeps == ASSUME PlanInv, NEW r \in Request, Check(r) PROVE PlanInv' /\ (Whole => Whole')
<1> DEFINE old == IF req[r].plan = 0 THEN {} ELSE plans[req[r].plan].rows
           h == [req[r] EXCEPT !.at = "checked", !.old = old]
<1>1. /\ req[r].at = "begun" /\ UNCHANGED <<open, plans, jobs, met>>
      /\ \/ (req[r].plan # 0 => req[r].plan \in Here) /\ req' = [req EXCEPT ![r] = h]
         \/ Done(r, req[r].seen)
  BY DEF Check
<1>2. /\ PlansTyped /\ OnePlanPerMachine /\ Meeting
      /\ \A q \in Request : Asked(q) /\ ReadIt(q)
      /\ req \in [Request -> PlanRequest] /\ req[r] \in PlanRequest
  BY DEF PlanInv, PlansTyped
<1>3. Here' = Here /\ OnePlanPerMachine' /\ Len(plans') = Len(plans) /\ Len(plans) \in Nat
  BY <1>1, <1>2, PlansAre DEF OnePlanPerMachine, Here
<1>4. /\ req' \in [Request -> PlanRequest] /\ \A q \in Request \ {r} : req'[q] = req[q]
      /\ Asked(r)' /\ ReadIt(r)' /\ About(r)' \subseteq About(r) \cup {0, Len(plans) + 1}
      /\ (Made(r) => Made(r)')
  <2>1. CASE (req[r].plan # 0 => req[r].plan \in Here) /\ req' = [req EXCEPT ![r] = h]
    <3>1. old \subseteq Row
      BY <1>2, <2>1, PlansAre
    <3>2. /\ h \in PlanRequest /\ h.at = "checked" /\ h.kind = req[r].kind /\ h.todo = req[r].todo
          /\ h.plan = req[r].plan /\ h.old = old /\ h.seen = req[r].seen
      BY <1>2, <3>1 DEF PlanRequest
    <3> HIDE DEF h
    <3>3. req'[r] = h /\ req' \in [Request -> PlanRequest] /\ \A q \in Request \ {r} : req'[q] = req[q]
      BY <1>2, <2>1, <3>2
    <3>4. About(r)' = About(r)
      BY <3>2, <3>3 DEF About
    <3>5. Asked(r)'
      BY <1>1, <1>2, <3>2, <3>3, <3>4 DEF Asked, Begun
    <3>6. ReadIt(r)'
      <4>1. 0 \notin Here
        BY <1>2, PlansAre
      <4> QED
        BY <1>1, <1>3, <3>2, <3>3, <4>1 DEF ReadIt
    <3>7. Made(r) => Made(r)'
      BY <1>1, <1>3, <3>2, <3>3 DEF Made
    <3> QED
      BY <3>3, <3>4, <3>5, <3>6, <3>7
  <2>2. CASE Done(r, req[r].seen)
    <3>1. /\ Begun(r) /\ req[r].seen \in Seens /\ Range(req[r].seen) \subseteq 1..Len(plans')
          /\ req[r].kind = "update" => req[r].seen = Nothing
      BY <1>1, <1>2, <1>3 DEF Begun, PlanRequest, Asked
    <3>2. /\ req' \in [Request -> PlanRequest] /\ \A q \in Request \ {r} : req'[q] = req[q]
          /\ Asked(r)' /\ ReadIt(r)'
          /\ req'[r].seen \in {req[r].seen, Nothing}
          /\ About(r)' \subseteq About(r) \cup Range(req[r].seen) \cup {0}
      BY <1>2, <1>3, <2>2, <3>1, DoneLeaves
    <3>3. Made(r) => Made(r)'
      <4>1. DOMAIN Nothing = {}
        BY DEF Nothing
      <4> QED
        BY <1>1, <1>3, <3>2, <4>1 DEF Made
    <3> QED
      BY <3>2, <3>3 DEF About
  <2> QED
    BY <1>1, <2>1, <2>2
<1>5. PlansTyped'
  BY <1>1, <1>2, <1>4 DEF PlansTyped
<1>6. Meeting'
  <2>1. Begun(r)
    BY <1>1 DEF Begun
  <2> QED
    BY <1>1, <1>4, <2>1, NobodyMeets
<1>7. ASSUME NEW q \in Request PROVE Asked(q)' /\ ReadIt(q)' /\ (Made(q) => Made(q)')
  <2>1. CASE q # r
    <3>1. \A p \in About(q) : p \in Here' \ met' =>
            /\ p \in Here \ met /\ plans'[p].rows = plans[p].rows /\ plans'[p].mac = plans[p].mac
      BY <1>1, <1>3
    <3> QED
      BY <1>2, <1>3, <1>4, <2>1, <3>1, OthersStay
  <2> QED
    BY <1>4, <2>1
<1>8. InterfacesAsSent => InterfacesAsSent'
  BY <1>1, <1>3 DEF InterfacesAsSent
<1> QED
  BY <1>3, <1>5, <1>6, <1>7, <1>8 DEF PlanInv, Whole

\* A new plan comes with a serial and an owner that no other has.
LEMMA InsertKeeps == ASSUME PlanInv, NEW r \in Request, Insert(r) PROVE PlanInv' /\ (Whole => Whole')
<1>0. PICK b : b = Body1(r)
  OBVIOUS
<1> DEFINE key == FileKey(b.machine)
           new == [here |-> TRUE, serial |-> Serial(b.machine), mac |-> b.machine,
                   owner |-> IF b.owned THEN b.machine ELSE Nobody,
                   enabled |-> FALSE, status |-> "pending", rows |-> Rows(b, r)]
           seen == [k \in DOMAIN req[r].seen \cup {key} |->
                      IF k = key THEN Len(plans) + 1 ELSE req[r].seen[k]]
<1>1. /\ req[r].at = "checked" /\ req[r].kind # "update" /\ Len(plans) < MaxPlans
      /\ UNCHANGED <<open, jobs, met>>
      /\ \/ Indexed(b, 0) /\ plans' = Append(plans, new) /\ Done(r, seen)
         \/ plans' = plans /\ Done(r, req[r].seen)
  BY <1>0 DEF Insert
<1>2. /\ PlansTyped /\ OnePlanPerMachine /\ Meeting
      /\ \A q \in Request : Asked(q) /\ ReadIt(q)
      /\ req \in [Request -> PlanRequest] /\ req[r] \in PlanRequest
      /\ met \subseteq DOMAIN plans
  BY DEF PlanInv, PlansTyped
<1>3. /\ plans \in Seq(Plan) /\ Len(plans) \in Nat /\ DOMAIN plans = 1..Len(plans) /\ Here \subseteq DOMAIN plans
      /\ \A p \in DOMAIN plans : plans[p] \in Plan
  BY <1>2, PlansAre
<1>4. /\ Begun(r) /\ req[r].seen \in Seens /\ Range(req[r].seen) \subseteq 1..Len(plans)
      /\ req[r].todo \in Seq(Body) /\ req[r].todo # <<>>
  BY <1>1, <1>2 DEF Begun, PlanRequest, Asked
<1>5. b \in Body /\ b.machine \in Machine
  <2>1. b \in Body
    BY <1>0, <1>4 DEF Body1
  <2> QED
    BY <2>1 DEF Body
<1>6. CASE plans' = plans /\ Done(r, req[r].seen)
  <2>1. /\ req' \in [Request -> PlanRequest] /\ \A q \in Request \ {r} : req'[q] = req[q]
        /\ Asked(r)' /\ ReadIt(r)'
        /\ req'[r].seen \in {req[r].seen, Nothing}
        /\ About(r)' \subseteq About(r) \cup Range(req[r].seen) \cup {0}
    BY <1>1, <1>2, <1>3, <1>4, <1>6, DoneLeaves
  <2>2. Here' = Here /\ OnePlanPerMachine'
    BY <1>2, <1>6 DEF OnePlanPerMachine, Here
  <2>3. PlansTyped'
    BY <1>1, <1>2, <1>6, <2>1 DEF PlansTyped
  <2>4. Meeting'
    BY <1>1, <1>4, <2>1, NobodyMeets DEF About
  <2>5. ASSUME NEW q \in Request PROVE Asked(q)' /\ ReadIt(q)' /\ (Made(q) => Made(q)')
    <3>1. CASE q # r
      <4>1. \A p \in About(q) : p \in Here' \ met' =>
              /\ p \in Here \ met /\ plans'[p].rows = plans[p].rows /\ plans'[p].mac = plans[p].mac
        BY <1>1, <1>6, <2>2
      <4> QED
        BY <1>2, <1>3, <1>6, <2>1, <3>1, <4>1, OthersStay
    <3>2. Made(r) => Made(r)'
      <4>1. DOMAIN Nothing = {}
        BY DEF Nothing
      <4> QED
        BY <1>1, <1>6, <2>1, <2>2, <4>1 DEF Made
    <3> QED
      BY <2>1, <3>1, <3>2
  <2>6. InterfacesAsSent => InterfacesAsSent'
    BY <1>1, <1>6, <2>2 DEF InterfacesAsSent
  <2> QED
    BY <2>2, <2>3, <2>4, <2>5, <2>6 DEF PlanInv, Whole
<1>7. CASE Indexed(b, 0) /\ plans' = Append(plans, new) /\ Done(r, seen)
  <2> DEFINE n == Len(plans) + 1
  <2>1. new \in Plan
    <3>1. Rows(b, r) \subseteq Row
      BY <1>5 DEF Rows, Row, Body
    <3>2. b.owned \in BOOLEAN
      BY <1>5 DEF Body
    <3>3. (IF b.owned THEN b.machine ELSE Nobody) \in Machine \cup {Nobody}
      BY <1>5
    <3>4. Serial(b.machine) \in Machine \cup {NoSerial, Shared}
      BY ONLY <1>5, SerialIs
    <3> QED
      BY <1>5, <3>1, <3>3, <3>4 DEF Plan
  <2>2. /\ new.here /\ new.serial = Serial(b.machine) /\ new.mac = b.machine
        /\ new.owner = (IF b.owned THEN b.machine ELSE Nobody)
        /\ \A row \in new.rows : row.for = b.machine /\ row.by = r
    BY DEF Rows
  <2> HIDE DEF new
  <2>3. /\ plans' \in Seq(Plan) /\ Len(plans') = n /\ n \in Nat /\ plans'[n] = new
        /\ \A p \in 1..Len(plans) : plans'[p] = plans[p] /\ p # n
        /\ DOMAIN plans' = 1..n
    BY ONLY <1>3, <1>7, <2>1
  <2>4. n \notin DOMAIN plans /\ 1..n = DOMAIN plans \cup {n}
    BY <1>3
  <2> HIDE DEF n
  <2>5. Here' = Here \cup {n}
    BY <1>3, <2>2, <2>3, <2>4 DEF Here
  <2>6. seen \in Seens /\ Range(seen) \subseteq Range(req[r].seen) \cup {n}
    <3>1. DOMAIN req[r].seen \subseteq Key /\ \A k \in DOMAIN req[r].seen : req[r].seen[k] \in Nat
      BY <1>4 DEF Seens
    <3>2. key \in Key
      BY <1>5, SerialIs
    <3>3. Len(plans) + 1 = n
      BY DEF n
    <3>4. seen \in [DOMAIN req[r].seen \cup {key} -> Nat]
      BY <2>3, <3>1, <3>3
    <3>5. seen \in Seens
      BY <3>1, <3>2, <3>4 DEF Seens
    <3>6. Range(seen) \subseteq Range(req[r].seen) \cup {n}
      BY <3>3 DEF Range
    <3> QED
      BY <3>5, <3>6
  <2>7. /\ DOMAIN seen = DOMAIN req[r].seen \cup {key} /\ seen[key] = n
        /\ \A k \in DOMAIN req[r].seen \ {key} : seen[k] = req[r].seen[k]
    BY DEF n
  <2> HIDE DEF seen
  <2>8. Range(seen) \subseteq 1..Len(plans') /\ Len(plans) <= Len(plans')
    <3>1. Len(plans) <= n
      BY <1>3 DEF n
    <3> QED
      BY <1>3, <1>4, <2>3, <2>4, <2>6, <3>1
  <2>9. /\ req' \in [Request -> PlanRequest] /\ \A q \in Request \ {r} : req'[q] = req[q]
        /\ Asked(r)' /\ ReadIt(r)'
        /\ req'[r].seen \in {seen, Nothing}
        /\ About(r)' \subseteq About(r) \cup Range(seen) \cup {0}
    BY <1>1, <1>2, <1>4, <1>7, <2>3, <2>6, <2>8, DoneLeaves
  <2>10. PlansTyped'
    <3>1. n <= MaxPlans
      BY <1>1, <1>3, NodePlansAssumption DEF n
    <3>2. met' \subseteq DOMAIN plans'
      BY <1>1, <1>2, <2>3, <2>4
    <3> QED
      BY <1>1, <1>2, <2>3, <2>9, <3>1, <3>2 DEF PlansTyped
  <2>11. Meeting'
    <3>1. About(r)' \subseteq About(r) \cup {0, Len(plans) + 1}
      BY <2>6, <2>9 DEF About, n
    <3> QED
      BY <1>1, <1>4, <2>9, <3>1, NobodyMeets
  <2>12. OnePlanPerMachine'
    <3>1. ASSUME NEW p \in Here
          PROVE  /\ plans[p].serial = new.serial => new.serial \notin Machine
                 /\ plans[p].owner = new.owner => new.owner = Nobody
      <4>1. p # 0
        BY <1>3
      <4>2. /\ Serial(b.machine) # NoSerial => plans[p].serial # Serial(b.machine)
            /\ b.owned => plans[p].owner # b.machine
        BY <1>7, <3>1, <4>1 DEF Indexed
      <4> QED
        BY <2>2, <4>2
    <3>2. \A p \in Here : plans'[p] = plans[p]
      BY <1>3, <2>3
    <3>3. ASSUME NEW p \in Here', NEW q \in Here'
          PROVE  /\ plans'[p].serial = plans'[q].serial /\ plans'[p].serial \in Machine => p = q
                 /\ plans'[p].owner = plans'[q].owner /\ plans'[p].owner # Nobody => p = q
      <4>1. CASE p \in Here /\ q \in Here
        BY <1>2, <3>2, <4>1 DEF OnePlanPerMachine
      <4>2. CASE p = n \/ q = n
        BY <2>3, <2>5, <3>1, <3>2, <4>2
      <4> QED
        BY <2>5, <4>1, <4>2
    <3> QED
      BY <3>3 DEF OnePlanPerMachine
  <2>13. ASSUME NEW q \in Request PROVE Asked(q)' /\ ReadIt(q)' /\ (Made(q) => Made(q)')
    <3>1. CASE q # r
      <4>1. \A p \in About(q) : p \in Here' \ met' =>
              /\ p \in Here \ met /\ plans'[p].rows = plans[p].rows /\ plans'[p].mac = plans[p].mac
        <5>1. \A p \in About(q) : p # n
          BY <1>2, <1>3, <2>3, <2>4 DEF Asked, n
        <5> QED
          BY <1>1, <1>3, <2>3, <2>5, <5>1
      <4> QED
        BY <1>2, <2>3, <2>8, <2>9, <3>1, <4>1, OthersStay
    <3>2. ASSUME Made(r) PROVE Made(r)'
      <4>1. DOMAIN Nothing = {}
        BY DEF Nothing
      <4>2. ASSUME NEW k \in DOMAIN seen, seen[k] \in Here' \ met'
            PROVE  /\ FileKey(plans'[seen[k]].mac) = k
                   /\ \A row \in plans'[seen[k]].rows : row.by = r
        <5>1. CASE k = key
          BY <2>2, <2>3, <2>7, <5>1
        <5>2. CASE k # key
          <6>1. k \in DOMAIN req[r].seen /\ seen[k] = req[r].seen[k]
            BY <2>7, <4>2, <5>2
          <6>2. seen[k] \in 1..Len(plans)
            BY <1>4, <6>1 DEF Range
          <6>3. seen[k] \in Here \ met /\ plans'[seen[k]] = plans[seen[k]]
            BY <1>1, <1>3, <2>3, <2>4, <2>5, <4>2, <6>2
          <6> QED
            BY <3>2, <6>1, <6>3 DEF Made
        <5> QED
          BY <5>1, <5>2
      <4> QED
        BY <2>9, <4>1, <4>2 DEF Made
    <3> QED
      BY <2>9, <3>1, <3>2
  <2>14. InterfacesAsSent => InterfacesAsSent'
    <3> SUFFICES ASSUME InterfacesAsSent, NEW p \in Here' \ met', NEW row \in plans'[p].rows,
                        NEW other \in plans'[p].rows
                 PROVE  row.for = plans'[p].mac /\ row.by = other.by
      BY DEF InterfacesAsSent
    <3>1. CASE p = n
      BY <2>2, <2>3, <3>1
    <3>2. CASE p \in Here
      <4>1. plans'[p] = plans[p]
        BY <1>3, <2>3, <3>2
      <4> QED
        BY <1>1, <3>2, <4>1 DEF InterfacesAsSent
    <3> QED
      BY <2>5, <3>1, <3>2
  <2> QED
    BY <2>10, <2>11, <2>12, <2>13, <2>14 DEF PlanInv, Whole
<1> QED
  BY <1>1, <1>6, <1>7

\* A further row of a file goes to the plan that the file has made for the machine.
LEMMA AppendRowKeeps ==
  ASSUME PlanInv, NEW r \in Request, AppendRow(r) PROVE PlanInv' /\ (Labelled /\ Whole => Whole')
<1>0. PICK b : b = Body1(r)
  OBVIOUS
<1>1. /\ req[r].at = "begun" /\ UNCHANGED <<open, jobs, met>> /\ Done(r, req[r].seen)
  BY DEF AppendRow
<1>2. /\ PlansTyped /\ OnePlanPerMachine /\ Meeting
      /\ \A q \in Request : Asked(q) /\ ReadIt(q)
      /\ req \in [Request -> PlanRequest] /\ req[r] \in PlanRequest
  BY DEF PlanInv, PlansTyped
<1>3. /\ plans \in Seq(Plan) /\ Len(plans) \in Nat /\ DOMAIN plans = 1..Len(plans) /\ Here \subseteq DOMAIN plans
      /\ \A p \in DOMAIN plans : plans[p] \in Plan /\ plans[p].mac \in Machine
  BY <1>2, PlansAre
<1>4. /\ Begun(r) /\ req[r].seen \in Seens /\ Range(req[r].seen) \subseteq 1..Len(plans)
      /\ req[r].todo \in Seq(Body) /\ req[r].todo # <<>>
  BY <1>1, <1>2 DEF Begun, PlanRequest, Asked
<1>5. req[r].kind = "update" => req[r].seen = Nothing
  BY <1>2 DEF Asked
<1>6. b \in Body /\ b.machine \in Machine
  <2>1. b \in Body
    BY <1>0, <1>4 DEF Body1
  <2> QED
    BY <2>1 DEF Body
<1>7. PICK p \in Known(r) :
        plans' = IF Names(plans[p].rows) \cap b.names # {} THEN plans
                 ELSE [plans EXCEPT ![p].rows = @ \cup Rows(b, r)]
  BY <1>0 DEF AppendRow
<1>8. PICK k \in DOMAIN req[r].seen : k = FileKey(b.machine) /\ p = req[r].seen[k]
  BY <1>0, <1>7 DEF Known
<1>9. p \in DOMAIN plans /\ p \in About(r) /\ p # 0
  BY <1>3, <1>4, <1>8 DEF Range, About
<1>10. PICK x \in Plan :
         /\ plans' = [plans EXCEPT ![p] = x]
         /\ x.here = plans[p].here /\ x.serial = plans[p].serial /\ x.mac = plans[p].mac
         /\ x.owner = plans[p].owner
         /\ plans[p].rows \subseteq x.rows /\ x.rows \subseteq plans[p].rows \cup Rows(b, r)
  <2>1. CASE plans' = plans
    <3>1. plans = [plans EXCEPT ![p] = plans[p]]
      BY ONLY <1>3, <1>9
    <3> QED
      BY <1>3, <1>9, <2>1, <3>1
  <2>2. CASE plans' = [plans EXCEPT ![p].rows = @ \cup Rows(b, r)]
    <3> DEFINE x == [plans[p] EXCEPT !.rows = @ \cup Rows(b, r)]
    <3>1. Rows(b, r) \subseteq Row
      BY <1>6 DEF Rows, Row, Body
    <3>2. /\ x \in Plan /\ x.here = plans[p].here /\ x.serial = plans[p].serial
          /\ x.mac = plans[p].mac /\ x.owner = plans[p].owner /\ x.rows = plans[p].rows \cup Rows(b, r)
      BY <1>3, <1>9, <3>1 DEF Plan
    <3>3. plans' = [plans EXCEPT ![p] = x]
      BY <2>2
    <3> QED
      BY <3>2, <3>3
  <2> QED
    BY <1>7, <2>1, <2>2
<1>11. /\ plans' \in Seq(Plan) /\ Len(plans') = Len(plans) /\ DOMAIN plans' = DOMAIN plans
       /\ plans'[p] = x /\ \A q \in DOMAIN plans \ {p} : plans'[q] = plans[q]
  BY <1>3, <1>9, <1>10, PlanExchanged
<1>12. /\ req' \in [Request -> PlanRequest] /\ \A q \in Request \ {r} : req'[q] = req[q]
       /\ Asked(r)' /\ ReadIt(r)'
       /\ req'[r].seen \in {req[r].seen, Nothing}
       /\ About(r)' \subseteq About(r) \cup Range(req[r].seen) \cup {0}
  BY <1>1, <1>2, <1>3, <1>4, <1>5, <1>11, DoneLeaves
<1>13. Here' = Here
  BY <1>9, <1>10, <1>11 DEF Here
<1>14. OnePlanPerMachine'
  <2>1. \A q \in DOMAIN plans : plans'[q].serial = plans[q].serial /\ plans'[q].owner = plans[q].owner
    BY <1>10, <1>11
  <2> QED
    BY <1>2, <1>3, <1>13, <2>1 DEF OnePlanPerMachine
<1>15. PlansTyped'
  BY <1>1, <1>2, <1>11, <1>12 DEF PlansTyped
<1>16. Meeting'
  BY <1>1, <1>4, <1>12, NobodyMeets DEF About
<1>17. ASSUME NEW q \in Request \ {r} PROVE Asked(q)' /\ ReadIt(q)' /\ (Made(q) => Made(q)')
  <2>1. ASSUME NEW o \in About(q), o \in Here' \ met'
        PROVE  /\ o \in Here \ met /\ plans'[o].rows = plans[o].rows /\ plans'[o].mac = plans[o].mac
    <3>1. CASE o = p
      <4>1. Begun(q)
        BY <1>2, <1>9, <2>1, <3>1 DEF Asked, About, Range, Nothing
      <4>2. o \in met
        BY <1>2, <1>4, <1>9, <1>17, <2>1, <3>1, <4>1 DEF Meeting
      <4> QED
        BY <1>1, <2>1, <4>2
    <3>2. CASE o # p
      BY <1>1, <1>3, <1>11, <1>13, <2>1, <3>2
    <3> QED
      BY <3>1, <3>2
  <2>2. req'[q] = req[q] /\ Len(plans') \in Nat /\ Len(plans) <= Len(plans')
    BY <1>3, <1>11, <1>12
  <2> QED
    BY <1>2, <2>1, <2>2, OthersStay
<1>18. ASSUME Labelled, Whole PROVE Whole'
  <2>1. p \in Here \ met => /\ b.machine = plans[p].mac
                            /\ \A row \in plans[p].rows : row.by = r
    BY <1>3, <1>6, <1>8, <1>9, <1>18, KeysTellApart DEF Whole, Made
  <2>2. \A row \in Rows(b, r) : row.for = b.machine /\ row.by = r
    BY DEF Rows
  <2>3. p \in Here \ met => \A row \in x.rows : row.by = r
    BY <1>10, <2>1, <2>2
  <2>4. InterfacesAsSent'
    <3> SUFFICES ASSUME NEW o \in Here' \ met', NEW row \in plans'[o].rows, NEW other \in plans'[o].rows
                 PROVE  row.for = plans'[o].mac /\ row.by = other.by
      BY DEF InterfacesAsSent
    <3>0. o \in Here \ met /\ o \in DOMAIN plans
      BY <1>1, <1>3, <1>13
    <3>1. CASE o = p
      <4>1. row \in plans[p].rows \cup Rows(b, r)
        BY <1>10, <1>11, <3>1
      <4>2. row \in plans[p].rows => row.for = plans[p].mac
        BY <1>18, <3>0, <3>1 DEF Whole, InterfacesAsSent
      <4> QED
        BY <1>10, <1>11, <2>1, <2>2, <2>3, <3>0, <3>1, <4>1, <4>2
    <3>2. CASE o # p
      <4>1. plans'[o] = plans[o]
        BY <1>11, <3>0, <3>2
      <4> QED
        BY <1>18, <3>0, <4>1 DEF Whole, InterfacesAsSent
    <3> QED
      BY <3>1, <3>2
  <2>5. Made(r)'
    <3>1. DOMAIN Nothing = {}
      BY DEF Nothing
    <3>2. ASSUME NEW j \in DOMAIN req[r].seen, req[r].seen[j] \in Here' \ met'
          PROVE  /\ FileKey(plans'[req[r].seen[j]].mac) = j
                 /\ \A row \in plans'[req[r].seen[j]].rows : row.by = r
      <4>0. req[r].seen[j] \in Here \ met /\ req[r].seen[j] \in DOMAIN plans
        BY <1>1, <1>3, <1>13, <3>2
      <4>1. FileKey(plans[req[r].seen[j]].mac) = j /\ \A row \in plans[req[r].seen[j]].rows : row.by = r
        BY <1>18, <4>0 DEF Whole, Made
      <4>2. CASE req[r].seen[j] = p
        BY <1>10, <1>11, <2>3, <4>0, <4>1, <4>2
      <4>3. CASE req[r].seen[j] # p
        BY <1>11, <4>0, <4>1, <4>3
      <4> QED
        BY <4>2, <4>3
    <3> QED
      BY <1>12, <3>1, <3>2 DEF Made
  <2> QED
    BY <1>17, <1>18, <2>4, <2>5 DEF Whole
<1> QED
  BY <1>12, <1>14, <1>15, <1>16, <1>17, <1>18 DEF PlanInv

\* An update leaves the interfaces of its body alone, or nothing of it.
LEMMA ReplaceKeeps == ASSUME PlanInv, NEW r \in Request, Replace(r) PROVE PlanInv' /\ (Whole => Whole')
<1>0. PICK b, p : b = Body1(r) /\ p = req[r].plan
  BY SMTT(30)
<1>1. /\ req[r].at = "checked" /\ req[r].kind = "update" /\ UNCHANGED <<open, jobs, met>>
      /\ Done(r, req[r].seen)
      /\ plans' = IF p \in Here /\ Indexed(b, p) /\ Names(plans[p].rows) \cap b.names = {}
                  THEN [plans EXCEPT ![p].serial = Serial(b.machine), ![p].mac = b.machine,
                                     ![p].owner = IF b.owned THEN b.machine ELSE @,
                                     ![p].rows = (@ \ req[r].old) \cup Rows(b, r)]
                  ELSE plans
  BY <1>0 DEF Replace
<1>2. /\ PlansTyped /\ OnePlanPerMachine /\ Meeting
      /\ \A q \in Request : Asked(q) /\ ReadIt(q)
      /\ req \in [Request -> PlanRequest] /\ req[r] \in PlanRequest
  BY DEF PlanInv, PlansTyped
<1>3. /\ plans \in Seq(Plan) /\ Len(plans) \in Nat /\ DOMAIN plans = 1..Len(plans) /\ Here \subseteq DOMAIN plans
      /\ \A q \in DOMAIN plans : plans[q] \in Plan /\ plans[q].owner \in Machine \cup {Nobody}
  BY <1>2, PlansAre
<1>4. /\ Begun(r) /\ req[r].seen = Nothing /\ req[r].seen \in Seens
      /\ Range(req[r].seen) \subseteq 1..Len(plans)
      /\ req[r].todo \in Seq(Body) /\ req[r].todo # <<>>
  BY <1>1, <1>2, SMTT(30) DEF Begun, PlanRequest, Asked
<1>5. b \in Body /\ b.machine \in Machine
  <2>1. b \in Body
    BY <1>0, <1>4 DEF Body1
  <2> QED
    BY <2>1 DEF Body
<1>6. /\ Len(plans') \in Nat /\ Len(plans') = Len(plans) /\ plans' \in Seq(Plan) /\ DOMAIN plans' = DOMAIN plans
      /\ \/ plans' = plans
         \/ /\ p \in Here /\ Indexed(b, p) /\ \A q \in DOMAIN plans \ {p} : plans'[q] = plans[q]
            /\ plans'[p].here /\ plans'[p].serial = Serial(b.machine) /\ plans'[p].mac = b.machine
            /\ plans'[p].owner \in {plans[p].owner, b.machine}
            /\ plans'[p].owner = plans[p].owner \/ b.owned
            /\ plans'[p].rows = (plans[p].rows \ req[r].old) \cup Rows(b, r)
  <2>1. CASE plans' = plans
    BY <1>3, <2>1
  <2>2. CASE p \in Here /\ Indexed(b, p) /\ Names(plans[p].rows) \cap b.names = {}
    <3> DEFINE x == [plans[p] EXCEPT !.serial = Serial(b.machine), !.mac = b.machine,
                                     !.owner = IF b.owned THEN b.machine ELSE @,
                                     !.rows = (@ \ req[r].old) \cup Rows(b, r)]
    <3>1. Rows(b, r) \subseteq Row
      BY <1>5 DEF Rows, Row, Body
    <3>2. (IF b.owned THEN b.machine ELSE plans[p].owner) \in Machine \cup {Nobody}
      BY <1>3, <1>5, <2>2
    <3>3. Serial(b.machine) \in Machine \cup {NoSerial, Shared}
      BY ONLY <1>5, SerialIs
    <3>4. /\ x \in Plan /\ x.here /\ x.serial = Serial(b.machine) /\ x.mac = b.machine
          /\ x.owner = (IF b.owned THEN b.machine ELSE plans[p].owner)
          /\ x.rows = (plans[p].rows \ req[r].old) \cup Rows(b, r)
      BY <1>3, <1>5, <2>2, <3>1, <3>2, <3>3, ZenonT(40) DEF Plan, Here
    <3>5. plans' = [plans EXCEPT ![p] = x] /\ p \in DOMAIN plans
      BY <1>1, <1>3, <2>2
    <3> HIDE DEF x
    <3>6. /\ plans' \in Seq(Plan) /\ Len(plans') = Len(plans) /\ DOMAIN plans' = DOMAIN plans
          /\ plans'[p] = x /\ \A q \in DOMAIN plans \ {p} : plans'[q] = plans[q]
      BY <1>3, <3>4, <3>5, PlanExchanged
    <3> QED
      BY <1>3, <2>2, <3>4, <3>6
  <2> QED
    BY <1>1, <2>1, <2>2
<1>7. /\ req' \in [Request -> PlanRequest] /\ \A q \in Request \ {r} : req'[q] = req[q]
      /\ Asked(r)' /\ ReadIt(r)'
      /\ req'[r].seen = Nothing
      /\ About(r)' \subseteq About(r) \cup Range(req[r].seen) \cup {0}
  <2>1. /\ PlansTyped /\ Asked(r) /\ Begun(r) /\ req[r].seen \in Seens /\ Done(r, req[r].seen)
        /\ req[r].kind = "update" => req[r].seen = Nothing
    BY <1>1, <1>2, <1>4
  <2>2. /\ Range(req[r].seen) \subseteq 1..Len(plans') /\ Len(plans') \in Nat
        /\ Len(plans) <= Len(plans')
    BY <1>3, <1>4, <1>6
  <2>3. /\ req' \in [Request -> PlanRequest] /\ \A q \in Request \ {r} : req'[q] = req[q]
        /\ Asked(r)' /\ ReadIt(r)'
        /\ req'[r].seen \in {req[r].seen, Nothing}
        /\ About(r)' \subseteq About(r) \cup Range(req[r].seen) \cup {0}
    BY ONLY <2>1, <2>2, DoneLeaves
  <2> QED
    BY ONLY <2>3, <1>4
<1>8. Here' = Here
  BY <1>3, <1>6 DEF Here
<1>9. PlansTyped'
  BY <1>1, <1>2, <1>6, <1>7 DEF PlansTyped
<1>10. Meeting'
  BY <1>1, <1>4, <1>7, NobodyMeets DEF About
<1>11. OnePlanPerMachine'
  <2>1. CASE plans' = plans
    BY <1>2, <1>8, <2>1 DEF OnePlanPerMachine
  <2>2. CASE plans' # plans
    <3>1. ASSUME NEW q \in Here \ {p}
          PROVE  /\ plans'[q] = plans[q]
                 /\ plans[q].serial = plans'[p].serial => plans'[p].serial \notin Machine
                 /\ plans[q].owner = plans'[p].owner => plans'[p].owner = Nobody
      <4>1. /\ Serial(b.machine) # NoSerial => plans[q].serial # Serial(b.machine)
            /\ b.owned => plans[q].owner # b.machine
        BY <1>6, <2>2, <3>1 DEF Indexed
      <4>2. plans'[p].owner = plans[p].owner => (plans[q].owner = plans'[p].owner => plans'[p].owner = Nobody)
        BY <1>2, <1>6, <2>2, <3>1 DEF OnePlanPerMachine
      <4> QED
        BY <1>3, <1>6, <2>2, <3>1, <4>1, <4>2
    <3>2. ASSUME NEW q \in Here, NEW o \in Here
          PROVE  /\ plans'[q].serial = plans'[o].serial /\ plans'[q].serial \in Machine => q = o
                 /\ plans'[q].owner = plans'[o].owner /\ plans'[q].owner # Nobody => q = o
      <4>1. CASE q # p /\ o # p
        BY <1>2, <3>1, <4>1 DEF OnePlanPerMachine
      <4>2. CASE q = p \/ o = p
        BY <3>1, <4>2
      <4> QED
        BY <4>1, <4>2
    <3> QED
      BY <1>8, <3>2 DEF OnePlanPerMachine
  <2> QED
    BY <2>1, <2>2
<1>12. ASSUME NEW q \in Request \ {r} PROVE Asked(q)' /\ ReadIt(q)' /\ (Made(q) => Made(q)')
  <2>1. ASSUME NEW o \in About(q), o \in Here' \ met'
        PROVE  /\ o \in Here \ met /\ plans'[o].rows = plans[o].rows /\ plans'[o].mac = plans[o].mac
    <3>0. o # 0 /\ o \in DOMAIN plans /\ o \in Here \ met
      BY <1>1, <1>3, <1>8, <2>1
    <3>1. CASE o = p
      <4>1. Begun(q)
        BY <1>2, <2>1, <3>0 DEF Asked, About, Range, Nothing
      <4>2. o \in met
        BY <1>0, <1>2, <1>4, <1>12, <2>1, <3>0, <3>1, <4>1 DEF Meeting, About
      <4> QED
        BY <3>0, <4>2
    <3>2. CASE o # p
      BY <1>6, <3>0, <3>2
    <3> QED
      BY <3>0, <3>1, <3>2
  <2>2. req'[q] = req[q] /\ Len(plans') \in Nat /\ Len(plans) <= Len(plans')
    BY <1>3, <1>6, <1>7
  <2> QED
    BY <1>2, <2>1, <2>2, OthersStay
<1>13. Made(r)'
  <2>1. DOMAIN Nothing = {}
    BY DEF Nothing
  <2> QED
    BY <1>7, <2>1 DEF Made
<1>14. InterfacesAsSent => InterfacesAsSent'
  <2> SUFFICES ASSUME InterfacesAsSent,
                      NEW o \in Here' \ met', NEW row \in plans'[o].rows, NEW other \in plans'[o].rows
               PROVE  row.for = plans'[o].mac /\ row.by = other.by
    BY DEF InterfacesAsSent
  <2>0. o \in Here \ met /\ o \in DOMAIN plans
    BY <1>1, <1>3, <1>8
  <2>1. CASE plans'[o] = plans[o]
    BY <2>0, <2>1 DEF InterfacesAsSent
  <2>2. CASE plans'[o] # plans[o]
    <3>1. o = p /\ plans'[p].mac = b.machine
          /\ plans'[p].rows = (plans[p].rows \ req[r].old) \cup Rows(b, r)
      BY <1>6, <2>0, <2>2, SMTT(30)
    <3>2. req[r].old = plans[p].rows
      BY <1>0, <1>1, <1>2, <2>0, <3>1 DEF ReadIt
    <3>3. plans'[p].rows = Rows(b, r)
      BY <3>1, <3>2
    <3> QED
      BY <3>1, <3>3 DEF Rows
  <2> QED
    BY <2>1, <2>2
<1> QED
  BY <1>7, <1>9, <1>10, <1>11, <1>12, <1>13, <1>14 DEF PlanInv, Whole

-----------------------------------------------------------------------------

LEMMA PlanInvStep == PlanInv /\ [Next]_vars => PlanInv' /\ (Labelled /\ Whole => Whole')
<1> SUFFICES ASSUME PlanInv, [Next]_vars PROVE PlanInv' /\ (Labelled /\ Whole => Whole')
  OBVIOUS
<1> DEFINE Keeps == PlanInv' /\ (Whole => Whole')
<1>1. Sent \subseteq Body
  BY DEF Sent
<1>2. ASSUME NEW r \in Request, NEW b \in Sent, BeginCreate(r, b) PROVE Keeps
  <2>1. <<b>> \in Seq(Body) /\ <<b>> # <<>>
    BY <1>1
  <2>2. Begin(r, "create", <<b>>, 0)
    BY <1>2 DEF BeginCreate
  <2> QED
    BY <2>1, <2>2, BeginKeeps
<1>3. ASSUME NEW r \in Request, NEW p \in Here, NEW b \in Sent, BeginUpdate(r, p, b) PROVE Keeps
  <2>1. <<b>> \in Seq(Body) /\ <<b>> # <<>>
    BY <1>1
  <2>2. Begin(r, "update", <<b>>, p)
    BY <1>3 DEF BeginUpdate
  <2>3. p \in Nat /\ p \in DOMAIN plans
    BY PlansAre DEF PlanInv
  <2> QED
    BY <2>1, <2>2, <2>3, BeginKeeps
<1>4. ASSUME NEW r \in Request, NEW todo \in Files, BeginImport(r, todo) PROVE Keeps
  <2>1. todo \in Seq(Body) /\ todo # <<>>
    <3>1. PICK b \in Sent, c \in Sent : todo = <<b, c>>
      BY DEF Files
    <3>2. b \in Body /\ c \in Body
      BY <1>1
    <3> QED
      BY <3>1, <3>2
  <2>2. Begin(r, "import", todo, 0)
    BY <1>4 DEF BeginImport
  <2> QED
    BY <2>1, <2>2, BeginKeeps
<1>5. ASSUME NEW r \in Request, Check(r) \/ Insert(r) \/ Replace(r) PROVE Keeps
  BY <1>5, CheckKeeps, InsertKeeps, ReplaceKeeps
<1>6. ASSUME NEW r \in Request, AppendRow(r) PROVE PlanInv' /\ (Labelled /\ Whole => Whole')
  BY <1>6, AppendRowKeeps
<1>7. ASSUME NEW p \in Here, Delete(p) \/ SwitchPlan(p) PROVE Keeps
  BY <1>7, FlagKeeps
<1>8. ASSUME NEW asked \in SUBSET DOMAIN plans, NEW cautious \in BOOLEAN, CreateJob(asked, cautious)
      PROVE  Keeps
  BY <1>8, CreateJobKeeps
<1>9. CASE Switch
  BY <1>9, SwitchKeeps
<1>10. CASE UNCHANGED vars
  <2>1. PlansStay /\ UNCHANGED <<open, jobs, req, met>>
    BY <1>10 DEF vars, PlansStay, PlanInv, PlansTyped
  <2> QED
    BY <2>1, QuietKeeps DEF PlanInv, PlansTyped
<1> QED
  BY <1>2, <1>3, <1>4, <1>5, <1>6, <1>7, <1>8, <1>9, <1>10 DEF Next

\* A machine with a serial of its own, or an install record, has one plan, however many
\* handlers have checked at a time that it has none (_check_unique and the unique indexes
\* of node_plans).
THEOREM PlansAreUnique == Spec => []OnePlanPerMachine
<1>1. PlanInv => OnePlanPerMachine
  BY DEF PlanInv
<1> QED
  BY <1>1, PlanInvInit, PlanInvStep, PTL DEF Spec

\* As long as no two machines share a serial, the interfaces of a plan are those that one
\* request sent for its machine (update_plan, import_plans); with two that do, a run shows
\* how a file mixes them.
THEOREM PlansAreWhole ==
  ASSUME \A m, n \in Unlabelled : m = n PROVE Spec => []InterfacesAsSent
<1>1. Labelled
  BY DEF Labelled
<1>2. PlanInv /\ Whole /\ [Next]_vars => (PlanInv /\ Whole)'
  BY <1>1, PlanInvStep
<1>3. Whole => InterfacesAsSent
  BY DEF Whole
<1> QED
  BY <1>2, <1>3, PlanInvInit, PTL DEF Spec

-----------------------------------------------------------------------------
(* Positions: what the handlers and the table hold.                        *)

Cell == Mac \cup {NoMac, BadMac}

Entry == [here : BOOLEAN, place : Place, ip : Addr, mac : Cell, claimed : BOOLEAN,
          source : {"manual", "claim"}]

Lines == Seq(Line)

\* How many lines an answer can count.
Counts == {0} \cup {Skipped(lines, table) : lines \in Lines, table \in Seq(Entry)}

PositionRequest ==
  [at : {"new", "read", "ok", "refused", "failed"},
   kind : {"create", "update", "delete", "claim", "import", "replace"},
   row : 0..MaxRows, lines : Lines, late : BOOLEAN, skipped : Counts, seen : Seq(Entry)]

PositionsTyped ==
  /\ rows \in Seq(Entry) /\ Len(rows) <= MaxRows
  /\ handler \in [ZtpRequest -> PositionRequest]

\* What a handler knows: the register as it is, unless it is late.
Knows(r) ==
  handler[r].at = "read" =>
    /\ Len(handler[r].seen) <= Len(rows)
    /\ ~ handler[r].late => handler[r].seen = rows
    /\ handler[r].kind \in {"create", "update", "claim"} => 1 \in DOMAIN handler[r].lines
    /\ handler[r].kind \in {"update", "claim", "delete"} => handler[r].row \in DOMAIN handler[r].seen
    /\ handler[r].kind = "claim" =>
         handler[r].seen[handler[r].row].mac \in {NoMac, handler[r].lines[1].mac}

PositionInv == PositionsTyped /\ DeviceIsClaimed /\ \A r \in ZtpRequest : Knows(r)

\* In the register t a device stays or is claimed.
Claims(t) ==
  \A i \in Present(t) \ outdated :
    (i \in DOMAIN rows /\ t[i] = rows[i]) \/ (t[i].mac # NoMac => t[i].claimed)

\* To the register t request r gives a position away only by a line with the new device.
Openly(r, t) ==
  \A i \in Present(rows) :
    t[i].here /\ rows[i].mac # NoMac /\ t[i].mac \notin {NoMac, rows[i].mac} =>
      /\ handler[r].kind \in {"update", "import"}
      /\ \E l \in Range(handler[r].lines) : l.mac = t[i].mac

OpenStep ==
  \A r \in ZtpRequest, i \in Present(rows) :
    Succeeds(r) /\ ~handler[r].late /\ rows'[i].here
      /\ rows[i].mac # NoMac /\ rows'[i].mac \notin {NoMac, rows[i].mac} =>
      /\ handler[r].kind \in {"update", "import"}
      /\ \E l \in Range(handler[r].lines) : l.mac = rows'[i].mac

\* The macs that are none.
LEMMA MacsAre == NoMac \in Cell /\ BadMac \in Cell /\ Mac \subseteq Cell /\ NoMac # BadMac
BY DEF Cell, NoMac, BadMac

\* What the register holds.
LEMMA RowsAre ==
  ASSUME NEW t, t \in Seq(Entry)
  PROVE  /\ DOMAIN t = 1..Len(t) /\ Len(t) \in Nat /\ Present(t) \subseteq DOMAIN t
         /\ \A i \in DOMAIN t : t[i] \in Entry
BY DEF Present

\* A new entry.
LEMMA FreshIs ==
  ASSUME NEW l \in Line, NEW source \in {"manual", "claim"}
  PROVE  /\ Fresh(l, source) \in Entry /\ Fresh(l, source).here /\ Fresh(l, source).mac = l.mac
         /\ Fresh(l, source).mac # NoMac => Fresh(l, source).claimed
BY DEF Fresh, Line, Entry, Cell

LEMMA PositionInvInit == ZtpInit => PositionInv
<1> SUFFICES ASSUME ZtpInit PROVE PositionInv
  OBVIOUS
<1>1. PICK n \in 0..MaxRows - MaxLines : \E forms \in [1..n -> Form] :
         rows = [i \in 1..n |-> Fresh(forms[i], IF forms[i].mac = NoMac THEN "manual" ELSE "claim")]
  BY DEF ZtpInit
<1>2. PICK forms \in [1..n -> Form] :
         rows = [i \in 1..n |-> Fresh(forms[i], IF forms[i].mac = NoMac THEN "manual" ELSE "claim")]
  BY <1>1
<1>3. n \in Nat /\ n <= MaxRows /\ 0 \in 0..MaxRows /\ 0 \in 0..MaxLines
  BY ZtpPositionsAssumption
<1>4. Form \subseteq Line
  BY DEF Form, Line
<1>5. ASSUME NEW i \in 1..n PROVE rows[i] \in Entry /\ (rows[i].mac # NoMac => rows[i].claimed)
  <2> DEFINE source == IF forms[i].mac = NoMac THEN "manual" ELSE "claim"
  <2>1. rows[i] = Fresh(forms[i], source) /\ forms[i] \in Line /\ source \in {"manual", "claim"}
    BY <1>2, <1>4, <1>5
  <2> HIDE DEF source
  <2> QED
    BY <2>1, FreshIs
<1>6. rows \in [1..n -> Entry]
  BY <1>2, <1>5
<1>7. rows \in Seq(Entry) /\ Len(rows) = n
  BY ONLY <1>3, <1>6
<1>8. /\ handler = [r \in ZtpRequest |-> [at |-> "new", kind |-> "create", row |-> 0, lines |-> <<>>,
                               late |-> FALSE, skipped |-> 0, seen |-> <<>>]]
      /\ outdated = {}
  BY DEF ZtpInit
<1>9. handler \in [ZtpRequest -> PositionRequest]
  <2>1. <<>> \in Lines
    BY DEF Lines
  <2>2. <<>> \in Seq(Entry) /\ 0 \in Counts
    BY DEF Counts
  <2>3. [at |-> "new", kind |-> "create", row |-> 0, lines |-> <<>>,
         late |-> FALSE, skipped |-> 0, seen |-> <<>>] \in PositionRequest
    BY <1>3, <2>1, <2>2 DEF PositionRequest
  <2> QED
    BY <1>8, <2>3
<1>10. PositionsTyped
  BY <1>3, <1>7, <1>9 DEF PositionsTyped
<1>11. DeviceIsClaimed
  BY <1>5, <1>6 DEF DeviceIsClaimed, Present
<1>12. \A r \in ZtpRequest : Knows(r)
  BY <1>8 DEF Knows
<1> QED
  BY <1>10, <1>11, <1>12 DEF PositionInv

-----------------------------------------------------------------------------
(* What the writing of a register does.                                    *)

\* A handler that fails leaves the others alone.
LEMMA FailKeeps ==
  ASSUME PositionInv, NEW r \in ZtpRequest, NEW answer \in {"refused", "failed"},
         handler' = End(r, answer, 0), UNCHANGED <<rows, outdated>>
  PROVE  PositionInv' /\ OpenStep
<1> DEFINE h == [handler[r] EXCEPT !.at = answer, !.skipped = 0, !.seen = <<>>]
<1>1. handler' = [q \in ZtpRequest |-> IF q = r THEN h ELSE handler[q]]
  BY DEF End
<1>2. handler \in [ZtpRequest -> PositionRequest] /\ handler[r] \in PositionRequest
  BY DEF PositionInv, PositionsTyped
<1>3. h \in PositionRequest /\ h.at = answer
  <2>1. 0 \in Counts /\ <<>> \in Seq(Entry)
    BY DEF Counts
  <2> QED
    BY <1>2, <2>1 DEF PositionRequest
<1> HIDE DEF h
<1>4. handler' \in [ZtpRequest -> PositionRequest] /\ handler'[r] = h
      /\ \A q \in ZtpRequest \ {r} : handler'[q] = handler[q]
  BY <1>1, <1>2, <1>3
<1>5. PositionsTyped' /\ DeviceIsClaimed'
  BY <1>4 DEF PositionInv, PositionsTyped, DeviceIsClaimed, Present
<1>6. ASSUME NEW q \in ZtpRequest PROVE Knows(q)' /\ ~ Succeeds(q)
  <2>1. CASE q = r
    BY <1>3, <1>4, <2>1 DEF Knows, Succeeds
  <2>2. CASE q # r
    BY <1>4, <2>2 DEF PositionInv, Knows, Succeeds
  <2> QED
    BY <2>1, <2>2
<1> QED
  BY <1>5, <1>6 DEF PositionInv, OpenStep

\* A transaction that goes through makes every other handler late.
LEMMA CommitKeeps ==
  ASSUME PositionInv, NEW r \in ZtpRequest, handler[r].at = "read",
         NEW t \in Seq(Entry), Len(rows) <= Len(t), NEW skipped \in Counts,
         NEW otherwise \in {"refused", "failed"}, Commit(r, t, skipped, otherwise),
         ~ handler[r].late => Claims(t) /\ Openly(r, t)
  PROVE  PositionInv' /\ OpenStep
<1> DEFINE touched == {i \in DOMAIN t : i > Len(rows) \/ t[i] # rows[i]}
<1>1. CASE ~ Unique(t)
  <2>1. handler' = End(r, otherwise, 0) /\ UNCHANGED <<rows, outdated>>
    BY <1>1 DEF Commit
  <2> QED
    BY <2>1, FailKeeps
<1>2. CASE Unique(t)
  <2> DEFINE h == [handler[r] EXCEPT !.at = "ok", !.skipped = skipped, !.seen = <<>>]
             other(q) == IF handler[q].at = "read" THEN [handler[q] EXCEPT !.late = TRUE] ELSE handler[q]
  <2>1. /\ rows' = t /\ Len(t) <= MaxRows
        /\ handler' = [q \in ZtpRequest |-> IF q = r THEN h ELSE other(q)]
        /\ outdated' = IF handler[r].late THEN outdated \cup touched ELSE outdated
    BY <1>2 DEF Commit, End
  <2>2. /\ handler \in [ZtpRequest -> PositionRequest] /\ handler[r] \in PositionRequest
        /\ rows \in Seq(Entry)
    BY DEF PositionInv, PositionsTyped
  <2>3. h \in PositionRequest /\ h.at = "ok"
    <3>1. <<>> \in Seq(Entry)
      OBVIOUS
    <3> QED
      BY <2>2, <3>1 DEF PositionRequest
  <2>4. ASSUME NEW q \in ZtpRequest
        PROVE  /\ other(q) \in PositionRequest /\ other(q).at = handler[q].at
               /\ other(q).kind = handler[q].kind /\ other(q).row = handler[q].row
               /\ other(q).lines = handler[q].lines /\ other(q).seen = handler[q].seen
               /\ other(q).at = "read" => other(q).late
    <3>1. handler[q] \in PositionRequest
      BY <2>2
    <3>2. CASE handler[q].at = "read"
      BY <3>1, <3>2 DEF PositionRequest
    <3> QED
      BY <3>1, <3>2
  <2> HIDE DEF h, other
  <2>5. /\ handler' \in [ZtpRequest -> PositionRequest] /\ handler'[r] = h
        /\ \A q \in ZtpRequest \ {r} : handler'[q] = other(q)
    BY <2>1, <2>3, <2>4
  <2>6. PositionsTyped'
    BY <2>1, <2>5 DEF PositionsTyped
  <2>7. Len(t) \in Nat /\ Len(rows) \in Nat /\ DOMAIN t = 1..Len(t) /\ DOMAIN rows = 1..Len(rows)
    BY <2>2, RowsAre
  <2>8. ASSUME NEW q \in ZtpRequest PROVE Knows(q)'
    <3>1. CASE q = r
      BY <2>3, <2>5, <3>1 DEF Knows
    <3>2. CASE q # r
      <4>1. handler[q] \in PositionRequest /\ Knows(q)
        BY <2>2 DEF PositionInv
      <4>2. Len(handler[q].seen) \in Nat
        BY <4>1 DEF PositionRequest
      <4> QED
        BY <2>1, <2>4, <2>5, <2>7, <3>2, <4>1, <4>2, SMTT(30) DEF Knows
    <3> QED
      BY <3>1, <3>2
  <2>9. DeviceIsClaimed'
    <3> SUFFICES ASSUME NEW i \in Present(t) \ outdated', t[i].mac # NoMac PROVE t[i].claimed
      BY <2>1 DEF DeviceIsClaimed
    <3>1. i \in DOMAIN t /\ t[i].here /\ i \notin outdated
      BY <2>1 DEF Present
    <3>2. CASE i \in DOMAIN rows /\ t[i] = rows[i]
      BY <3>1, <3>2 DEF PositionInv, DeviceIsClaimed, Present
    <3>3. CASE handler[r].late
      BY <2>1, <2>7, <3>1, <3>2, <3>3
    <3>4. CASE ~ handler[r].late
      BY <2>1, <3>1, <3>2, <3>4 DEF Claims
    <3> QED
      BY <3>3, <3>4
  <2>10. \A q \in ZtpRequest \ {r} : ~ Succeeds(q)
    BY <2>4, <2>5 DEF Succeeds
  <2>11. OpenStep
    BY <2>1, <2>10 DEF OpenStep, Openly
  <2> QED
    BY <2>6, <2>8, <2>9, <2>11 DEF PositionInv
<1> QED
  BY <1>1, <1>2

-----------------------------------------------------------------------------
(* Reading: the handler knows the register.                                *)

LEMMA ReadKeeps ==
  ASSUME PositionInv, NEW r \in ZtpRequest, handler[r].at = "new",
         NEW kind \in {"create", "update", "delete", "claim", "import", "replace"},
         NEW i \in 0..MaxRows, NEW lines \in Lines, NEW fine \in BOOLEAN,
         Read(r, kind, i, lines, fine),
         kind \in {"create", "update", "claim"} => 1 \in DOMAIN lines,
         kind \in {"update", "claim", "delete"} => i \in DOMAIN rows,
         fine /\ kind = "claim" => rows[i].mac \in {NoMac, lines[1].mac}
  PROVE  PositionInv' /\ OpenStep
<1> DEFINE h == [handler[r] EXCEPT !.at = IF fine THEN "read" ELSE "refused",
                                   !.kind = kind, !.row = i, !.lines = lines, !.seen = rows]
<1>1. handler' = [handler EXCEPT ![r] = h] /\ UNCHANGED <<rows, outdated>>
  BY DEF Read
<1>2. /\ handler \in [ZtpRequest -> PositionRequest] /\ handler[r] \in PositionRequest
      /\ rows \in Seq(Entry) /\ Len(rows) \in Nat
  BY DEF PositionInv, PositionsTyped
<1>3. /\ h \in PositionRequest /\ h.at = (IF fine THEN "read" ELSE "refused") /\ h.kind = kind
      /\ h.row = i /\ h.lines = lines /\ h.seen = rows
  BY <1>2 DEF PositionRequest
<1> HIDE DEF h
<1>4. handler' \in [ZtpRequest -> PositionRequest] /\ handler'[r] = h
      /\ \A q \in ZtpRequest \ {r} : handler'[q] = handler[q]
  BY <1>1, <1>2, <1>3
<1>5. PositionsTyped' /\ DeviceIsClaimed'
  BY <1>1, <1>4 DEF PositionInv, PositionsTyped, DeviceIsClaimed, Present
<1>6. ASSUME NEW q \in ZtpRequest PROVE Knows(q)' /\ ~ Succeeds(q)
  <2>1. CASE q = r
    BY <1>1, <1>2, <1>3, <1>4, <2>1 DEF Knows, Succeeds
  <2>2. CASE q # r
    BY <1>1, <1>4, <2>2 DEF PositionInv, Knows, Succeeds
  <2> QED
    BY <2>1, <2>2
<1> QED
  BY <1>5, <1>6 DEF PositionInv, OpenStep

\* A form is a sequence of one line.
LEMMA OneLine == ASSUME NEW l \in Line PROVE <<l>> \in Lines /\ 1 \in DOMAIN <<l>> /\ <<l>>[1] = l
BY DEF Lines

\* Every row is within bounds.
LEMMA RowIs ==
  ASSUME PositionInv, NEW i \in Present(rows)
  PROVE  i \in 0..MaxRows /\ i \in DOMAIN rows /\ rows[i] \in Entry
BY ZtpPositionsAssumption DEF PositionInv, PositionsTyped, Present

\* Each way to begin a request.
LEMMA BeginsKeep ==
  ASSUME PositionInv, NEW r \in ZtpRequest,
         ReadCreate(r) \/ ReadUpdate(r) \/ ReadDelete(r) \/ ReadClaim(r) \/ ReadImport(r)
  PROVE  PositionInv' /\ OpenStep
<1>1. 0 \in 0..MaxRows /\ Form \subseteq Line
  BY ZtpPositionsAssumption DEF Form, Line
<1>2. CASE ReadCreate(r)
  <2>1. PICK f \in Form : Read(r, "create", 0, <<f>>, ~Conflicts(rows, f, 0)) /\ handler[r].at = "new"
    BY <1>2 DEF ReadCreate, Comes
  <2>2. <<f>> \in Lines /\ 1 \in DOMAIN <<f>>
    BY <1>1, OneLine
  <2>3. PICK fine \in BOOLEAN : fine = ~ Conflicts(rows, f, 0)
    OBVIOUS
  <2>4. Read(r, "create", 0, <<f>>, fine)
    BY <2>1, <2>3
  <2> QED
    BY <1>1, <2>1, <2>2, <2>4, ReadKeeps
<1>3. CASE ReadUpdate(r)
  <2>1. PICK i \in Present(rows), f \in Form :
          Read(r, "update", i, <<f>>, ~Conflicts(rows, f, i)) /\ handler[r].at = "new"
    BY <1>3 DEF ReadUpdate, Comes
  <2>2. <<f>> \in Lines /\ 1 \in DOMAIN <<f>> /\ i \in 0..MaxRows /\ i \in DOMAIN rows
    BY <1>1, OneLine, RowIs
  <2>3. PICK fine \in BOOLEAN : fine = ~ Conflicts(rows, f, i)
    OBVIOUS
  <2>4. Read(r, "update", i, <<f>>, fine)
    BY <2>1, <2>3
  <2> QED
    BY <2>1, <2>2, <2>4, ReadKeeps
<1>4. CASE ReadDelete(r)
  <2>1. PICK i \in Present(rows) : Read(r, "delete", i, <<>>, TRUE) /\ handler[r].at = "new"
    BY <1>4 DEF ReadDelete, Comes
  <2>2. <<>> \in Lines /\ i \in 0..MaxRows /\ i \in DOMAIN rows
    BY RowIs DEF Lines
  <2> QED
    BY <2>1, <2>2, ReadKeeps
<1>5. CASE ReadClaim(r)
  <2>1. PICK i \in Present(rows), m \in Mac :
          /\ Read(r, "claim", i, <<[place |-> rows[i].place, ip |-> rows[i].ip, mac |-> m]>>,
                  /\ \A j \in Present(rows) \ {i} : rows[j].mac # m
                  /\ rows[i].mac \in {NoMac, m})
          /\ handler[r].at = "new"
    BY <1>5 DEF ReadClaim, Comes
  <2>2. PICK l : l = [place |-> rows[i].place, ip |-> rows[i].ip, mac |-> m]
    OBVIOUS
  <2>3. i \in 0..MaxRows /\ i \in DOMAIN rows /\ rows[i] \in Entry
    BY RowIs
  <2>4. l \in Line /\ l.mac = m
    BY <2>2, <2>3 DEF Line, Entry
  <2>5. <<l>> \in Lines /\ 1 \in DOMAIN <<l>> /\ <<l>>[1] = l
    BY <2>4, OneLine
  <2>6. PICK fine \in BOOLEAN : fine = (/\ \A j \in Present(rows) \ {i} : rows[j].mac # m
                                        /\ rows[i].mac \in {NoMac, m})
    OBVIOUS
  <2>7. Read(r, "claim", i, <<l>>, fine)
    BY <2>1, <2>2, <2>6
  <2>8. fine => rows[i].mac \in {NoMac, <<l>>[1].mac}
    BY <2>4, <2>5, <2>6
  <2> HIDE DEF Lines
  <2> QED
    BY <2>1, <2>3, <2>5, <2>7, <2>8, ReadKeeps
<1>6. CASE ReadImport(r)
  <2>1. PICK n \in 1..MaxLines : /\ handler[r].at = "new"
          /\ \E kind \in {"import", "replace"}, lines \in [1..n -> Line] : Read(r, kind, 0, lines, TRUE)
    BY <1>6 DEF ReadImport, Comes
  <2>2. PICK kind \in {"import", "replace"}, lines \in [1..n -> Line] : Read(r, kind, 0, lines, TRUE)
    BY <2>1
  <2>3. n \in Nat
    BY ZtpPositionsAssumption
  <2>4. lines \in Lines
    BY <2>3 DEF Lines
  <2>6. CASE kind = "import"
    BY <1>1, <2>1, <2>2, <2>4, <2>6, ReadKeeps
  <2>7. CASE kind = "replace"
    BY <1>1, <2>1, <2>2, <2>4, <2>7, ReadKeeps
  <2> QED
    BY <2>6, <2>7
<1> QED
  BY <1>2, <1>3, <1>4, <1>5, <1>6

-----------------------------------------------------------------------------
(* Writing: forms.                                                         *)

\* What a handler that has read may do with its answer.
LEMMA ReaderIs ==
  ASSUME PositionInv, NEW r \in ZtpRequest, handler[r].at = "read"
  PROVE  /\ handler[r] \in PositionRequest /\ Knows(r) /\ handler[r].seen \in Seq(Entry)
         /\ handler[r].lines \in Lines /\ rows \in Seq(Entry) /\ Len(rows) \in Nat
         /\ Len(handler[r].seen) \in Nat /\ Len(handler[r].seen) <= Len(rows) /\ 0 \in Counts
BY DEF PositionInv, PositionsTyped, PositionRequest, Knows, Counts

LEMMA CreateKeeps ==
  ASSUME PositionInv, NEW r \in ZtpRequest, CommitCreate(r) PROVE PositionInv' /\ OpenStep
<1>1. handler[r].at = "read" /\ handler[r].kind = "create"
  BY DEF CommitCreate, Reading
<1>2. handler[r].lines[1] \in Line
  BY <1>1, ReaderIs DEF Knows, Lines
<1>3. PICK new : new = Fresh(handler[r].lines[1], "manual")
  OBVIOUS
<1>4. new \in Entry /\ (new.mac # NoMac => new.claimed)
  BY <1>2, <1>3, FreshIs
<1>5. PICK t : t = Append(rows, new)
  OBVIOUS
<1>6. /\ t \in Seq(Entry) /\ Len(t) = Len(rows) + 1 /\ DOMAIN t = 1..Len(t)
      /\ \A i \in DOMAIN t : t[i] = IF i = Len(rows) + 1 THEN new ELSE rows[i]
  BY <1>1, <1>4, <1>5, ReaderIs
<1>7. Commit(r, t, 0, "refused")
  BY <1>3, <1>5 DEF CommitCreate
<1>8. Len(rows) \in Nat /\ Len(rows) <= Len(t) /\ DOMAIN rows = 1..Len(rows) /\ 0 \in Counts
  BY <1>1, <1>6, ReaderIs
<1>9. Claims(t) /\ Openly(r, t)
  BY <1>4, <1>6, <1>8 DEF Claims, Openly, Present
<1> QED
  BY <1>1, <1>6, <1>7, <1>8, <1>9, CommitKeeps

\* One row of the register is written.
LEMMA RowKeeps ==
  ASSUME PositionInv, NEW r \in ZtpRequest, handler[r].at = "read", NEW i \in DOMAIN rows, NEW row \in Entry,
         Commit(r, [rows EXCEPT ![i] = row], 0, "refused"),
         ~ handler[r].late /\ i \notin outdated /\ row.here /\ row.mac # NoMac => row.claimed,
         ~ handler[r].late /\ row.here /\ rows[i].mac # NoMac /\ row.mac \notin {NoMac, rows[i].mac} =>
           /\ handler[r].kind \in {"update", "import"}
           /\ \E l \in Range(handler[r].lines) : l.mac = row.mac
  PROVE  PositionInv' /\ OpenStep
<1>1. PICK t : t = [rows EXCEPT ![i] = row]
  OBVIOUS
<1>2. rows \in Seq(Entry) /\ Len(rows) \in Nat /\ 0 \in Counts
  BY ReaderIs
<1>3. /\ t \in Seq(Entry) /\ Len(t) = Len(rows) /\ DOMAIN t = DOMAIN rows
      /\ \A j \in DOMAIN t : t[j] = IF j = i THEN row ELSE rows[j]
  BY <1>1, <1>2
<1>4. ~ handler[r].late => Claims(t)
  BY <1>3 DEF Claims, Present
<1>5. ~ handler[r].late => Openly(r, t)
  BY <1>3 DEF Openly, Present
<1>6. Commit(r, t, 0, "refused") /\ Len(rows) <= Len(t)
  BY <1>1, <1>2, <1>3
<1> QED
  BY <1>2, <1>3, <1>4, <1>5, <1>6, CommitKeeps

LEMMA UpdateKeeps ==
  ASSUME PositionInv, NEW r \in ZtpRequest, CommitUpdate(r) PROVE PositionInv' /\ OpenStep
<1> DEFINE k == handler[r].row
           s == handler[r].seen[k]
           f == handler[r].lines[1]
           row == Updated(rows[k], s, f)
<1>1. handler[r].at = "read" /\ handler[r].kind = "update" /\ rows[k].here
  BY DEF CommitUpdate, Reading
<1>2. f \in Line /\ f \in Range(handler[r].lines)
  BY <1>1, ReaderIs DEF Knows, Lines, Range
<1>3. k \in DOMAIN rows /\ rows[k] \in Entry /\ s \in Entry
  BY <1>1, ReaderIs DEF Knows
<1>4. /\ row \in Entry /\ row.mac = (IF f.mac = s.mac THEN rows[k].mac ELSE f.mac)
      /\ row.here = rows[k].here
      /\ row.claimed = (IF f.mac = s.mac THEN rows[k].claimed ELSE f.mac # NoMac)
  BY <1>2, <1>3, ZenonT(40) DEF Updated, Entry, Line, Cell
<1>5. ~ handler[r].late => s = rows[k]
  BY <1>1, ReaderIs DEF Knows
<1>6. Commit(r, [rows EXCEPT ![k] = row], 0, "refused")
  BY <1>3 DEF CommitUpdate
<1>7. k \notin outdated /\ rows[k].mac # NoMac => rows[k].claimed
  BY <1>1, <1>3 DEF PositionInv, DeviceIsClaimed, Present
<1>8. ~ handler[r].late /\ k \notin outdated /\ row.here /\ row.mac # NoMac => row.claimed
  BY <1>4, <1>7
<1>9. ~ handler[r].late /\ row.here /\ rows[k].mac # NoMac /\ row.mac \notin {NoMac, rows[k].mac} =>
        /\ handler[r].kind \in {"update", "import"}
        /\ \E l \in Range(handler[r].lines) : l.mac = row.mac
  BY <1>1, <1>2, <1>4, <1>5
<1> HIDE DEF row, k
<1> QED
  BY <1>1, <1>3, <1>4, <1>6, <1>8, <1>9, RowKeeps

\* A claim never takes a position from its device: it read that there was none, or this one.
LEMMA ClaimKeeps ==
  ASSUME PositionInv, NEW r \in ZtpRequest, CommitClaim(r) PROVE PositionInv' /\ OpenStep
<1> DEFINE k == handler[r].row
           s == handler[r].seen[k]
           m == handler[r].lines[1].mac
           row == Claimed(rows[k], s, m)
<1>1. handler[r].at = "read" /\ handler[r].kind = "claim" /\ rows[k].here
  BY DEF CommitClaim, Reading
<1>2. m \in Cell
  <2>1. handler[r].lines \in Seq(Line) /\ 1 \in DOMAIN handler[r].lines
    BY <1>1, ReaderIs DEF Knows, Lines
  <2>2. handler[r].lines[1] \in Line
    BY <2>1
  <2> QED
    BY <2>2 DEF Line, Cell
<1>3. k \in DOMAIN rows /\ rows[k] \in Entry /\ s \in Entry /\ s.mac \in {NoMac, m}
  BY <1>1, ReaderIs DEF Knows
<1>4. row \in Entry /\ row.mac = (IF s.mac = m THEN rows[k].mac ELSE m) /\ row.claimed
  BY <1>2, <1>3 DEF Claimed, Entry
<1>5. ~ handler[r].late => s = rows[k]
  BY <1>1, ReaderIs DEF Knows
<1>6. Commit(r, [rows EXCEPT ![k] = row], 0, "refused")
  BY <1>3 DEF CommitClaim
<1>7. ~ handler[r].late => row.mac \in {m, rows[k].mac} /\ rows[k].mac \in {NoMac, m}
  BY <1>3, <1>4, <1>5
<1> HIDE DEF row, k
<1> QED
  BY <1>1, <1>3, <1>4, <1>6, <1>7, RowKeeps

LEMMA DeleteKeeps ==
  ASSUME PositionInv, NEW r \in ZtpRequest, CommitDelete(r) PROVE PositionInv' /\ OpenStep
<1> DEFINE k == handler[r].row
           row == [rows[k] EXCEPT !.here = FALSE]
<1>1. handler[r].at = "read" /\ handler[r].kind = "delete"
  BY DEF CommitDelete, Reading
<1>2. k \in DOMAIN rows /\ rows[k] \in Entry
  BY <1>1, ReaderIs DEF Knows
<1>3. row \in Entry /\ ~ row.here
  BY <1>2 DEF Entry
<1>4. Commit(r, [rows EXCEPT ![k] = row], 0, "refused")
  BY <1>2 DEF CommitDelete
<1> HIDE DEF row, k
<1> QED
  BY <1>1, <1>2, <1>3, <1>4, RowKeeps

-----------------------------------------------------------------------------
(* Writing: files.                                                         *)

\* The lines of a file are finite in number.
LEMMA FileIsFinite ==
  ASSUME NEW lines \in Lines
  PROVE  Range(lines) \subseteq Line /\ IsFiniteSet(Range(lines))
<1>1. lines \in Seq(Line) /\ Len(lines) \in Nat /\ DOMAIN lines = 1..Len(lines)
  BY DEF Lines
<1>2. lines \in Surjection(1..Len(lines), Range(lines))
  BY <1>1 DEF Surjection, Range
<1>3. IsFiniteSet(1..Len(lines))
  BY <1>1, FS_Interval
<1>4. IsFiniteSet(Range(lines))
  BY <1>2, <1>3, FS_Surjection
<1> QED
  BY <1>1, <1>4 DEF Range

\* A finite set of lines in some order.
LEMMA InOrder ==
  ASSUME NEW S \in SUBSET Line, IsFiniteSet(S)
  PROVE  SetToSeq(S) \in Seq(Line) /\ \A k \in DOMAIN SetToSeq(S) : SetToSeq(S)[k] \in S
<1>1. Cardinality(S) \in Nat /\ ExistsBijection(1..Cardinality(S), S)
  BY FS_CardinalityType
<1>2. PICK f : f \in Bijection(1..Cardinality(S), S)
  BY <1>1 DEF ExistsBijection
<1>3. f \in [1..Cardinality(S) -> S] /\ IsInjective(f)
  BY <1>2 DEF Bijection, Injection
<1>4. SetToSeq(S) \in [1..Cardinality(S) -> S]
  BY <1>3 DEF SetToSeq
<1> QED
  BY <1>1, <1>4

\* What a line makes of a row.
LEMMA WrittenIs ==
  ASSUME NEW now \in Entry, NEW seen \in Entry, NEW l \in Line
  PROVE  /\ Written(now, seen, l) \in Entry
         /\ now = seen => LET new == Written(now, seen, l)
                          IN /\ new.here = now.here
                             /\ new = now \/ new.mac = NoMac \/ (new.mac = l.mac /\ new.claimed)
<1>1. CASE ~ Moves(l, seen)
  BY <1>1 DEF Written
<1>2. CASE Moves(l, seen)
  <2> DEFINE mac == IF l.mac # NoMac THEN l.mac ELSE IF seen.mac # NoMac THEN NoMac ELSE now.mac
             claimed == now.claimed \/ (l.mac # NoMac /\ ~ seen.claimed)
  <2>1. Written(now, seen, l) = [now EXCEPT !.ip = l.ip, !.mac = mac, !.claimed = claimed]
    BY <1>2 DEF Written
  <2>2. mac \in Cell /\ claimed \in BOOLEAN /\ l.ip \in Addr
    BY DEF Entry, Line, Cell
  <2>3. now = seen => mac = NoMac \/ (mac = l.mac /\ claimed)
    BY DEF Entry
  <2> HIDE DEF mac, claimed
  <2> QED
    BY <2>1, <2>2, <2>3 DEF Entry
<1> QED
  BY <1>1, <1>2

\* An import leaves each row as it is or has a planned line write it, and adds planned lines.
LEMMA ImportedIs ==
  ASSUME NEW table \in Seq(Entry), NEW seen \in Seq(Entry), Len(seen) <= Len(table),
         NEW plan \in SUBSET Line, IsFiniteSet(plan)
  PROVE  LET t == Imported(table, seen, plan)
         IN  /\ t \in Seq(Entry) /\ Len(table) <= Len(t)
             /\ \A i \in DOMAIN table :
                  t[i] = table[i] \/ \E l \in plan : i \in Present(seen) /\ t[i] = Written(table[i], seen[i], l)
             /\ \A i \in DOMAIN t \ DOMAIN table : \E l \in plan : t[i] = Fresh(l, "manual")
<1> DEFINE line(i) == {l \in plan : i \in Present(seen) /\ l.place = seen[i].place}
           added == {l \in plan : \A i \in Present(seen) : seen[i].place # l.place}
           cell(i) == IF i > Len(seen) THEN table[i]
                      ELSE IF line(i) = {} THEN table[i]
                      ELSE Written(table[i], seen[i], CHOOSE l \in line(i) : TRUE)
           old == [i \in DOMAIN table |-> cell(i)]
           fresh == [k \in DOMAIN SetToSeq(added) |-> Fresh(SetToSeq(added)[k], "manual")]
<1>1. Imported(table, seen, plan) = old \o fresh
  BY DEF Imported
<1>2. /\ Len(table) \in Nat /\ DOMAIN table = 1..Len(table) /\ \A i \in DOMAIN table : table[i] \in Entry
      /\ Len(seen) \in Nat /\ DOMAIN seen = 1..Len(seen) /\ \A i \in DOMAIN seen : seen[i] \in Entry
  OBVIOUS
<1>3. ASSUME NEW i \in DOMAIN table
      PROVE  /\ cell(i) \in Entry
             /\ \/ cell(i) = table[i]
                \/ \E l \in plan : i \in Present(seen) /\ cell(i) = Written(table[i], seen[i], l)
  <2>1. CASE i > Len(seen) \/ line(i) = {}
    BY <1>2, <2>1
  <2>2. CASE ~ (i > Len(seen) \/ line(i) = {})
    <3>1. PICK l : l = CHOOSE x \in line(i) : TRUE
      OBVIOUS
    <3>2. l \in plan /\ i \in Present(seen)
      BY <2>2, <3>1
    <3>3. cell(i) = Written(table[i], seen[i], l)
      BY <2>2, <3>1
    <3>4. i \in DOMAIN seen /\ l \in Line
      BY <3>2 DEF Present
    <3>5. cell(i) \in Entry
      BY <1>2, <3>3, <3>4, WrittenIs
    <3> QED
      BY <3>2, <3>3, <3>5
  <2> QED
    BY <2>1, <2>2
<1> HIDE DEF cell
<1>4. old \in Seq(Entry) /\ Len(old) = Len(table) /\ \A i \in DOMAIN table : old[i] = cell(i)
  <2>1. old \in [1..Len(table) -> Entry]
    BY <1>2, <1>3
  <2>2. old \in Seq(Entry) /\ Len(old) = Len(table)
    BY ONLY <1>2, <2>1
  <2> QED
    BY <2>2
<1>5. added \in SUBSET Line /\ added \in SUBSET plan
  OBVIOUS
<1>6. IsFiniteSet(added)
  BY <1>5, FS_Subset
<1> HIDE DEF added
<1>7. SetToSeq(added) \in Seq(Line) /\ \A k \in DOMAIN SetToSeq(added) : SetToSeq(added)[k] \in added
  BY <1>5, <1>6, InOrder
<1>8. PICK n \in Nat : n = Len(SetToSeq(added)) /\ DOMAIN SetToSeq(added) = 1..n
  BY <1>7
<1>9. ASSUME NEW k \in 1..n PROVE fresh[k] \in Entry /\ \E l \in plan : fresh[k] = Fresh(l, "manual")
  <2>1. PICK l : l = SetToSeq(added)[k]
    OBVIOUS
  <2>2. l \in plan /\ l \in Line /\ fresh[k] = Fresh(l, "manual")
    BY <1>5, <1>7, <1>8, <2>1
  <2> QED
    BY <2>2, FreshIs
<1>10. fresh \in Seq(Entry) /\ Len(fresh) = n
  <2>1. fresh \in [1..n -> Entry]
    BY <1>8, <1>9
  <2> QED
    BY ONLY <2>1
<1> HIDE DEF old, fresh
<1>11. PICK t : t = old \o fresh
  OBVIOUS
<1>12. /\ t \in Seq(Entry) /\ Len(t) = Len(table) + n /\ DOMAIN t = 1..Len(table) + n
       /\ \A i \in 1..Len(table) : t[i] = old[i]
       /\ \A i \in DOMAIN t \ 1..Len(table) : i - Len(table) \in 1..n /\ t[i] = fresh[i - Len(table)]
  <2>1. old \in Seq(Entry) /\ fresh \in Seq(Entry)
    BY <1>4, <1>10
  <2>2. /\ old \o fresh \in Seq(Entry) /\ Len(old \o fresh) = Len(old) + Len(fresh)
        /\ \A i \in 1..Len(old) + Len(fresh) :
             (old \o fresh)[i] = IF i <= Len(old) THEN old[i] ELSE fresh[i - Len(old)]
    BY ONLY <2>1
  <2>3. Len(table) \in Nat /\ n \in Nat
    BY <1>2
  <2>4. t \in Seq(Entry) /\ Len(t) = Len(table) + n
    BY <1>4, <1>10, <1>11, <2>2
  <2>5. \A i \in 1..Len(table) + n :
          t[i] = IF i <= Len(table) THEN old[i] ELSE fresh[i - Len(table)]
    BY <1>4, <1>10, <1>11, <2>2
  <2>6. DOMAIN t = 1..Len(table) + n
    BY <2>4
  <2> QED
    BY <2>3, <2>4, <2>5, <2>6
<1>13. Len(table) <= Len(t)
  BY <1>2, <1>12
<1>14. \A i \in DOMAIN table :
         t[i] = table[i] \/ \E l \in plan : i \in Present(seen) /\ t[i] = Written(table[i], seen[i], l)
  BY <1>2, <1>3, <1>4, <1>12
<1>15. \A i \in DOMAIN t \ DOMAIN table : \E l \in plan : t[i] = Fresh(l, "manual")
  BY <1>2, <1>9, <1>12
<1> QED
  BY <1>1, <1>11, <1>12, <1>13, <1>14, <1>15, ZenonT(40)

\* The common part of both imports.
LEMMA ImportFromKeeps ==
  ASSUME PositionInv, NEW r \in ZtpRequest, handler[r].at = "read",
         NEW table \in Seq(Entry), NEW seen \in Seq(Entry), Len(seen) <= Len(table), Len(table) = Len(rows),
         ImportFrom(r, table, seen),
         ~ handler[r].late =>
           \/ handler[r].kind = "import" /\ table = rows /\ seen = rows
           \/ Present(seen) = {} /\ Present(table) = {}
  PROVE  PositionInv' /\ OpenStep
<1> DEFINE p == Planned(handler[r].lines, seen)
           plan == p.plan \cap Range(handler[r].lines)
<1>1. /\ handler[r].lines \in Lines /\ rows \in Seq(Entry) /\ Len(rows) \in Nat
      /\ DOMAIN rows = 1..Len(rows) /\ DOMAIN table = 1..Len(rows)
  BY ReaderIs
<1>2. CASE p.broken \/ Missing(table, seen, plan)
  <2>1. Fail(r)
    BY <1>2 DEF ImportFrom
  <2> QED
    BY <2>1, FailKeeps DEF Fail
<1>3. CASE ~ (p.broken \/ Missing(table, seen, plan))
  <2>1. Commit(r, Imported(table, seen, plan), Skipped(handler[r].lines, seen), "failed")
    BY <1>3 DEF ImportFrom
  <2>2. plan \in SUBSET Range(handler[r].lines) /\ Range(handler[r].lines) \subseteq Line
        /\ IsFiniteSet(Range(handler[r].lines))
    BY <1>1, FileIsFinite
  <2>3. plan \in SUBSET Line /\ IsFiniteSet(plan)
    BY <2>2, FS_Subset
  <2>4. Skipped(handler[r].lines, seen) \in Counts
    BY <1>1 DEF Counts
  <2> HIDE DEF p, plan
  <2>5. PICK t : t = Imported(table, seen, plan)
    OBVIOUS
  <2>6. /\ t \in Seq(Entry) /\ Len(table) <= Len(t)
        /\ \A i \in DOMAIN table :
             t[i] = table[i] \/ \E l \in plan : i \in Present(seen) /\ t[i] = Written(table[i], seen[i], l)
        /\ \A i \in DOMAIN t \ DOMAIN table : \E l \in plan : t[i] = Fresh(l, "manual")
    BY <2>3, <2>5, ImportedIs
  <2>7. \A i \in DOMAIN t \ DOMAIN table : t[i].mac # NoMac => t[i].claimed
    BY <2>3, <2>6, FreshIs
  <2>8. CASE handler[r].kind = "import" /\ table = rows /\ seen = rows
    <3>1. ASSUME NEW i \in DOMAIN rows
          PROVE  /\ t[i].here = rows[i].here
                 /\ \/ t[i] = rows[i] \/ t[i].mac = NoMac
                    \/ t[i].claimed /\ \E l \in plan : l.mac = t[i].mac
      <4>1. rows[i] \in Entry
        BY <1>1
      <4> QED
        <5>1. t[i] = rows[i] \/ \E l \in plan : t[i] = Written(rows[i], rows[i], l)
          BY <1>1, <2>6, <2>8
        <5>2. ASSUME NEW l \in plan, t[i] = Written(rows[i], rows[i], l)
              PROVE  /\ t[i].here = rows[i].here
                     /\ t[i] = rows[i] \/ t[i].mac = NoMac \/ (t[i].mac = l.mac /\ t[i].claimed)
          BY <2>3, <4>1, <5>2, WrittenIs
        <5> QED
          BY <5>1, <5>2
    <3>2. Claims(t)
      BY <2>7, <2>8, <3>1 DEF Claims, Present
    <3>3. Openly(r, t)
      BY <2>2, <2>8, <3>1 DEF Openly, Present
    <3> QED
      BY <1>1, <2>1, <2>4, <2>5, <2>6, <3>2, <3>3, CommitKeeps
  <2>9. CASE Present(seen) = {} /\ Present(table) = {}
    <3>1. \A i \in DOMAIN rows : t[i] = table[i] /\ ~ t[i].here
      BY <1>1, <2>6, <2>9 DEF Present
    <3>2. Claims(t)
      BY <1>1, <2>7, <3>1 DEF Claims, Present
    <3>3. Openly(r, t)
      BY <3>1 DEF Openly, Present
    <3> QED
      BY <1>1, <2>1, <2>4, <2>5, <2>6, <3>2, <3>3, CommitKeeps
  <2>10. CASE handler[r].late
    BY <1>1, <2>1, <2>4, <2>5, <2>6, <2>10, CommitKeeps
  <2> QED
    BY <2>8, <2>9, <2>10
<1> QED
  BY <1>2, <1>3

LEMMA ImportKeeps ==
  ASSUME PositionInv, NEW r \in ZtpRequest, CommitImport(r) \/ CommitReplace(r)
  PROVE  PositionInv' /\ OpenStep
<1>1. handler[r].at = "read"
  BY DEF CommitImport, CommitReplace, Reading
<1>2. /\ handler[r].seen \in Seq(Entry) /\ rows \in Seq(Entry) /\ Len(rows) \in Nat /\ DOMAIN rows = 1..Len(rows)
      /\ Len(handler[r].seen) \in Nat /\ Len(handler[r].seen) <= Len(rows)
      /\ DOMAIN handler[r].seen = 1..Len(handler[r].seen)
      /\ ~ handler[r].late => handler[r].seen = rows
  BY <1>1, ReaderIs DEF Knows
<1>3. CASE CommitImport(r)
  <2>1. ImportFrom(r, rows, handler[r].seen) /\ handler[r].kind = "import"
    BY <1>3 DEF CommitImport, Reading
  <2> QED
    BY <1>1, <1>2, <2>1, ImportFromKeeps
<1>4. CASE CommitReplace(r)
  <2>1. ImportFrom(r, Cleared(r), Cleared(r))
    BY <1>4 DEF CommitReplace
  <2>2. PICK t : t = Cleared(r)
    OBVIOUS
  <2>3. ASSUME NEW i \in 1..Len(rows) PROVE t[i] \in Entry /\ (~ handler[r].late => ~ t[i].here)
    <3>1. rows[i] \in Entry /\ (i <= Len(handler[r].seen) => handler[r].seen[i] \in Entry)
      BY <1>2
    <3>2. t[i] = IF i <= Len(handler[r].seen) THEN [rows[i] EXCEPT !.here = @ /\ ~handler[r].seen[i].here] ELSE rows[i]
      BY <1>2, <2>2 DEF Cleared
    <3>3. ~ handler[r].late => i <= Len(handler[r].seen) /\ handler[r].seen[i] = rows[i]
      BY <1>2
    <3>4. CASE i <= Len(handler[r].seen)
      <4>1. PICK b \in BOOLEAN : b = (rows[i].here /\ ~handler[r].seen[i].here)
        OBVIOUS
      <4>2. t[i] = [rows[i] EXCEPT !.here = b]
        BY <3>2, <3>4, <4>1
      <4>3. t[i] \in Entry /\ t[i].here = b
        BY <3>1, <4>2 DEF Entry
      <4> QED
        BY <3>3, <4>1, <4>3
    <3>5. CASE ~ (i <= Len(handler[r].seen))
      BY <3>1, <3>2, <3>3, <3>5
    <3> QED
      BY <3>4, <3>5
  <2>4. t \in [1..Len(rows) -> Entry]
    BY <1>2, <2>2, <2>3 DEF Cleared
  <2>5. t \in Seq(Entry) /\ Len(t) = Len(rows)
    BY ONLY <1>2, <2>4
  <2>6. ~ handler[r].late => Present(t) = {}
    BY <2>3, <2>4 DEF Present
  <2> QED
    BY <1>1, <2>1, <2>2, <2>5, <2>6, <1>2, ImportFromKeeps
<1> QED
  BY <1>3, <1>4

-----------------------------------------------------------------------------
(* Folding a sequence: the files and the register are read line by line.   *)

\* Some numbers have a least one.
LEMMA LeastNat ==
  ASSUME NEW T \in SUBSET Nat, T # {}
  PROVE  \E m \in T : \A k \in T : m <= k
<1> DEFINE R == {p \in Nat \X Nat : p[1] < p[2]}
<1>1. IsWellFoundedOn(R, Nat)
  BY NatLessThanWellFounded DEF OpToRel
<1>2. \A k, m \in Nat : k < m => <<k, m>> \in R
  OBVIOUS
<1> HIDE DEF R
<1>3. PICK m \in T : \A k \in T : <<k, m>> \notin R
  BY <1>1, WFMin
<1>4. ASSUME NEW k \in T
      PROVE  m <= k
  <2>1. k \in Nat /\ m \in Nat
    OBVIOUS
  <2>2. ~(k < m)
    BY <1>2, <1>3, <2>1
  <2> QED
    BY <2>1, <2>2
<1> QED
  BY <1>4

\* A set of numbers that has 0 and with each number the next one has all up to n.
LEMMA Upwards ==
  ASSUME NEW n \in Nat, NEW T, 0 \in T, \A k \in 1..n : k - 1 \in T => k \in T
  PROVE  0..n \subseteq T
<1> DEFINE U == {k \in 0..n : k \notin T}
<1> SUFFICES ASSUME U # {} PROVE FALSE
  OBVIOUS
<1>1. U \in SUBSET Nat
  OBVIOUS
<1>2. PICK m \in U : \A k \in U : m <= k
  BY <1>1, LeastNat
<1>3. m \in 0..n /\ m \notin T /\ m # 0
  BY <1>2
<1>4. m \in 1..n /\ m - 1 \in 0..n /\ ~(m <= m - 1)
  BY <1>3
<1>5. m - 1 \in T
  BY <1>2, <1>4
<1> QED
  BY <1>3, <1>4, <1>5

\* The last of the first m numbers.
LEMMA LastOf ==
  ASSUME NEW n \in Nat, NEW d \in SUBSET (1..n), d # {}
  PROVE  Max(d) \in d /\ \A i \in d : i <= Max(d)
<1> DEFINE T == {n - i : i \in d}
<1>0. PICK i0 \in d : TRUE
  OBVIOUS
<1>1. T \in SUBSET Nat /\ T # {}
  <2>1. n - i0 \in T
    BY <1>0
  <2>2. \A j \in d : n - j \in Nat
    OBVIOUS
  <2> QED
    BY <2>1, <2>2
<1>2. PICK m \in T : \A k \in T : m <= k
  BY <1>1, LeastNat
<1>3. PICK i \in d : m = n - i
  OBVIOUS
<1>4. ASSUME NEW j \in d PROVE i >= j
  <2>1. n - j \in T
    OBVIOUS
  <2>2. m <= n - j
    BY <1>2, <2>1
  <2>3. i \in Int /\ j \in Int
    OBVIOUS
  <2> QED
    BY <1>3, <2>2, <2>3
<1>5. Max(d) \in d /\ \A j \in d : Max(d) >= j
  BY <1>4 DEF Max
<1> QED
  BY <1>5

\* What FoldLeft computes for some function g, for each set of places in s, if F is the step.
FoldBy(g, F, base, n, s) ==
  g = [d \in SUBSET (1..n) |-> IF d = {} THEN base ELSE F[<<g[d \ {Max(d)}], s[Max(d)]>>]]

\* There is such a function, place after place.
LEMMA FoldExists ==
  ASSUME NEW F, NEW base, NEW s, NEW n \in Nat
  PROVE  \E g : FoldBy(g, F, base, n, s)
<1> DEFINE T == {m \in Nat : \E g : FoldBy(g, F, base, m, s)}
           Value(h, d) == IF d = {} THEN base ELSE F[<<h[d \ {Max(d)}], s[Max(d)]>>]
<1>1. 0 \in T
  <2> DEFINE g == [d \in SUBSET (1..0) |-> base]
  <2>1. 1..0 = {} /\ \A d \in SUBSET (1..0) : d = {}
    OBVIOUS
  <2>2. FoldBy(g, F, base, 0, s)
    BY <2>1 DEF FoldBy
  <2> QED
    BY <2>2
<1>2. ASSUME NEW m \in 1..n, m - 1 \in T PROVE m \in T
  <2>1. PICK f : FoldBy(f, F, base, m - 1, s)
    BY <1>2
  <2>2. m \in Nat
    OBVIOUS
  <2> HIDE DEF T
  <2> DEFINE g == [d \in SUBSET (1..m) |-> Value(f, d)]
  <2>3. ASSUME NEW d \in SUBSET (1..m), d # {}
        PROVE  g[d \ {Max(d)}] = f[d \ {Max(d)}]
    <3> DEFINE e == d \ {Max(d)}
    <3>1. Max(d) \in d /\ \A i \in d : i <= Max(d)
      BY <2>2, <2>3, LastOf
    <3>2. Max(d) \in 1..m /\ \A i \in e : i \in 1..m /\ i # Max(d)
      BY <3>1
    <3>3. \A i \in e : i \in 1..m - 1
      BY <2>2, <3>1, <3>2
    <3>4. e \in SUBSET (1..m) /\ e \in SUBSET (1..m - 1)
      BY <3>2, <3>3
    <3> HIDE DEF e
    <3>5. f[e] = Value(f, e)
      BY <2>1, <3>4 DEF FoldBy
    <3>6. g[e] = Value(f, e)
      BY <3>4
    <3> QED
      BY <3>5, <3>6 DEF e
  <2>4. \A d \in SUBSET (1..m) : g[d] = Value(g, d)
    BY <2>3
  <2>5. g = [d \in SUBSET (1..m) |-> g[d]]
    OBVIOUS
  <2>6. FoldBy(g, F, base, m, s)
    <3> HIDE DEF g
    <3> QED
      BY <2>4, <2>5 DEF FoldBy
  <2> HIDE DEF g
  <2> QED
    BY <2>2, <2>6 DEF T
<1>3. 0..n \subseteq T
  <2> HIDE DEF T
  <2> QED
    BY <1>1, <1>2, Upwards
<1> QED
  BY <1>3

\* The first k places: the last of them is k.
LEMMA FirstPlaces ==
  ASSUME NEW n \in Nat
  PROVE  /\ 1..0 = {} /\ {} \in SUBSET (1..n)
         /\ \A k \in 1..n : /\ 1..k \in SUBSET (1..n) /\ 1..k # {}
                            /\ Max(1..k) = k /\ (1..k) \ {Max(1..k)} = 1..k - 1
<1>1. ASSUME NEW k \in 1..n
      PROVE  /\ 1..k \in SUBSET (1..n) /\ 1..k # {}
             /\ Max(1..k) = k /\ (1..k) \ {Max(1..k)} = 1..k - 1
  <2>1. k \in 1..k /\ 1..k \in SUBSET (1..n) /\ k \in Nat
    OBVIOUS
  <2>2. Max(1..k) \in 1..k /\ \A i \in 1..k : i <= Max(1..k)
    BY <2>1, LastOf
  <2>3. Max(1..k) = k
    BY <2>1, <2>2
  <2>4. (1..k) \ {k} = 1..k - 1
    BY <2>1
  <2> QED
    BY <2>1, <2>3, <2>4
<1>2. 1..0 = {}
  OBVIOUS
<1> QED
  BY <1>1, <1>2

\* With a step within A, all that a fold computes lies in A.
LEMMA FoldStays ==
  ASSUME NEW A, NEW X, NEW F, \A a \in A, x \in X : F[<<a, x>>] \in A, NEW base \in A,
         NEW n \in Nat, NEW s \in [1..n -> X], NEW g, FoldBy(g, F, base, n, s)
  PROVE  \A d \in SUBSET (1..n) : g[d] \in A
<1>1. \A d \in SUBSET (1..n) : g[d] = IF d = {} THEN base ELSE F[<<g[d \ {Max(d)}], s[Max(d)]>>]
  BY DEF FoldBy
<1>2. g[{}] \in A
  BY <1>1
<1> DEFINE All(m) == \A d \in SUBSET (1..m) : g[d] \in A
<1>3. All(0)
  <2>1. 1..0 = {} /\ \A d \in SUBSET (1..0) : d = {}
    OBVIOUS
  <2> QED
    BY <1>2, <2>1
<1>4. ASSUME NEW m \in 1..n, All(m - 1) PROVE All(m)
  <2>1. ASSUME NEW d \in SUBSET (1..m), d # {} PROVE g[d] \in A
    <3> HIDE DEF All
    <3>1. m \in Nat
      OBVIOUS
    <3>2. Max(d) \in d /\ \A i \in d : i <= Max(d)
      BY <2>1, <3>1, LastOf
    <3> PICK x : x = Max(d)
      OBVIOUS
    <3>3. x \in 1..m /\ \A i \in d \ {x} : i \in 1..m /\ i # x /\ i <= x
      BY <3>2
    <3>5. \A i \in d \ {x} : i \in 1..m - 1
      BY <3>1, <3>3
    <3>4. d \ {x} \in SUBSET (1..m - 1)
      BY <3>5
    <3>6. g[d \ {x}] \in A
      BY <1>4, <3>4 DEF All
    <3>7. \A i \in 1..m : i \in 1..n
      OBVIOUS
    <3>8. d \in SUBSET (1..n) /\ s[x] \in X
      BY <3>3, <3>7
    <3>9. g[d] = F[<<g[d \ {x}], s[x]>>]
      BY <1>1, <2>1, <3>8
    <3> QED
      BY <3>6, <3>8, <3>9
  <2> QED
    BY <1>2, <2>1
<1> HIDE DEF All
<1> DEFINE T == {m \in 0..n : All(m)}
<1>5. 0 \in T /\ \A k \in 1..n : k - 1 \in T => k \in T
  BY <1>3, <1>4
<1>6. 0..n \subseteq T
  <2> HIDE DEF T
  <2> QED
    BY <1>5, Upwards
<1> QED
  BY <1>6 DEF All

-----------------------------------------------------------------------------
(* The lines of a file by place: the last about each.                      *)

\* One more line in ByPlace.
Placed(plan, l) ==
  IF l.mac = BadMac THEN plan
  ELSE IF \E k \in DOMAIN plan : plan[k].place = l.place
    THEN [k \in DOMAIN plan |-> IF plan[k].place = l.place THEN l ELSE plan[k]]
    ELSE Append(plan, l)

\* What ByPlace folds, for some function g.
Places(g, n, s) ==
  g = [d \in SUBSET (1..n) |-> IF d = {} THEN <<>> ELSE Placed(g[d \ {Max(d)}], s[Max(d)])]

\* The plan stays a sequence of lines.
LEMMA PlacedIs ==
  ASSUME NEW plan \in Seq(Line), NEW l \in Line
  PROVE  Placed(plan, l) \in Seq(Line)
<1> DEFINE p == [k \in DOMAIN plan |-> IF plan[k].place = l.place THEN l ELSE plan[k]]
<1>1. plan \in [1..Len(plan) -> Line] /\ Len(plan) \in Nat
  OBVIOUS
<1>2. p \in [1..Len(plan) -> Line]
  BY <1>1
<1>3. p \in Seq(Line)
  BY ONLY <1>1, <1>2
<1>4. Append(plan, l) \in Seq(Line)
  OBVIOUS
<1> QED
  BY <1>3, <1>4 DEF Placed

\* ByPlace takes one line after the other.
LEMMA PlacesStep ==
  ASSUME NEW lines \in Lines
  PROVE  \E g : /\ ByPlace(lines) = g[1..Len(lines)] /\ g[1..0] = <<>>
                /\ \A k \in 1..Len(lines) : g[1..k] = Placed(g[1..k - 1], lines[k])
<1> DEFINE n == Len(lines)
           F == [p \in Seq(Line) \X Line |-> Placed(p[1], p[2])]
           g == CHOOSE h : Places(h, n, lines)
<1>1. lines \in [1..n -> Line] /\ n \in Nat /\ DOMAIN lines = 1..n
  BY DEF Lines
<1>2. \A a \in Seq(Line), x \in Line : F[<<a, x>>] = Placed(a, x) /\ F[<<a, x>>] \in Seq(Line)
  BY PlacedIs
<1>3. <<>> \in Seq(Line)
  OBVIOUS
<1> HIDE DEF F, n
<1>4. PICK f : FoldBy(f, F, <<>>, n, lines)
  BY <1>1, FoldExists
<1>5. \A d \in SUBSET (1..n) : f[d] \in Seq(Line)
  BY <1>1, <1>2, <1>3, <1>4, FoldStays
<1>6. ASSUME NEW d \in SUBSET (1..n), d # {}
      PROVE  F[<<f[d \ {Max(d)}], lines[Max(d)]>>] = Placed(f[d \ {Max(d)}], lines[Max(d)])
  <2>1. Max(d) \in d
    BY <1>1, <1>6, LastOf
  <2>2. d \ {Max(d)} \in SUBSET (1..n) /\ lines[Max(d)] \in Line
    BY <1>1, <2>1
  <2> QED
    BY <1>2, <1>5, <2>2
<1>7. Places(f, n, lines)
  BY <1>4, <1>6 DEF FoldBy, Places
<1>8. Places(g, n, lines)
  BY <1>7
<1>9. ByPlace(lines) = g[1..n]
  BY <1>1 DEF ByPlace, FoldLeft, MapThenFoldSet, Places, Placed
<1> HIDE DEF g
<1>10. \A d \in SUBSET (1..n) : g[d] = IF d = {} THEN <<>> ELSE Placed(g[d \ {Max(d)}], lines[Max(d)])
  BY <1>8 DEF Places
<1>11. g[1..0] = <<>> /\ \A k \in 1..n : g[1..k] = Placed(g[1..k - 1], lines[k])
  BY <1>1, <1>10, FirstPlaces
<1> QED
  BY <1>9, <1>11 DEF n

\* Line m is the last about its place among the first k.
LastAbout(lines, m, k) ==
  m \in 1..k /\ \A j \in 1..k : lines[j].place = lines[m].place => j <= m

\* The plan after k lines: one line for each place, the last about it.
PlanOf(plan, lines, k) ==
  /\ plan \in Seq(Line)
  /\ \A i, j \in DOMAIN plan : plan[i].place = plan[j].place => i = j
  /\ \A i \in DOMAIN plan : \E m \in 1..k : plan[i] = lines[m] /\ LastAbout(lines, m, k)
  /\ \A m \in 1..k : LastAbout(lines, m, k) => \E i \in DOMAIN plan : plan[i] = lines[m]

\* One line more: it is the last about its place, and the others stay if they are about another.
LEMMA LastAfter ==
  ASSUME NEW lines, NEW n \in Nat, NEW k \in 1..n
  PROVE  /\ LastAbout(lines, k, k)
         /\ \A m \in 1..k - 1 : LastAbout(lines, m, k) <=>
                                  LastAbout(lines, m, k - 1) /\ lines[m].place # lines[k].place
         /\ k \in 1..k /\ \A m \in 1..k : m = k \/ m \in 1..k - 1
         /\ \A m \in 1..k - 1 : m \in 1..k
<1>1. k \in Nat /\ k \in 1..k /\ \A m \in 1..k - 1 : m \in 1..k /\ m # k /\ ~(k <= m)
  OBVIOUS
<1>2. \A m \in 1..k : m <= k /\ (m = k \/ m \in 1..k - 1)
  OBVIOUS
<1>3. LastAbout(lines, k, k)
  BY <1>1, <1>2 DEF LastAbout
<1>4. ASSUME NEW m \in 1..k - 1
      PROVE  LastAbout(lines, m, k) <=> LastAbout(lines, m, k - 1) /\ lines[m].place # lines[k].place
  BY <1>1, <1>2 DEF LastAbout
<1> QED
  BY <1>1, <1>2, <1>3, <1>4

\* Placed keeps this.
LEMMA PlacedPlan ==
  ASSUME NEW lines \in Seq(Line), NEW k \in 1..Len(lines), lines[k].mac # BadMac,
         NEW a, PlanOf(a, lines, k - 1)
  PROVE  PlanOf(Placed(a, lines[k]), lines, k)
<1> DEFINE b == Placed(a, lines[k])
<1>1. /\ Len(lines) \in Nat /\ lines[k] \in Line /\ a \in Seq(Line) /\ Len(a) \in Nat
      /\ DOMAIN a = 1..Len(a)
  BY DEF PlanOf
<1>2. /\ LastAbout(lines, k, k)
      /\ \A m \in 1..k - 1 : LastAbout(lines, m, k) <=>
                               LastAbout(lines, m, k - 1) /\ lines[m].place # lines[k].place
      /\ k \in 1..k /\ \A m \in 1..k : m = k \/ m \in 1..k - 1
      /\ \A m \in 1..k - 1 : m \in 1..k
  BY <1>1, LastAfter
<1>3. /\ \A i, j \in DOMAIN a : a[i].place = a[j].place => i = j
      /\ \A i \in DOMAIN a : \E m \in 1..k - 1 : a[i] = lines[m] /\ LastAbout(lines, m, k - 1)
      /\ \A m \in 1..k - 1 : LastAbout(lines, m, k - 1) => \E i \in DOMAIN a : a[i] = lines[m]
  BY DEF PlanOf
<1>4. b \in Seq(Line)
  BY <1>1, PlacedIs
<1>5. CASE \E i \in DOMAIN a : a[i].place = lines[k].place
  <2>1. PICK i0 \in DOMAIN a : a[i0].place = lines[k].place
    BY <1>5
  <2>2. b = [i \in DOMAIN a |-> IF a[i].place = lines[k].place THEN lines[k] ELSE a[i]]
    BY <1>5 DEF Placed
  <2>3. /\ DOMAIN b = DOMAIN a /\ b[i0] = lines[k]
        /\ \A i \in DOMAIN a : i # i0 => b[i] = a[i] /\ a[i].place # lines[k].place
    BY <1>3, <2>1, <2>2
  <2> HIDE DEF b
  <2>4. \A i, j \in DOMAIN b : b[i].place = b[j].place => i = j
    BY <1>3, <2>3
  <2>5. ASSUME NEW i \in DOMAIN b PROVE \E m \in 1..k : b[i] = lines[m] /\ LastAbout(lines, m, k)
    <3>1. CASE i = i0
      BY <1>2, <2>3, <3>1
    <3>2. CASE i # i0
      <4>1. PICK m \in 1..k - 1 : a[i] = lines[m] /\ LastAbout(lines, m, k - 1)
        BY <1>3, <2>3
      <4> QED
        BY <1>2, <2>3, <3>2, <4>1
    <3> QED
      BY <3>1, <3>2
  <2>6. ASSUME NEW m \in 1..k, LastAbout(lines, m, k) PROVE \E i \in DOMAIN b : b[i] = lines[m]
    <3>1. CASE m = k
      BY <2>1, <2>3, <3>1
    <3>2. CASE m # k
      <4>1. m \in 1..k - 1 /\ LastAbout(lines, m, k - 1) /\ lines[m].place # lines[k].place
        BY <1>2, <2>6, <3>2
      <4>2. PICK i \in DOMAIN a : a[i] = lines[m]
        BY <1>3, <4>1
      <4> QED
        BY <2>1, <2>3, <4>1, <4>2
    <3> QED
      BY <3>1, <3>2
  <2> QED
    BY <1>4, <2>4, <2>5, <2>6 DEF PlanOf, b
<1>6. CASE ~ \E i \in DOMAIN a : a[i].place = lines[k].place
  <2>1. b = Append(a, lines[k])
    BY <1>6 DEF Placed
  <2> DEFINE n == Len(a) + 1
  <2>2. /\ DOMAIN b = 1..n /\ b[n] = lines[k] /\ n \in DOMAIN b
        /\ \A i \in DOMAIN b : i = n \/ i \in DOMAIN a
        /\ \A i \in DOMAIN a : i \in DOMAIN b /\ i # n /\ b[i] = a[i]
    BY <1>1, <2>1
  <2> HIDE DEF b, n
  <2>4. \A i, j \in DOMAIN b : b[i].place = b[j].place => i = j
    BY <1>3, <1>6, <2>2
  <2>5. ASSUME NEW i \in DOMAIN b PROVE \E m \in 1..k : b[i] = lines[m] /\ LastAbout(lines, m, k)
    <3>1. CASE i = n
      BY <1>2, <2>2, <3>1
    <3>2. CASE i # n
      <4>1. PICK m \in 1..k - 1 : a[i] = lines[m] /\ LastAbout(lines, m, k - 1)
        BY <1>3, <2>2, <3>2
      <4>2. lines[m].place # lines[k].place
        BY <1>6, <2>2, <3>2, <4>1
      <4> QED
        BY <1>2, <2>2, <3>2, <4>1, <4>2
    <3> QED
      BY <3>1, <3>2
  <2>6. ASSUME NEW m \in 1..k, LastAbout(lines, m, k) PROVE \E i \in DOMAIN b : b[i] = lines[m]
    <3>1. CASE m = k
      BY <2>2, <3>1
    <3>2. CASE m # k
      <4>1. m \in 1..k - 1 /\ LastAbout(lines, m, k - 1)
        BY <1>2, <2>6, <3>2
      <4>2. PICK i \in DOMAIN a : a[i] = lines[m]
        BY <1>3, <4>1
      <4> QED
        BY <2>2, <4>2
    <3> QED
      BY <3>1, <3>2
  <2> QED
    BY <1>4, <2>4, <2>5, <2>6 DEF PlanOf, b
<1> QED
  BY <1>5, <1>6

\* ByPlace has one line for each place of the file, the last about it.
LEMMA ByPlaceIs ==
  ASSUME NEW lines \in Lines, Clean(lines)
  PROVE  PlanOf(ByPlace(lines), lines, Len(lines))
<1>1. /\ lines \in Seq(Line) /\ Len(lines) \in Nat
      /\ \A k \in 1..Len(lines) : lines[k].mac # BadMac
  BY DEF Lines, Clean, Range
<1>2. PICK g : /\ ByPlace(lines) = g[1..Len(lines)] /\ g[1..0] = <<>>
               /\ \A k \in 1..Len(lines) : g[1..k] = Placed(g[1..k - 1], lines[k])
  BY PlacesStep
<1> DEFINE T == {k \in 0..Len(lines) : PlanOf(g[1..k], lines, k)}
<1>3. 0 \in T
  <2>1. 1..0 = {} /\ 0 \in 0..Len(lines) /\ <<>> \in Seq(Line) /\ DOMAIN <<>> = {}
    BY <1>1
  <2>2. PlanOf(<<>>, lines, 0)
    BY <2>1 DEF PlanOf
  <2> QED
    BY <1>2, <2>1, <2>2
<1>4. ASSUME NEW k \in 1..Len(lines), k - 1 \in T PROVE k \in T
  <2>1. k \in 0..Len(lines) /\ PlanOf(g[1..k - 1], lines, k - 1)
    BY <1>1, <1>4
  <2>2. PlanOf(g[1..k], lines, k)
    BY <1>1, <1>2, <2>1, PlacedPlan
  <2> QED
    BY <2>1, <2>2
<1>5. 0..Len(lines) \subseteq T
  <2> HIDE DEF T
  <2> QED
    BY <1>1, <1>3, <1>4, Upwards
<1>6. Len(lines) \in T
  BY <1>1, <1>5
<1> QED
  BY <1>2, <1>6

-----------------------------------------------------------------------------
(* A plan that is free of conflicts is kept whole.                         *)

\* Two lines that want the same address or the same device.
Clashes(k, l) == k.ip = l.ip \/ (l.mac # NoMac /\ k.mac = l.mac)

\* One more line in Apart.
KeptWith(kept, l) == IF \E k \in Range(kept) : Clashes(k, l) THEN kept ELSE Append(kept, l)

\* What Apart folds, for some function g.
Keeps(g, n, s) ==
  g = [d \in SUBSET (1..n) |-> IF d = {} THEN <<>> ELSE KeptWith(g[d \ {Max(d)}], s[Max(d)])]

\* Apart takes one line after the other.
LEMMA KeepsStep ==
  ASSUME NEW plan \in Seq(Line)
  PROVE  \E g : /\ Apart(plan) = g[1..Len(plan)] /\ g[1..0] = <<>>
                /\ \A k \in 1..Len(plan) : g[1..k] = KeptWith(g[1..k - 1], plan[k])
<1> DEFINE n == Len(plan)
           F == [p \in Seq(Line) \X Line |-> KeptWith(p[1], p[2])]
           g == CHOOSE h : Keeps(h, n, plan)
<1>1. plan \in [1..n -> Line] /\ n \in Nat /\ DOMAIN plan = 1..n
  OBVIOUS
<1>2. \A a \in Seq(Line), x \in Line : F[<<a, x>>] = KeptWith(a, x) /\ F[<<a, x>>] \in Seq(Line)
  BY DEF KeptWith
<1>3. <<>> \in Seq(Line)
  OBVIOUS
<1> HIDE DEF F, n
<1>4. PICK f : FoldBy(f, F, <<>>, n, plan)
  BY <1>1, FoldExists
<1>5. \A d \in SUBSET (1..n) : f[d] \in Seq(Line)
  BY <1>1, <1>2, <1>3, <1>4, FoldStays
<1>6. ASSUME NEW d \in SUBSET (1..n), d # {}
      PROVE  F[<<f[d \ {Max(d)}], plan[Max(d)]>>] = KeptWith(f[d \ {Max(d)}], plan[Max(d)])
  <2>1. Max(d) \in d
    BY <1>1, <1>6, LastOf
  <2>2. d \ {Max(d)} \in SUBSET (1..n) /\ plan[Max(d)] \in Line
    BY <1>1, <2>1
  <2> QED
    BY <1>2, <1>5, <2>2
<1>7. Keeps(f, n, plan)
  BY <1>4, <1>6 DEF FoldBy, Keeps
<1>8. Keeps(g, n, plan)
  BY <1>7
<1>9. Apart(plan) = g[1..n]
  BY <1>1 DEF Apart, FoldLeft, MapThenFoldSet, Keeps, KeptWith, Clashes
<1> HIDE DEF g
<1>10. \A d \in SUBSET (1..n) : g[d] = IF d = {} THEN <<>> ELSE KeptWith(g[d \ {Max(d)}], plan[Max(d)])
  BY <1>8 DEF Keeps
<1>11. g[1..0] = <<>> /\ \A k \in 1..n : g[1..k] = KeptWith(g[1..k - 1], plan[k])
  BY <1>1, <1>10, FirstPlaces
<1> QED
  BY <1>9, <1>11 DEF n

\* Apart drops nothing where nothing clashes.
LEMMA ApartIs ==
  ASSUME NEW plan \in Seq(Line), \A i, j \in DOMAIN plan : i # j => ~ Clashes(plan[i], plan[j])
  PROVE  Apart(plan) = plan
<1>1. Len(plan) \in Nat /\ DOMAIN plan = 1..Len(plan) /\ \A k \in 1..Len(plan) : plan[k] \in Line
  OBVIOUS
<1>2. PICK g : /\ Apart(plan) = g[1..Len(plan)] /\ g[1..0] = <<>>
               /\ \A k \in 1..Len(plan) : g[1..k] = KeptWith(g[1..k - 1], plan[k])
  BY KeepsStep
<1> DEFINE Same(a, k) == a \in Seq(Line) /\ Len(a) = k /\ \A i \in 1..k : a[i] = plan[i]
           T == {k \in 0..Len(plan) : Same(g[1..k], k)}
<1>3. 0 \in T
  <2>1. Same(<<>>, 0) /\ 0 \in 0..Len(plan)
    BY <1>1
  <2> HIDE DEF Same
  <2> QED
    BY <1>2, <2>1
<1>4. ASSUME NEW k \in 1..Len(plan), k - 1 \in T PROVE k \in T
  <2> DEFINE a == g[1..k - 1]
  <2>1. k \in 0..Len(plan) /\ Same(a, k - 1)
    BY <1>1, <1>4
  <2> HIDE DEF a, T
  <2>2. /\ a \in Seq(Line) /\ Len(a) = k - 1 /\ DOMAIN a = 1..k - 1 /\ k \in Nat
        /\ \A i \in 1..k - 1 : a[i] = plan[i] /\ i \in DOMAIN plan /\ i # k
    BY <1>1, <2>1
  <2>3. \A x \in Range(a) : ~ Clashes(x, plan[k])
    BY <1>1, <2>2 DEF Range
  <2>4. KeptWith(a, plan[k]) = Append(a, plan[k])
    BY <2>3 DEF KeptWith
  <2>5. plan[k] \in Line
    BY <1>1
  <2>6. /\ Append(a, plan[k]) \in Seq(Line) /\ Len(Append(a, plan[k])) = k
        /\ \A i \in 1..k : Append(a, plan[k])[i] = plan[i]
    BY <2>2, <2>5
  <2>7. Same(g[1..k], k)
    BY <1>2, <2>4, <2>6 DEF a
  <2> QED
    BY <2>1, <2>7 DEF T
<1>5. 0..Len(plan) \subseteq T
  <2> HIDE DEF T
  <2> QED
    BY <1>1, <1>3, <1>4, Upwards
<1>6. Same(Apart(plan), Len(plan))
  BY <1>1, <1>2, <1>5
<1> PICK a : a = Apart(plan)
  OBVIOUS
<1>7. a \in Seq(Line) /\ Len(a) = Len(plan) /\ \A i \in 1..Len(plan) : a[i] = plan[i]
  BY <1>6
<1>8. a = plan
  BY ONLY <1>7, plan \in Seq(Line)
<1> QED
  BY <1>8

-----------------------------------------------------------------------------
(* Rows that no line is about, none of which is in the way.                *)

\* One row of the register in Planned.
Met(kept, acc, row) == IF row.here THEN Against(kept, acc, row) ELSE acc

\* What Planned folds, for some function g.
Meets(g, kept, base, n, s) ==
  g = [d \in SUBSET (1..n) |-> IF d = {} THEN base ELSE Met(kept, g[d \ {Max(d)}], s[Max(d)])]

\* A register that has nothing against a plan leaves it as it is.
LEMMA PlannedIs ==
  ASSUME NEW lines, NEW table \in Seq(Entry), NEW kept, kept = Range(Apart(ByPlace(lines))),
         \A i \in Present(table) : \/ \E l \in kept : l.place = table[i].place
                                   \/ \A l \in kept : /\ l.ip # table[i].ip
                                                      /\ table[i].mac # NoMac => l.mac # table[i].mac
  PROVE  Planned(lines, table) = [plan |-> kept, places |-> {l.place : l \in kept}, broken |-> FALSE]
<1> DEFINE n == Len(table)
           base == [plan |-> kept, places |-> {l.place : l \in kept}, broken |-> FALSE]
           X == {table[i] : i \in 1..n}
           F == [p \in {base} \X X |-> Met(kept, p[1], p[2])]
           g == CHOOSE h : Meets(h, kept, base, n, table)
<1>1. table \in [1..n -> X] /\ n \in Nat /\ DOMAIN table = 1..n
  OBVIOUS
<1>2. ASSUME NEW i \in 1..n PROVE Met(kept, base, table[i]) = base
  <2>1. CASE ~ table[i].here
    BY <2>1 DEF Met
  <2>2. CASE table[i].here
    <3>1. i \in Present(table)
      BY <1>1, <2>2 DEF Present
    <3>2. CASE \E l \in kept : l.place = table[i].place
      <4>1. table[i].place \in base.places
        BY <3>2
      <4> HIDE DEF base
      <4> QED
        BY <2>2, <4>1 DEF Met, Against
    <3>3. CASE \A l \in kept : l.ip # table[i].ip /\ (table[i].mac # NoMac => l.mac # table[i].mac)
      <4>1. {l \in kept : l.ip = table[i].ip} = {}
            /\ {l \in kept : table[i].mac # NoMac /\ l.mac = table[i].mac} = {}
        BY <3>3
      <4>2. Against(kept, base, table[i]) =
              IF table[i].place \in base.places \/ base.broken THEN base
              ELSE [plan |-> base.plan \ ({} \cup {}), places |-> base.places \ {l.place : l \in {}},
                    broken |-> ~({} \subseteq base.plan)]
        BY <4>1 DEF Against
      <4>3. Against(kept, base, table[i]) = base
        BY <4>2
      <4> QED
        BY <2>2, <4>3 DEF Met
    <3> QED
      BY <3>1, <3>2, <3>3
  <2> QED
    BY <2>1, <2>2
<1>3. \A a \in {base}, x \in X : F[<<a, x>>] = Met(kept, a, x) /\ F[<<a, x>>] \in {base}
  <2> HIDE DEF base
  <2> QED
    BY <1>2
<1>b. base \in {base}
  OBVIOUS
<1> HIDE DEF F, n, base, X
<1>4. PICK f : FoldBy(f, F, base, n, table)
  BY <1>1, FoldExists
<1>5. \A d \in SUBSET (1..n) : f[d] \in {base}
  BY <1>1, <1>3, <1>4, <1>b, FoldStays
<1>6. ASSUME NEW d \in SUBSET (1..n), d # {}
      PROVE  F[<<f[d \ {Max(d)}], table[Max(d)]>>] = Met(kept, f[d \ {Max(d)}], table[Max(d)])
  <2>1. Max(d) \in d
    BY <1>1, <1>6, LastOf
  <2>2. d \ {Max(d)} \in SUBSET (1..n) /\ table[Max(d)] \in X
    BY <1>1, <2>1
  <2> QED
    BY <1>3, <1>5, <2>2
<1>7. Meets(f, kept, base, n, table)
  BY <1>4, <1>6 DEF FoldBy, Meets
<1>8. Meets(g, kept, base, n, table)
  BY <1>7
<1>9. Planned(lines, table) = g[1..n]
  BY <1>1 DEF Planned, FoldLeft, MapThenFoldSet, Meets, Met, base
<1> HIDE DEF g
<1>10. \A d \in SUBSET (1..n) : g[d] = IF d = {} THEN base ELSE Met(kept, g[d \ {Max(d)}], table[Max(d)])
  BY <1>8 DEF Meets
<1>11. g[1..0] = base /\ \A k \in 1..n : g[1..k] = Met(kept, g[1..k - 1], table[k])
  <2>1. /\ 1..0 = {} /\ {} \in SUBSET (1..n)
        /\ \A k \in 1..n : /\ 1..k \in SUBSET (1..n) /\ 1..k # {}
                           /\ Max(1..k) = k /\ (1..k) \ {Max(1..k)} = 1..k - 1
    BY <1>1, FirstPlaces
  <2>2. g[1..0] = base
    BY <1>10, <2>1
  <2>3. ASSUME NEW k \in 1..n PROVE g[1..k] = Met(kept, g[1..k - 1], table[k])
    BY <1>10, <2>1
  <2> QED
    BY <2>2, <2>3
<1> DEFINE T == {k \in 0..n : g[1..k] = base}
<1>12. 0 \in T
  BY <1>1, <1>11
<1>13. ASSUME NEW k \in 1..n, k - 1 \in T PROVE k \in T
  <2>1. g[1..k] = Met(kept, base, table[k]) /\ k \in 0..n
    BY <1>1, <1>11, <1>13
  <2> QED
    BY <1>2, <2>1 DEF n
<1>14. 0..n \subseteq T
  <2> HIDE DEF T
  <2> QED
    BY <1>1, <1>12, <1>13, Upwards
<1> QED
  BY <1>1, <1>9, <1>14 DEF base

-----------------------------------------------------------------------------
(* What a file wants.                                                      *)

\* The lines of ByPlace: they are lines of the file, one for each place it names.
LEMMA MeantIs ==
  ASSUME NEW lines \in Lines, Clean(lines), NEW P, P = Range(ByPlace(lines))
  PROVE  /\ P \subseteq Line /\ P \subseteq Range(lines)
         /\ IsFiniteSet(P) /\ Cardinality(P) = Len(ByPlace(lines))
         /\ ByPlace(lines) \in Seq(Line)
         /\ \A i, j \in DOMAIN ByPlace(lines) : i # j => ByPlace(lines)[i] # ByPlace(lines)[j]
         /\ \A a, b \in P : a.place = b.place => a = b
         /\ {l.place : l \in P} = {l.place : l \in Range(lines)}
         /\ \A l \in P : l = lines[CHOOSE k \in DOMAIN lines :
                                     /\ lines[k].place = l.place
                                     /\ \A j \in DOMAIN lines : lines[j].place = l.place => j <= k]
<1> PICK plan : plan = ByPlace(lines)
  OBVIOUS
<1>1. PlanOf(plan, lines, Len(lines))
  BY ByPlaceIs
<1>2. /\ lines \in Seq(Line) /\ Len(lines) \in Nat /\ DOMAIN lines = 1..Len(lines)
      /\ \A k \in DOMAIN lines : lines[k] \in Line
  BY DEF Lines
<1>3. /\ plan \in Seq(Line) /\ Len(plan) \in Nat /\ DOMAIN plan = 1..Len(plan)
      /\ \A i \in DOMAIN plan : plan[i] \in Line
  BY <1>1 DEF PlanOf
<1>4. /\ \A i, j \in DOMAIN plan : plan[i].place = plan[j].place => i = j
      /\ \A i \in DOMAIN plan : \E m \in DOMAIN lines : plan[i] = lines[m] /\ LastAbout(lines, m, Len(lines))
      /\ \A m \in DOMAIN lines : LastAbout(lines, m, Len(lines)) => \E i \in DOMAIN plan : plan[i] = lines[m]
  BY <1>1, <1>2 DEF PlanOf
<1>5. P \subseteq Line /\ P \subseteq Range(lines)
  BY <1>3, <1>4 DEF Range
<1>6. \A i, j \in DOMAIN plan : i # j => plan[i] # plan[j]
  BY <1>4
<1>7. IsFiniteSet(P) /\ Cardinality(P) = Len(plan)
  <2>1. plan \in [1..Len(plan) -> P] /\ \A x \in P : \E i \in 1..Len(plan) : plan[i] = x
    BY <1>3 DEF Range
  <2>2. plan \in Bijection(1..Len(plan), P)
    BY <1>3, <1>6, <2>1 DEF Bijection, Injection, Surjection, IsInjective
  <2>3. ExistsBijection(1..Len(plan), P)
    BY <2>2 DEF ExistsBijection
  <2>4. IsFiniteSet(1..Len(plan))
    BY <1>3, FS_Interval
  <2>5. plan \in Surjection(1..Len(plan), P)
    BY <2>2 DEF Bijection
  <2> QED
    BY <1>3, <2>3, <2>4, <2>5, FS_CountingElements, FS_Surjection
<1>8. \A a, b \in P : a.place = b.place => a = b
  BY <1>4 DEF Range
<1>9. ASSUME NEW m \in DOMAIN lines
      PROVE  \E l \in P : l.place = lines[m].place
  <2> DEFINE d == {k \in 1..Len(lines) : lines[k].place = lines[m].place}
  <2>1. d \in SUBSET (1..Len(lines)) /\ m \in d
    BY <1>2
  <2>2. Max(d) \in d /\ \A i \in d : i <= Max(d)
    BY <1>2, <2>1, LastOf
  <2> PICK x : x = Max(d)
    OBVIOUS
  <2>3. x \in DOMAIN lines /\ lines[x].place = lines[m].place /\ LastAbout(lines, x, Len(lines))
    BY <1>2, <2>2 DEF LastAbout
  <2>4. PICK i \in DOMAIN plan : plan[i] = lines[x]
    BY <1>4, <2>3
  <2> QED
    BY <2>3, <2>4 DEF Range
<1>10. {l.place : l \in P} = {l.place : l \in Range(lines)}
  BY <1>5, <1>9 DEF Range
<1>11. ASSUME NEW l \in P
       PROVE  l = lines[CHOOSE k \in DOMAIN lines :
                          /\ lines[k].place = l.place
                          /\ \A j \in DOMAIN lines : lines[j].place = l.place => j <= k]
  <2>1. PICK m \in DOMAIN lines : l = lines[m] /\ LastAbout(lines, m, Len(lines))
    BY <1>4 DEF Range
  <2> DEFINE Final(k) == /\ lines[k].place = l.place
                         /\ \A j \in DOMAIN lines : lines[j].place = l.place => j <= k
  <2>2. Final(m)
    BY <1>2, <2>1 DEF LastAbout
  <2>3. \A k \in DOMAIN lines : Final(k) => k <= m /\ m <= k
    BY <2>1, <2>2
  <2>4. \A k \in DOMAIN lines : Final(k) => k = m
    BY <1>2, <2>3
  <2> HIDE DEF Final
  <2>5. (CHOOSE k \in DOMAIN lines : Final(k)) = m
    BY <2>2, <2>4
  <2> QED
    BY <2>1, <2>5 DEF Final
<1> QED
  BY <1>3, <1>5, <1>6, <1>7, <1>8, <1>10, <1>11

\* Place, address and device of a row.
Shown(row) == [place |-> row.place, ip |-> row.ip, mac |-> row.mac]

\* A row that is wanted is one of these lines, or a row that no line is about.
LEMMA WantedIs ==
  ASSUME NEW lines \in Lines, Clean(lines), NEW P, P = Range(ByPlace(lines)),
         rows \in Seq(Entry), Unique(rows)
  PROVE  /\ \A l \in P : \E w \in Wanted(lines) :
              /\ w.place = l.place /\ w.ip = l.ip /\ (l.mac # NoMac => w.mac = l.mac)
              /\ \A i \in Present(rows) : rows[i].place = l.place /\ l.mac = NoMac => w.mac = rows[i].mac
         /\ \A i \in Present(rows) :
              (\A l \in P : l.place # rows[i].place) => Shown(rows[i]) \in Wanted(lines)
         /\ \A w \in Wanted(lines) :
              \/ \E l \in P : w.place = l.place /\ w.ip = l.ip
              \/ \E i \in Present(rows) : w = Shown(rows[i]) /\ \A l \in P : l.place # rows[i].place
<1> DEFINE last(p) == lines[CHOOSE k \in DOMAIN lines :
                         lines[k].place = p /\ \A j \in DOMAIN lines : lines[j].place = p => j <= k]
           named == {l.place : l \in Range(lines)}
           old == {rows[i] : i \in Present(rows)}
           had(p) == {row \in old : row.place = p /\ row.mac # NoMac}
           owner(p) == CHOOSE row \in had(p) : TRUE
           mac(p) == IF last(p).mac # NoMac \/ had(p) = {} THEN last(p).mac ELSE owner(p).mac
           kept == {[place |-> row.place, ip |-> row.ip, mac |-> row.mac] : row \in {o \in old : o.place \notin named}}
           made == {[place |-> p, ip |-> last(p).ip, mac |-> mac(p)] : p \in named}
<1>1. Wanted(lines) = kept \cup made
  BY DEF Wanted
<1>2. /\ P \subseteq Line /\ P \subseteq Range(lines)
      /\ \A a, b \in P : a.place = b.place => a = b
      /\ {l.place : l \in P} = named /\ \A l \in P : l = last(l.place)
  <2>1. /\ P \subseteq Line /\ P \subseteq Range(lines)
        /\ \A a, b \in P : a.place = b.place => a = b
    BY MeantIs
  <2>2. {l.place : l \in P} = named
    BY MeantIs
  <2>3. \A l \in P : l = last(l.place)
    BY MeantIs
  <2> HIDE DEF last, named
  <2> QED
    BY <2>1, <2>2, <2>3
<1> HIDE DEF last
<1>3. ASSUME NEW l \in P
      PROVE  \E w \in made :
              /\ w.place = l.place /\ w.ip = l.ip /\ (l.mac # NoMac => w.mac = l.mac)
              /\ \A i \in Present(rows) : rows[i].place = l.place /\ l.mac = NoMac => w.mac = rows[i].mac
  <2> DEFINE w == [place |-> l.place, ip |-> last(l.place).ip, mac |-> mac(l.place)]
  <2>1. l.place \in named /\ last(l.place) = l
    BY <1>2
  <2>2. w \in made
    BY <2>1
  <2>3. w.place = l.place /\ w.ip = l.ip /\ (l.mac # NoMac => w.mac = l.mac)
    BY <2>1
  <2>4. ASSUME NEW i \in Present(rows), rows[i].place = l.place, l.mac = NoMac
        PROVE  mac(l.place) = rows[i].mac
    <3>1. CASE had(l.place) = {}
      <4>1. rows[i] \in old /\ rows[i].mac = NoMac
        BY <2>4, <3>1
      <4> QED
        BY <2>1, <2>4, <3>1, <4>1
    <3>2. CASE had(l.place) # {}
      <4>1. owner(l.place) \in had(l.place)
        BY <3>2
      <4>2. owner(l.place) \in old /\ owner(l.place).place = l.place
        BY <4>1
      <4> HIDE DEF owner, had
      <4>3. PICK j \in Present(rows) : owner(l.place) = rows[j]
        BY <4>2
      <4>4. j = i
        BY <2>4, <4>2, <4>3 DEF Unique
      <4> QED
        BY <2>1, <2>4, <3>2, <4>3, <4>4
    <3> QED
      BY <3>1, <3>2
  <2>5. w.mac = mac(l.place)
    OBVIOUS
  <2> HIDE DEF w, made, mac
  <2> QED
    BY <2>2, <2>3, <2>4, <2>5
<1>4. ASSUME NEW i \in Present(rows), \A l \in P : l.place # rows[i].place
      PROVE  Shown(rows[i]) \in kept
  <2>1. rows[i] \in old /\ rows[i].place \notin named
    BY <1>2, <1>4
  <2> QED
    BY <2>1 DEF Shown
<1>5. ASSUME NEW w \in made PROVE \E l \in P : w.place = l.place /\ w.ip = l.ip
  <2>1. PICK p \in named : w = [place |-> p, ip |-> last(p).ip, mac |-> mac(p)]
    OBVIOUS
  <2>2. PICK l \in P : p = l.place
    BY <1>2, <2>1
  <2>3. last(p) = l
    BY <1>2, <2>2
  <2> HIDE DEF mac
  <2> QED
    BY <2>1, <2>2, <2>3
<1>6. ASSUME NEW w \in kept
      PROVE  \E i \in Present(rows) : w = Shown(rows[i]) /\ \A l \in P : l.place # rows[i].place
  BY <1>2 DEF Shown
<1> HIDE DEF kept, made
<1> QED
  BY <1>1, <1>3, <1>4, <1>5, <1>6

\* Where what is wanted is consistent, no two of its lines clash, nor does a line with a
\* row that no line is about.
LEMMA NothingClashes ==
  ASSUME NEW lines \in Lines, Clean(lines), NEW P, P = Range(ByPlace(lines)),
         rows \in Seq(Entry), Unique(rows), Consistent(Wanted(lines))
  PROVE  /\ \A a, b \in P : a # b => ~ Clashes(a, b)
         /\ \A i \in Present(rows) : \/ \E l \in P : l.place = rows[i].place
                                     \/ \A l \in P : /\ l.ip # rows[i].ip
                                                     /\ rows[i].mac # NoMac => l.mac # rows[i].mac
<1>1. \A a, b \in P : a.place = b.place => a = b
  BY MeantIs
<1>2. /\ \A l \in P : \E w \in Wanted(lines) :
              /\ w.place = l.place /\ w.ip = l.ip /\ (l.mac # NoMac => w.mac = l.mac)
      /\ \A i \in Present(rows) :
              (\A l \in P : l.place # rows[i].place) => Shown(rows[i]) \in Wanted(lines)
  BY WantedIs
<1>3. ASSUME NEW a \in P, NEW b \in P, a # b PROVE ~ Clashes(a, b)
  <2>1. PICK v \in Wanted(lines) : v.place = a.place /\ v.ip = a.ip /\ (a.mac # NoMac => v.mac = a.mac)
    BY <1>2
  <2>2. PICK w \in Wanted(lines) : w.place = b.place /\ w.ip = b.ip /\ (b.mac # NoMac => w.mac = b.mac)
    BY <1>2
  <2>3. v # w
    BY <1>1, <1>3, <2>1, <2>2
  <2> QED
    BY <2>1, <2>2, <2>3 DEF Consistent, Clashes
<1>4. ASSUME NEW i \in Present(rows), \A l \in P : l.place # rows[i].place, NEW l \in P
      PROVE  l.ip # rows[i].ip /\ (rows[i].mac # NoMac => l.mac # rows[i].mac)
  <2>1. PICK v \in Wanted(lines) : v.place = l.place /\ v.ip = l.ip /\ (l.mac # NoMac => v.mac = l.mac)
    BY <1>2
  <2>2. PICK w \in Wanted(lines) : w = Shown(rows[i])
    BY <1>2, <1>4
  <2>3. w.place = rows[i].place /\ w.ip = rows[i].ip /\ w.mac = rows[i].mac
    BY <2>2 DEF Shown
  <2>4. v # w
    BY <1>4, <2>1, <2>3
  <2> QED
    BY <2>1, <2>3, <2>4 DEF Consistent
<1> QED
  BY <1>3, <1>4

-----------------------------------------------------------------------------
(* What an import makes of the register it has read.                       *)

\* A finite set is listed whole, and each of it once.
LEMMA ListedOnce ==
  ASSUME NEW S, IsFiniteSet(S)
  PROVE  /\ SetToSeq(S) \in [1..Cardinality(S) -> S] /\ Cardinality(S) \in Nat
         /\ \A i, j \in 1..Cardinality(S) : i # j => SetToSeq(S)[i] # SetToSeq(S)[j]
         /\ \A x \in S : \E i \in 1..Cardinality(S) : SetToSeq(S)[i] = x
<1> DEFINE n == Cardinality(S)
           s == SetToSeq(S)
<1>1. n \in Nat /\ ExistsBijection(1..n, S)
  BY FS_CardinalityType
<1>2. \E f \in [1..n -> S] : IsInjective(f)
  BY <1>1 DEF ExistsBijection, Bijection, Injection, IsInjective
<1>3. s \in [1..n -> S] /\ IsInjective(s)
  BY <1>2 DEF SetToSeq
<1> HIDE DEF s
<1>4. s \in Injection(1..n, S)
  BY <1>3 DEF Injection, IsInjective
<1>5. Cardinality(1..n) = n
  BY <1>1, FS_Interval
<1>6. s \in Surjection(1..n, S)
  BY <1>4, <1>5, FS_Injection
<1>7. \A x \in S : \E i \in 1..n : s[i] = x
  BY <1>6 DEF Surjection
<1> HIDE DEF n
<1>8. \A i, j \in 1..n : i # j => s[i] # s[j]
  BY <1>3 DEF IsInjective
<1> QED
  BY <1>1, <1>3, <1>7, <1>8 DEF s, n

\* What a planned line makes of the row it is about.
LEMMA TakenOver ==
  ASSUME NEW row \in Entry, NEW l \in Line
  PROVE  LET new == Written(row, row, l)
         IN  /\ new \in Entry /\ new.here = row.here /\ new.place = row.place /\ new.ip = l.ip
             /\ new.mac = NoMac \/ (l.mac # NoMac /\ new.mac = l.mac) \/ (l.mac = NoMac /\ new.mac = row.mac)
<1>1. CASE ~ Moves(l, row)
  BY <1>1 DEF Written, Moves
<1>2. CASE Moves(l, row)
  <2> DEFINE mac == IF l.mac # NoMac THEN l.mac ELSE IF row.mac # NoMac THEN NoMac ELSE row.mac
             claimed == row.claimed \/ (l.mac # NoMac /\ ~ row.claimed)
  <2>1. Written(row, row, l) = [row EXCEPT !.ip = l.ip, !.mac = mac, !.claimed = claimed]
    BY <1>2 DEF Written
  <2>2. mac \in Cell /\ claimed \in BOOLEAN /\ l.ip \in Addr
    BY DEF Entry, Line, Cell
  <2>3. mac = NoMac \/ (l.mac # NoMac /\ mac = l.mac)
    OBVIOUS
  <2> HIDE DEF mac, claimed
  <2> QED
    BY <2>1, <2>2, <2>3 DEF Entry
<1> QED
  BY <1>1, <1>2

\* In t every row is as its line wants it, and every line that is about no row has a new one.
Taken(t, table, P) ==
  /\ t \in Seq(Entry) /\ DOMAIN table \subseteq DOMAIN t
  /\ \A i \in DOMAIN table :
       /\ t[i].here = table[i].here /\ t[i].place = table[i].place
       /\ (\A l \in P : l.place # table[i].place) => t[i] = table[i]
       /\ \A l \in P : l.place = table[i].place /\ table[i].here =>
            /\ t[i].ip = l.ip
            /\ \/ t[i].mac = NoMac \/ (l.mac # NoMac /\ t[i].mac = l.mac)
               \/ (l.mac = NoMac /\ t[i].mac = table[i].mac)
  /\ \A i \in DOMAIN t \ DOMAIN table :
       \E l \in P : t[i] = Fresh(l, "manual") /\ \A j \in Present(table) : table[j].place # l.place
  /\ \A i, j \in DOMAIN t \ DOMAIN table : i # j => t[i].place # t[j].place
  /\ \A l \in P : (\A j \in Present(table) : table[j].place # l.place) =>
       \E i \in DOMAIN t \ DOMAIN table : t[i] = Fresh(l, "manual")

\* So it is after an import that applies the lines P to the register it has read.
LEMMA RegisterIs ==
  ASSUME NEW table \in Seq(Entry), NEW P \in SUBSET Line, IsFiniteSet(P),
         \A a, b \in P : a.place = b.place => a = b
  PROVE  Taken(Imported(table, table, P), table, P)
<1> DEFINE line(i) == {l \in P : i \in Present(table) /\ l.place = table[i].place}
           added == {l \in P : \A j \in Present(table) : table[j].place # l.place}
           cell(i) == IF i > Len(table) THEN table[i]
                      ELSE IF line(i) = {} THEN table[i]
                      ELSE Written(table[i], table[i], CHOOSE l \in line(i) : TRUE)
           old == [i \in DOMAIN table |-> cell(i)]
           fresh == [k \in DOMAIN SetToSeq(added) |-> Fresh(SetToSeq(added)[k], "manual")]
<1>1. Imported(table, table, P) = old \o fresh
  BY DEF Imported
<1>2. /\ Len(table) \in Nat /\ DOMAIN table = 1..Len(table) /\ \A i \in DOMAIN table : table[i] \in Entry
      /\ \A i \in DOMAIN table : ~(i > Len(table)) /\ (i \in Present(table) <=> table[i].here)
  BY DEF Present
<1>3. ASSUME NEW i \in DOMAIN table
      PROVE  /\ cell(i) \in Entry /\ cell(i).here = table[i].here /\ cell(i).place = table[i].place
             /\ (\A l \in P : l.place # table[i].place) => cell(i) = table[i]
             /\ \A l \in P : l.place = table[i].place /\ table[i].here =>
                  /\ cell(i).ip = l.ip
                  /\ \/ cell(i).mac = NoMac \/ (l.mac # NoMac /\ cell(i).mac = l.mac)
                     \/ (l.mac = NoMac /\ cell(i).mac = table[i].mac)
  <2>1. CASE line(i) = {}
    <3>1. cell(i) = table[i]
      BY <1>2, <2>1
    <3>2. \A l \in P : ~(l.place = table[i].place /\ table[i].here)
      BY <1>2, <2>1
    <3> HIDE DEF cell
    <3> QED
      BY <1>2, <3>1, <3>2
  <2>2. CASE line(i) # {}
    <3>1. PICK l : l = CHOOSE x \in line(i) : TRUE
      OBVIOUS
    <3>2. l \in P /\ l.place = table[i].place /\ l \in Line
      BY <2>2, <3>1
    <3>3. cell(i) = Written(table[i], table[i], l)
      BY <1>2, <2>2, <3>1
    <3>4. \A x \in P : x.place = table[i].place => x = l
      BY <3>2
    <3> PICK new : new = cell(i)
      OBVIOUS
    <3>5. /\ new \in Entry /\ new.here = table[i].here /\ new.place = table[i].place /\ new.ip = l.ip
          /\ new.mac = NoMac \/ (l.mac # NoMac /\ new.mac = l.mac) \/ (l.mac = NoMac /\ new.mac = table[i].mac)
      BY <1>2, <3>2, <3>3, TakenOver
    <3> HIDE DEF cell
    <3> QED
      BY <3>2, <3>4, <3>5
  <2> QED
    BY <2>1, <2>2
<1> HIDE DEF cell
<1>4. old \in Seq(Entry) /\ Len(old) = Len(table) /\ \A i \in DOMAIN table : old[i] = cell(i)
  <2>1. old \in [1..Len(table) -> Entry]
    BY <1>2, <1>3
  <2>2. old \in Seq(Entry) /\ Len(old) = Len(table)
    BY ONLY <1>2, <2>1
  <2> QED
    BY <2>2
<1>5. added \in SUBSET Line /\ added \in SUBSET P
  OBVIOUS
<1>6. IsFiniteSet(added)
  BY <1>5, FS_Subset
<1> DEFINE n == Cardinality(added)
           s == SetToSeq(added)
<1>7. /\ s \in [1..n -> added] /\ n \in Nat /\ DOMAIN s = 1..n
      /\ \A i, j \in 1..n : i # j => s[i] # s[j]
      /\ \A x \in added : \E i \in 1..n : s[i] = x
  <2> HIDE DEF added
  <2> QED
    BY <1>6, ListedOnce
<1> HIDE DEF n, s
<1>8. ASSUME NEW k \in 1..n
      PROVE  fresh[k] = Fresh(s[k], "manual") /\ fresh[k] \in Entry /\ fresh[k].place = s[k].place
             /\ s[k] \in added /\ s[k] \in P
  <2>1. s[k] \in added /\ s[k] \in Line /\ s[k] \in P
    BY <1>5, <1>7
  <2>2. fresh[k] = Fresh(s[k], "manual")
    BY <1>7 DEF s
  <2> HIDE DEF fresh, added
  <2>3. Fresh(s[k], "manual") \in Entry /\ Fresh(s[k], "manual").place = s[k].place
    BY <2>1, FreshIs DEF Fresh
  <2> QED
    BY <2>1, <2>2, <2>3
<1>9. fresh \in Seq(Entry) /\ Len(fresh) = n
  <2>1. fresh \in [1..n -> Entry]
    BY <1>7, <1>8 DEF s
  <2> QED
    BY ONLY <1>7, <2>1
<1> HIDE DEF old, fresh
<1>10. PICK t : t = old \o fresh
  OBVIOUS
<1>11. /\ t \in Seq(Entry) /\ DOMAIN t = 1..Len(table) + n
       /\ \A i \in DOMAIN table : t[i] = cell(i) /\ i \in DOMAIN t
       /\ \A i \in DOMAIN t \ DOMAIN table : i - Len(table) \in 1..n /\ t[i] = fresh[i - Len(table)]
       /\ \A k \in 1..n : Len(table) + k \in DOMAIN t \ DOMAIN table /\ t[Len(table) + k] = fresh[k]
  <2>1. old \in Seq(Entry) /\ fresh \in Seq(Entry)
    BY <1>4, <1>9
  <2>2. /\ old \o fresh \in Seq(Entry) /\ Len(old \o fresh) = Len(old) + Len(fresh)
        /\ \A i \in 1..Len(old) + Len(fresh) :
             (old \o fresh)[i] = IF i <= Len(old) THEN old[i] ELSE fresh[i - Len(old)]
    BY ONLY <2>1
  <2>3. t \in Seq(Entry) /\ Len(t) = Len(table) + n
    BY <1>4, <1>9, <1>10, <2>2
  <2>4. \A i \in 1..Len(table) + n :
          t[i] = IF i <= Len(table) THEN old[i] ELSE fresh[i - Len(table)]
    BY <1>4, <1>9, <1>10, <2>2
  <2>5. DOMAIN t = 1..Len(table) + n
    BY <2>3
  <2>6. /\ \A i \in 1..Len(table) : i \in 1..Len(table) + n /\ i <= Len(table)
        /\ \A i \in (1..Len(table) + n) \ (1..Len(table)) : i - Len(table) \in 1..n /\ ~(i <= Len(table))
        /\ \A k \in 1..n : /\ Len(table) + k \in (1..Len(table) + n) \ (1..Len(table))
                           /\ ~(Len(table) + k <= Len(table)) /\ Len(table) + k - Len(table) = k
    BY <1>2, <1>7
  <2> QED
    BY <1>2, <1>4, <2>3, <2>4, <2>5, <2>6
<1>12. ASSUME NEW i \in DOMAIN t \ DOMAIN table
       PROVE  \E l \in P : t[i] = Fresh(l, "manual") /\ \A j \in Present(table) : table[j].place # l.place
  BY <1>8, <1>11
<1>13. ASSUME NEW i \in DOMAIN t \ DOMAIN table, NEW j \in DOMAIN t \ DOMAIN table, i # j
       PROVE  t[i].place # t[j].place
  <2> PICK a, b : a = i - Len(table) /\ b = j - Len(table)
    OBVIOUS
  <2>1. a \in 1..n /\ b \in 1..n /\ a # b /\ t[i] = fresh[a] /\ t[j] = fresh[b]
    BY <1>2, <1>11, <1>13
  <2>2. s[a] # s[b] /\ s[a] \in P /\ s[b] \in P
    BY <1>7, <1>8, <2>1
  <2> QED
    BY <1>8, <2>1, <2>2
<1>14. ASSUME NEW l \in P, \A j \in Present(table) : table[j].place # l.place
       PROVE  \E i \in DOMAIN t \ DOMAIN table : t[i] = Fresh(l, "manual")
  <2>1. l \in added
    BY <1>14
  <2> HIDE DEF added
  <2>2. PICK k \in 1..n : s[k] = l
    BY <1>7, <2>1
  <2> QED
    BY <1>8, <1>11, <2>2
<1>15. DOMAIN table \subseteq DOMAIN t
  BY <1>11
<1>16. ASSUME NEW i \in DOMAIN table
       PROVE  /\ t[i].here = table[i].here /\ t[i].place = table[i].place
              /\ (\A l \in P : l.place # table[i].place) => t[i] = table[i]
              /\ \A l \in P : l.place = table[i].place /\ table[i].here =>
                   /\ t[i].ip = l.ip
                   /\ \/ t[i].mac = NoMac \/ (l.mac # NoMac /\ t[i].mac = l.mac)
                      \/ (l.mac = NoMac /\ t[i].mac = table[i].mac)
  <2>1. t[i] = cell(i)
    BY <1>11
  <2> QED
    BY <1>3, <2>1
<1>17. t = Imported(table, table, P)
  BY <1>1, <1>10
<1> QED
  BY <1>11, <1>12, <1>13, <1>14, <1>15, <1>16, <1>17 DEF Taken

\* The register after such an import has every row that is wanted, and its indexes allow it.
LEMMA TakenIsWanted ==
  ASSUME NEW lines \in Lines, Clean(lines), NEW P, P = Range(ByPlace(lines)),
         rows \in Seq(Entry), Unique(rows), Consistent(Wanted(lines)), NEW t, Taken(t, rows, P)
  PROVE  /\ Unique(t)
         /\ {[place |-> t[i].place, ip |-> t[i].ip] : i \in Present(t)}
              = {[place |-> w.place, ip |-> w.ip] : w \in Wanted(lines)}
<1>1. /\ \A l \in P : \E w \in Wanted(lines) :
           /\ w.place = l.place /\ w.ip = l.ip /\ (l.mac # NoMac => w.mac = l.mac)
           /\ \A i \in Present(rows) : rows[i].place = l.place /\ l.mac = NoMac => w.mac = rows[i].mac
      /\ \A i \in Present(rows) :
           (\A l \in P : l.place # rows[i].place) => Shown(rows[i]) \in Wanted(lines)
      /\ \A w \in Wanted(lines) :
           \/ \E l \in P : w.place = l.place /\ w.ip = l.ip
           \/ \E i \in Present(rows) : w = Shown(rows[i]) /\ \A l \in P : l.place # rows[i].place
  BY WantedIs
<1>2. /\ DOMAIN rows \subseteq DOMAIN t
      /\ \A i \in DOMAIN rows :
           /\ t[i].here = rows[i].here /\ t[i].place = rows[i].place
           /\ (\A l \in P : l.place # rows[i].place) => t[i] = rows[i]
           /\ \A l \in P : l.place = rows[i].place /\ rows[i].here =>
                /\ t[i].ip = l.ip
                /\ \/ t[i].mac = NoMac \/ (l.mac # NoMac /\ t[i].mac = l.mac)
                   \/ (l.mac = NoMac /\ t[i].mac = rows[i].mac)
      /\ \A i \in DOMAIN t \ DOMAIN rows :
           \E l \in P : t[i] = Fresh(l, "manual") /\ \A j \in Present(rows) : rows[j].place # l.place
      /\ \A i, j \in DOMAIN t \ DOMAIN rows : i # j => t[i].place # t[j].place
      /\ \A l \in P : (\A j \in Present(rows) : rows[j].place # l.place) =>
           \E i \in DOMAIN t \ DOMAIN rows : t[i] = Fresh(l, "manual")
  BY DEF Taken
<1>3. \A l \in P : /\ Fresh(l, "manual").here /\ Fresh(l, "manual").place = l.place
                   /\ Fresh(l, "manual").ip = l.ip /\ Fresh(l, "manual").mac = l.mac
  BY DEF Fresh
<1>4. ASSUME NEW i \in DOMAIN rows, rows[i].here PROVE i \in Present(rows) /\ i \in Present(t)
  BY <1>2, <1>4 DEF Present
<1>5. \A i \in Present(t) : i \in DOMAIN t /\ (i \in DOMAIN rows => rows[i].here)
  BY <1>2 DEF Present
<1>6. ASSUME NEW i \in Present(t)
      PROVE  \E w \in Wanted(lines) :
               t[i].place = w.place /\ t[i].ip = w.ip /\ (t[i].mac = NoMac \/ t[i].mac = w.mac)
  <2>1. CASE i \in DOMAIN rows
    <3>1. i \in Present(rows) /\ rows[i].here
      BY <1>4, <1>5, <2>1
    <3>2. CASE \A l \in P : l.place # rows[i].place
      <4>1. t[i] = rows[i] /\ Shown(rows[i]) \in Wanted(lines)
        BY <1>1, <1>2, <2>1, <3>1, <3>2
      <4> QED
        BY <4>1 DEF Shown
    <3>3. CASE \E l \in P : l.place = rows[i].place
      <4>1. PICK l \in P : l.place = rows[i].place
        BY <3>3
      <4>2. PICK w \in Wanted(lines) :
              /\ w.place = l.place /\ w.ip = l.ip /\ (l.mac # NoMac => w.mac = l.mac)
              /\ \A j \in Present(rows) : rows[j].place = l.place /\ l.mac = NoMac => w.mac = rows[j].mac
        BY <1>1
      <4> QED
        BY <1>2, <2>1, <3>1, <4>1, <4>2
    <3> QED
      BY <3>2, <3>3
  <2>2. CASE i \notin DOMAIN rows
    <3>1. PICK l \in P : t[i] = Fresh(l, "manual")
      BY <1>2, <1>5, <2>2
    <3>2. PICK w \in Wanted(lines) : w.place = l.place /\ w.ip = l.ip /\ (l.mac # NoMac => w.mac = l.mac)
      BY <1>1
    <3> QED
      BY <1>3, <3>1, <3>2
  <2> QED
    BY <2>1, <2>2
<1>7. ASSUME NEW i \in Present(t), NEW j \in Present(t), i # j PROVE t[i].place # t[j].place
  <2>1. CASE i \in DOMAIN rows /\ j \in DOMAIN rows
    <3>1. rows[i].place # rows[j].place
      BY <1>4, <1>5, <1>7, <2>1 DEF Unique
    <3> QED
      BY <1>2, <2>1, <3>1
  <2>2. CASE i \notin DOMAIN rows /\ j \notin DOMAIN rows
    BY <1>2, <1>5, <1>7, <2>2
  <2>3. ASSUME NEW a \in Present(t), NEW b \in Present(t), a \in DOMAIN rows, b \notin DOMAIN rows
        PROVE  t[a].place # t[b].place
    <3>1. PICK l \in P : t[b] = Fresh(l, "manual") /\ \A k \in Present(rows) : rows[k].place # l.place
      BY <1>2, <1>5, <2>3
    <3>2. a \in Present(rows) /\ t[a].place = rows[a].place
      BY <1>2, <1>4, <1>5, <2>3
    <3> QED
      BY <1>3, <3>1, <3>2
  <2> QED
    BY <2>1, <2>2, <2>3
<1>8. Unique(t)
  <2> SUFFICES ASSUME NEW i \in Present(t), NEW j \in Present(t), i # j
               PROVE  /\ t[i].place # t[j].place /\ t[i].ip # t[j].ip
                      /\ t[i].mac # NoMac => t[i].mac # t[j].mac
    BY DEF Unique
  <2>1. PICK v \in Wanted(lines) :
          t[i].place = v.place /\ t[i].ip = v.ip /\ (t[i].mac = NoMac \/ t[i].mac = v.mac)
    BY <1>6
  <2>2. PICK w \in Wanted(lines) :
          t[j].place = w.place /\ t[j].ip = w.ip /\ (t[j].mac = NoMac \/ t[j].mac = w.mac)
    BY <1>6
  <2>3. v # w /\ t[i].place # t[j].place
    BY <1>7, <2>1, <2>2
  <2> QED
    BY <2>1, <2>2, <2>3 DEF Consistent
<1>9. ASSUME NEW w \in Wanted(lines)
      PROVE  \E i \in Present(t) : t[i].place = w.place /\ t[i].ip = w.ip
  <2>1. CASE \E i \in Present(rows) : w = Shown(rows[i]) /\ \A l \in P : l.place # rows[i].place
    <3>1. PICK i \in Present(rows) : w = Shown(rows[i]) /\ \A l \in P : l.place # rows[i].place
      BY <2>1
    <3>2. i \in DOMAIN rows /\ rows[i].here
      BY DEF Present
    <3>3. t[i] = rows[i] /\ i \in Present(t)
      BY <1>2, <1>4, <3>1, <3>2
    <3> QED
      BY <3>1, <3>3 DEF Shown
  <2>2. CASE \E l \in P : w.place = l.place /\ w.ip = l.ip
    <3>1. PICK l \in P : w.place = l.place /\ w.ip = l.ip
      BY <2>2
    <3>2. CASE \A j \in Present(rows) : rows[j].place # l.place
      <4>1. PICK i \in DOMAIN t \ DOMAIN rows : t[i] = Fresh(l, "manual")
        BY <1>2, <3>2
      <4>2. i \in Present(t)
        BY <1>3, <4>1 DEF Present
      <4> QED
        BY <1>3, <3>1, <4>1, <4>2
    <3>3. CASE \E j \in Present(rows) : rows[j].place = l.place
      <4>1. PICK j \in Present(rows) : rows[j].place = l.place
        BY <3>3
      <4>2. j \in DOMAIN rows /\ rows[j].here
        BY DEF Present
      <4>3. t[j].ip = l.ip /\ t[j].place = l.place /\ j \in Present(t)
        BY <1>2, <1>4, <4>1, <4>2
      <4> QED
        BY <3>1, <4>3
    <3> QED
      BY <3>2, <3>3
  <2> QED
    BY <1>1, <2>1, <2>2
<1>10. {[place |-> t[i].place, ip |-> t[i].ip] : i \in Present(t)}
         = {[place |-> w.place, ip |-> w.ip] : w \in Wanted(lines)}
  <2>1. \A i \in Present(t) : \E w \in Wanted(lines) : t[i].place = w.place /\ t[i].ip = w.ip
    BY <1>6
  <2> QED
    BY <1>9, <2>1
<1> QED
  BY <1>8, <1>10

-----------------------------------------------------------------------------
(* The answer to a file whose outcome is free of conflicts.                *)

\* The register after the step is as the file wants it.
Decided(r) ==
  /\ handler'[r].at = "ok" /\ handler'[r].skipped = 0
  /\ {[place |-> rows'[i].place, ip |-> rows'[i].ip] : i \in Present(rows')}
       = {[place |-> w.place, ip |-> w.ip] : w \in Wanted(handler[r].lines)}

\* Nothing is skipped of a file that is planned whole.
LEMMA NothingSkipped ==
  ASSUME NEW lines \in Lines, Clean(lines), NEW table,
         Planned(lines, table).plan = Range(ByPlace(lines))
  PROVE  Skipped(lines, table) = 0
<1>1. {k \in DOMAIN lines : lines[k].mac = BadMac} = {}
  BY DEF Clean, Range
<1>2. Cardinality({}) = 0
  BY FS_EmptySet
<1>3. ByPlace(lines) \in Seq(Line) /\ Cardinality(Range(ByPlace(lines))) = Len(ByPlace(lines))
  BY MeantIs
<1>4. Skipped(lines, table) = 0 + Len(ByPlace(lines)) - Len(ByPlace(lines))
  BY <1>1, <1>2, <1>3 DEF Skipped
<1>5. Len(ByPlace(lines)) \in Nat
  BY <1>3
<1> QED
  BY <1>4, <1>5

\* Such a file is planned whole.
LEMMA PlannedWhole ==
  ASSUME NEW lines \in Lines, Clean(lines), rows \in Seq(Entry), Unique(rows), Consistent(Wanted(lines))
  PROVE  Planned(lines, rows).plan = Range(ByPlace(lines)) /\ ~ Planned(lines, rows).broken
<1> PICK plan : plan = ByPlace(lines)
  OBVIOUS
<1> PICK P : P = Range(plan)
  OBVIOUS
<1>1. plan \in Seq(Line) /\ \A i, j \in DOMAIN plan : i # j => plan[i] # plan[j]
  BY MeantIs
<1>2. /\ \A a, b \in P : a # b => ~ Clashes(a, b)
      /\ \A i \in Present(rows) : \/ \E l \in P : l.place = rows[i].place
                                  \/ \A l \in P : /\ l.ip # rows[i].ip
                                                  /\ rows[i].mac # NoMac => l.mac # rows[i].mac
  BY NothingClashes
<1>3. \A i, j \in DOMAIN plan : i # j => ~ Clashes(plan[i], plan[j])
  BY <1>1, <1>2 DEF Range
<1>4. Apart(plan) = plan
  BY <1>1, <1>3, ApartIs
<1>5. P = Range(Apart(ByPlace(lines)))
  BY <1>4
<1>6. Planned(lines, rows) = [plan |-> P, places |-> {l.place : l \in P}, broken |-> FALSE]
  BY <1>2, <1>5, PlannedIs
<1> QED
  BY <1>6

\* Such a file is taken whole by a handler whose reading is still true.
LEMMA ImportDecides ==
  ASSUME PositionInv, Unique(rows), NEW r \in ZtpRequest, CommitImport(r), ~ handler[r].late,
         Clean(handler[r].lines), Consistent(Wanted(handler[r].lines))
  PROVE  Decided(r)
<1> DEFINE lines == handler[r].lines
           P == Range(ByPlace(lines))
<1>1. handler[r].at = "read" /\ ImportFrom(r, rows, handler[r].seen)
  BY DEF CommitImport, Reading
<1>2. /\ lines \in Lines /\ rows \in Seq(Entry) /\ handler[r].seen = rows
      /\ handler[r] \in PositionRequest
  BY <1>1, ReaderIs DEF Knows
<1>3. ImportFrom(r, rows, rows)
  BY <1>1, <1>2
<1>4. Planned(lines, rows).plan = P /\ ~ Planned(lines, rows).broken /\ Skipped(lines, rows) = 0
  BY <1>2, PlannedWhole, NothingSkipped
<1>5. /\ P \subseteq Line /\ P \subseteq Range(lines) /\ IsFiniteSet(P)
      /\ \A a, b \in P : a.place = b.place => a = b
  BY <1>2, MeantIs
<1>6. Planned(lines, rows).plan \cap Range(lines) = P
  BY <1>4, <1>5
<1>7. ~ Missing(rows, rows, P)
  BY DEF Missing, Present
<1> PICK t : t = Imported(rows, rows, P)
  OBVIOUS
<1>8. Commit(r, t, 0, "failed")
  BY <1>3, <1>4, <1>6, <1>7 DEF ImportFrom
<1>9. Taken(t, rows, P)
  BY <1>2, <1>5, RegisterIs
<1>10. /\ Unique(t)
       /\ {[place |-> t[i].place, ip |-> t[i].ip] : i \in Present(t)}
            = {[place |-> w.place, ip |-> w.ip] : w \in Wanted(lines)}
  BY <1>2, <1>9, TakenIsWanted
<1>11. rows' = t /\ handler' = End(r, "ok", 0)
  BY <1>8, <1>10 DEF Commit
<1>12. handler'[r].at = "ok" /\ handler'[r].skipped = 0
  BY <1>2, <1>11 DEF End, PositionRequest
<1> QED
  BY <1>10, <1>11, <1>12 DEF Decided

\* The indexes keep the register free of duplicates.
LEMMA IndexesHold ==
  ASSUME Unique(rows), [ZtpNext]_ztpVars
  PROVE  Unique(rows)'
<1>1. ASSUME NEW r, NEW t, NEW skipped, NEW otherwise, Commit(r, t, skipped, otherwise)
      PROVE  Unique(rows')
  BY <1>1 DEF Commit
<1>2. ASSUME rows' = rows PROVE Unique(rows')
  BY <1>2
<1>3. CASE UNCHANGED ztpVars
  BY <1>2, <1>3 DEF ztpVars
<1>4. CASE ZtpNext
  <2>1. PICK r \in ZtpRequest :
          \/ ReadCreate(r) \/ ReadUpdate(r) \/ ReadDelete(r) \/ ReadClaim(r) \/ ReadImport(r)
          \/ CommitCreate(r) \/ CommitUpdate(r) \/ CommitClaim(r) \/ CommitNothing(r)
          \/ CommitDelete(r) \/ CommitImport(r) \/ CommitReplace(r)
    BY <1>4 DEF ZtpNext
  <2>2. CASE ReadCreate(r) \/ ReadUpdate(r) \/ ReadDelete(r) \/ ReadClaim(r) \/ ReadImport(r)
    BY <1>2, <2>2 DEF ReadCreate, ReadUpdate, ReadDelete, ReadClaim, ReadImport, Read
  <2>3. CASE CommitCreate(r) \/ CommitUpdate(r) \/ CommitClaim(r) \/ CommitDelete(r)
    BY <1>1, <2>3 DEF CommitCreate, CommitUpdate, CommitClaim, CommitDelete
  <2>4. CASE CommitNothing(r)
    BY <1>2, <2>4 DEF CommitNothing, Fail
  <2>5. CASE CommitImport(r) \/ CommitReplace(r)
    <3>1. PICK table, seen : ImportFrom(r, table, seen)
      BY <2>5 DEF CommitImport, CommitReplace
    <3> QED
      BY <1>1, <1>2, <3>1 DEF ImportFrom, Fail
  <2> QED
    BY <2>1, <2>2, <2>3, <2>4, <2>5
<1> QED
  BY <1>3, <1>4 DEF Unique, Present

\* A file that has been read is answered only by its own handler.
LEMMA OwnAnswer ==
  ASSUME PositionInv, [ZtpNext]_ztpVars, NEW r \in ZtpRequest,
         Reading(r, {"import"}), handler'[r].at # "read"
  PROVE  CommitImport(r)
<1>1. handler[r].at = "read" /\ handler[r].kind = "import" /\ handler \in [ZtpRequest -> PositionRequest]
  BY DEF Reading, PositionInv, PositionsTyped
<1>2. ZtpNext
  BY <1>1 DEF ztpVars
<1>3. PICK q \in ZtpRequest :
        \/ ReadCreate(q) \/ ReadUpdate(q) \/ ReadDelete(q) \/ ReadClaim(q) \/ ReadImport(q)
        \/ CommitCreate(q) \/ CommitUpdate(q) \/ CommitClaim(q) \/ CommitNothing(q)
        \/ CommitDelete(q) \/ CommitImport(q) \/ CommitReplace(q)
  BY <1>2 DEF ZtpNext
<1>4. CASE ReadCreate(q) \/ ReadUpdate(q) \/ ReadDelete(q) \/ ReadClaim(q) \/ ReadImport(q)
  <2>1. handler[q].at = "new"
    BY <1>4 DEF ReadCreate, ReadUpdate, ReadDelete, ReadClaim, ReadImport, Comes
  <2>2. \E h : handler' = [handler EXCEPT ![q] = h]
    BY <1>4 DEF ReadCreate, ReadUpdate, ReadDelete, ReadClaim, ReadImport, Read
  <2> QED
    BY <1>1, <2>1, <2>2
<1>5. CASE \/ CommitCreate(q) \/ CommitUpdate(q) \/ CommitClaim(q) \/ CommitNothing(q)
           \/ CommitDelete(q) \/ CommitImport(q) \/ CommitReplace(q)
  <2>1. \E answer, skipped : handler' = End(q, answer, skipped)
    <3>1. ASSUME NEW t, NEW skipped, NEW otherwise, Commit(q, t, skipped, otherwise)
          PROVE  \E answer, number : handler' = End(q, answer, number)
      BY <3>1 DEF Commit
    <3>2. ASSUME Fail(q) PROVE \E answer, number : handler' = End(q, answer, number)
      BY <3>2 DEF Fail
    <3>3. CASE CommitCreate(q) \/ CommitUpdate(q) \/ CommitClaim(q) \/ CommitDelete(q)
      BY <3>1, <3>3 DEF CommitCreate, CommitUpdate, CommitClaim, CommitDelete
    <3>4. CASE CommitNothing(q)
      BY <3>2, <3>4 DEF CommitNothing
    <3>5. CASE CommitImport(q) \/ CommitReplace(q)
      <4>1. PICK table, seen : ImportFrom(q, table, seen)
        BY <3>5 DEF CommitImport, CommitReplace
      <4> QED
        BY <3>1, <3>2, <4>1 DEF ImportFrom
    <3> QED
      BY <1>5, <3>3, <3>4, <3>5
  <2>2. PICK answer, skipped : handler' = End(q, answer, skipped)
    BY <2>1
  <2>3. q # r => handler'[r].at = "read"
    <3>1. handler[r] \in PositionRequest
      BY <1>1
    <3>2. q # r => handler'[r] = [handler[r] EXCEPT !.late = TRUE] \/ handler'[r] = handler[r]
      BY <2>2 DEF End
    <3> QED
      BY <1>1, <3>1, <3>2 DEF PositionRequest
  <2>4. q = r
    BY <2>3
  <2> QED
    BY <1>1, <1>5, <2>4
    DEF CommitCreate, CommitUpdate, CommitClaim, CommitNothing, CommitDelete, CommitReplace, Reading
<1> QED
  BY <1>3, <1>4, <1>5

-----------------------------------------------------------------------------
(* The theorems.                                                           *)

LEMMA PositionInvStep == PositionInv /\ [ZtpNext]_ztpVars => PositionInv' /\ (OpenStep \/ UNCHANGED ztpVars)
<1> SUFFICES ASSUME PositionInv, [ZtpNext]_ztpVars PROVE PositionInv' /\ (OpenStep \/ UNCHANGED ztpVars)
  OBVIOUS
<1>1. CASE UNCHANGED ztpVars
  BY <1>1 DEF ztpVars, PositionInv, PositionsTyped, DeviceIsClaimed, Present, Knows
<1>2. CASE ZtpNext
  <2>1. PICK r \in ZtpRequest :
          \/ ReadCreate(r) \/ ReadUpdate(r) \/ ReadDelete(r) \/ ReadClaim(r) \/ ReadImport(r)
          \/ CommitCreate(r) \/ CommitUpdate(r) \/ CommitClaim(r) \/ CommitNothing(r)
          \/ CommitDelete(r) \/ CommitImport(r) \/ CommitReplace(r)
    BY <1>2 DEF ZtpNext
  <2>2. CASE CommitNothing(r)
    BY <2>2, FailKeeps DEF CommitNothing, Fail
  <2> QED
    BY <2>1, <2>2, BeginsKeep, CreateKeeps, UpdateKeeps, ClaimKeeps, DeleteKeeps, ImportKeeps
<1> QED
  BY <1>1, <1>2

\* A position that has a device counts as claimed, unless it was written by a handler
\* whose reading another had overtaken (models.py 303-304), for any number of requests.
THEOREM DevicesAreClaimed == ZtpSpec => []DeviceIsClaimed
<1>1. PositionInv /\ [ZtpNext]_ztpVars => PositionInv'
  BY PositionInvStep
<1>2. PositionInv => DeviceIsClaimed
  BY DEF PositionInv
<1> QED
  BY <1>1, <1>2, PositionInvInit, PTL DEF ZtpSpec

\* Of handlers whose reading is still true, no claim takes a position from the device
\* that has it, and an import or a form does so only by a line with the new device
\* (ztp.py 542-553).
THEOREM OwnersStay == ZtpSpec => OwnerChangesOpenly
<1>1. PositionInv /\ [ZtpNext]_ztpVars =>
        [\A r \in ZtpRequest, i \in Present(rows) :
           Succeeds(r) /\ ~handler[r].late /\ rows'[i].here
             /\ rows[i].mac # NoMac /\ rows'[i].mac \notin {NoMac, rows[i].mac} =>
             /\ handler[r].kind \in {"update", "import"}
             /\ \E l \in Range(handler[r].lines) : l.mac = rows'[i].mac]_ztpVars
  BY PositionInvStep DEF OpenStep
<1>2. PositionInv /\ [ZtpNext]_ztpVars => PositionInv'
  BY PositionInvStep
<1> QED
  BY <1>1, <1>2, PositionInvInit, PTL DEF ZtpSpec, OwnerChangesOpenly

\* A file whose outcome is free of conflicts is taken whole by a handler whose reading
\* is still true: nothing is refused or skipped, and the places and addresses in the
\* register are those that are wanted, whatever the file swaps and in whatever order
\* its lines are (ztp.py 402-405).
THEOREM OutcomeDecides == ZtpSpec => FinalStateDecides
<1> DEFINE Inv == PositionInv /\ Unique(rows)
<1>1. ZtpInit => Inv
  BY PositionInvInit DEF ZtpInit
<1>2. Inv /\ [ZtpNext]_ztpVars => Inv'
  BY PositionInvStep, IndexesHold
<1>3. Inv /\ [ZtpNext]_ztpVars =>
        [\A r \in ZtpRequest :
           Reading(r, {"import"}) /\ handler'[r].at # "read" /\ ~handler[r].late
             /\ Clean(handler[r].lines) /\ Consistent(Wanted(handler[r].lines)) =>
           /\ handler'[r].at = "ok" /\ handler'[r].skipped = 0
           /\ {[place |-> rows'[i].place, ip |-> rows'[i].ip] : i \in Present(rows')}
                = {[place |-> w.place, ip |-> w.ip] : w \in Wanted(handler[r].lines)}]_ztpVars
  BY OwnAnswer, ImportDecides DEF Decided
<1> QED
  BY <1>1, <1>2, <1>3, PTL DEF ZtpSpec, FinalStateDecides

=============================================================================
