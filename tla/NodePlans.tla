------------------------------ MODULE NodePlans ------------------------------
(***************************************************************************)
(* The register of node plans: api/nodeplan.py without the applying, and   *)
(* the rows of it/nodeplan/csvimport.py.  A plan says what the network     *)
(* interfaces of one machine shall be.  Every handler reads, checks and    *)
(* then writes in one transaction of SQLite, which lets one writer in at a *)
(* time and does not see to foreign keys; its unique indexes have the last *)
(* word (core/models.py 415-504).                                          *)
(***************************************************************************)
EXTENDS Naturals, FiniteSets, Sequences, Functions

CONSTANTS
  Machine,     \* the machines there are; a machine is also its MAC and its install record
  Unlabelled,  \* those whose firmware gives the same serial as many others
  Bare,        \* those whose firmware gives none
  Registered,  \* those that have an install record
  Iface,       \* names of interfaces
  Requests,    \* how many requests
  MaxPlans,
  MaxJobs

NoSerial == "none"
Shared == "Not Specified"
Nobody == "no owner"

ASSUME NodePlansAssumption ==
  /\ Unlabelled \subseteq Machine /\ Bare \subseteq Machine \ Unlabelled
  /\ Registered \subseteq Machine
  /\ Requests \in Nat /\ MaxPlans \in Nat /\ MaxJobs \in Nat
  /\ {NoSerial, Shared, Nobody} \cap Machine = {}

VARIABLES
  open,   \* NodePlanSettings.enabled
  plans,  \* the tables node_plans and node_plan_interfaces, in the order of creation
  jobs,   \* config_jobs with their items
  req,    \* the handlers
  met     \* history: plans that two handlers at a time were about

vars == <<open, plans, jobs, req, met>>

Request == 1..Requests
Key == Machine \cup {Shared}

\* An interface: its name, the machine that it was meant for, the request that stored it.
Row == [name : Iface, for : Machine, by : Request]

Plan == [here : BOOLEAN, serial : Machine \cup {NoSerial, Shared}, mac : Machine,
         owner : Machine \cup {Nobody}, enabled : BOOLEAN, status : {"pending", "generated"},
         rows : SUBSET Row]

\* What a client sends: which machine, whether with its install record, which interfaces.
Body == [machine : Machine, owned : BOOLEAN, names : SUBSET Iface]

Job == [cautious : BOOLEAN, asked : SUBSET (1..MaxPlans), items : SUBSET (1..MaxPlans)]

TypeOK ==
  /\ open \in BOOLEAN
  /\ plans \in Seq(Plan) /\ Len(plans) <= MaxPlans
  /\ jobs \subseteq Job
  /\ DOMAIN req = Request
  /\ \A r \in Request :
       /\ req[r].at \in {"new", "begun", "checked", "ended"}
       /\ req[r].kind \in {"create", "update", "import"}
       /\ req[r].todo \in Seq(Body) /\ req[r].at \in {"begun", "checked"} <=> req[r].todo # <<>>
       /\ req[r].plan \in 0..Len(plans) /\ req[r].old \subseteq Row
       /\ DOMAIN req[r].seen \subseteq Key /\ Range(req[r].seen) \subseteq DOMAIN plans
  /\ met \subseteq DOMAIN plans

Nothing == [k \in {} |-> 0]

New(at) == [at |-> at, kind |-> "create", todo |-> <<>>, plan |-> 0, old |-> {}, seen |-> Nothing]

Init ==
  /\ open = FALSE /\ plans = <<>> /\ jobs = {} /\ met = {}
  /\ req = [r \in Request |-> New("new")]

-----------------------------------------------------------------------------
(* What is checked before writing, and what the indexes check.             *)

Here == {p \in DOMAIN plans : plans[p].here}

Serial(m) == IF m \in Unlabelled THEN Shared ELSE IF m \in Bare THEN NoSerial ELSE m

\* The client marks a serial as not to be trusted if it is empty or shared.
Trusted(m) == m \notin Unlabelled \cup Bare

\* The key by which the rows of a file are brought together.
FileKey(m) == IF Serial(m) = NoSerial THEN m ELSE Serial(m)

\* _check_unique by the key of _resolve_key, _check_unique_owner, _check_owner_exists,
\* for a body that is to become plan p (0 for a new one).
Vetted(b, p) ==
  /\ \A q \in Here \ {p} :
       /\ IF Trusted(b.machine) THEN plans[q].serial # Serial(b.machine)
          ELSE plans[q].mac # b.machine
       /\ b.owned => plans[q].owner # b.machine
  /\ b.owned => b.machine \in Registered

\* The unique indexes of node_plans: serials that are not empty, and owners.
Indexed(b, p) ==
  \A q \in Here \ {p} :
    /\ Serial(b.machine) # NoSerial => plans[q].serial # Serial(b.machine)
    /\ b.owned => plans[q].owner # b.machine

Names(rows) == {row.name : row \in rows}

Rows(b, r) == {[name |-> n, for |-> b.machine, by |-> r] : n \in b.names}

-----------------------------------------------------------------------------
(* The handlers. *)

About(r) == {req[r].plan} \cup Range(req[r].seen)

Begun(r) == req[r].at \in {"begun", "checked"}

\* A request starts on a list of bodies, of which create and update have one.  The
\* switch is read first.
Begin(r, kind, todo, plan) ==
  /\ open /\ req[r].at = "new" /\ \A q \in 1..r - 1 : req[q].at # "new"
  /\ req' = [req EXCEPT ![r] = [New("begun") EXCEPT !.kind = kind, !.todo = todo, !.plan = plan]]
  /\ met' = met \cup (({plan} \ {0}) \cap UNION {About(q) : q \in {q \in Request : Begun(q)}})
  /\ UNCHANGED <<open, plans, jobs>>

\* A plan by hand is for a machine with an install record (or a switch that is known).
BeginCreate(r, b) == b.owned /\ Begin(r, "create", <<b>>, 0)

BeginUpdate(r, p, b) == p \in Here /\ Begin(r, "update", <<b>>, p)

\* One interface per row of the file.
BeginImport(r, todo) == Begin(r, "import", todo, 0)

\* The body has been dealt with: the next row, or the end.
Done(r, seen) ==
  LET rest == Tail(req[r].todo)
  IN  req' = [req EXCEPT ![r] = IF rest = <<>> THEN New("ended")
                                ELSE [@ EXCEPT !.at = "begun", !.todo = rest, !.seen = seen]]

Body1(r) == Head(req[r].todo)

\* The plan that the file has made before for the row's key, as a set; perhaps deleted.
Known(r) == {req[r].seen[k] : k \in DOMAIN req[r].seen \cap {FileKey(Body1(r).machine)}}

\* The checks; an update also reads the interfaces it will delete.
Check(r) ==
  /\ req[r].at = "begun" /\ Known(r) \cap Here = {}
  /\ LET p == req[r].plan
         b == Body1(r)
     IN  IF /\ Vetted(b, p)
            /\ p # 0 => p \in Here /\ (b.owned => plans[p].owner \in {Nobody, b.machine})
         THEN req' = [req EXCEPT ![r].at = "checked", ![r].old = IF p = 0 THEN {} ELSE plans[p].rows]
         ELSE Done(r, req[r].seen)
  /\ UNCHANGED <<open, plans, jobs, met>>

\* Mutant of Insert: the index conflict is not looked at.
InsertUnindexed(r) ==
  /\ req[r].at = "checked" /\ req[r].kind # "update" /\ Len(plans) < MaxPlans
  /\ LET b == Body1(r)
         new == [here |-> TRUE, serial |-> Serial(b.machine), mac |-> b.machine,
                 owner |-> IF b.owned THEN b.machine ELSE Nobody,
                 enabled |-> FALSE, status |-> "pending", rows |-> Rows(b, r)]
     IN  /\ plans' = Append(plans, new)
         /\ Done(r, [k \in DOMAIN req[r].seen \cup {FileKey(b.machine)} |->
                       IF k = FileKey(b.machine) THEN Len(plans) + 1 ELSE req[r].seen[k]])
  /\ UNCHANGED <<open, jobs, met>>

\* create_plan and a new row of a file: the plan with its interfaces, or a conflict.
Insert(r) ==
  /\ req[r].at = "checked" /\ req[r].kind # "update" /\ Len(plans) < MaxPlans
  /\ LET b == Body1(r)
         new == [here |-> TRUE, serial |-> Serial(b.machine), mac |-> b.machine,
                 owner |-> IF b.owned THEN b.machine ELSE Nobody,
                 enabled |-> FALSE, status |-> "pending", rows |-> Rows(b, r)]
     IN  IF Indexed(b, 0)
         THEN /\ plans' = Append(plans, new)
              /\ Done(r, [k \in DOMAIN req[r].seen \cup {FileKey(b.machine)} |->
                            IF k = FileKey(b.machine) THEN Len(plans) + 1 ELSE req[r].seen[k]])
         ELSE UNCHANGED plans /\ Done(r, req[r].seen)
  /\ UNCHANGED <<open, jobs, met>>

\* Mutant of AppendRow: a further row is appended to the plan before it.
AppendRowToLast(r) ==
  /\ req[r].at = "begun"
  /\ \E p \in Range(req[r].seen) :
       plans' = IF Names(plans[p].rows) \cap Body1(r).names # {} THEN plans
                ELSE [plans EXCEPT ![p].rows = @ \cup Rows(Body1(r), r)]
  /\ Done(r, req[r].seen)
  /\ UNCHANGED <<open, jobs, met>>

\* A further row for a machine of the file: another interface of its plan, unless it has
\* one of that name.
AppendRow(r) ==
  /\ req[r].at = "begun"
  /\ \E p \in Known(r) :
       plans' = IF Names(plans[p].rows) \cap Body1(r).names # {} THEN plans
                ELSE [plans EXCEPT ![p].rows = @ \cup Rows(Body1(r), r)]
  /\ Done(r, req[r].seen)
  /\ UNCHANGED <<open, jobs, met>>

\* update_plan's transaction: the plan's fields, the new interfaces, and only then (the
\* order in which SQLAlchemy writes) the deletion of those that were read: a name that
\* stays is a conflict, and nothing is written.
Replace(r) ==
  /\ req[r].at = "checked" /\ req[r].kind = "update"
  /\ LET b == Body1(r)
         p == req[r].plan
     IN  plans' =
           IF p \in Here /\ Indexed(b, p) /\ Names(plans[p].rows) \cap b.names = {}
           THEN [plans EXCEPT ![p].serial = Serial(b.machine), ![p].mac = b.machine,
                              ![p].owner = IF b.owned THEN b.machine ELSE @,
                              ![p].rows = (@ \ req[r].old) \cup Rows(b, r)]
           ELSE plans
  /\ Done(r, req[r].seen)
  /\ UNCHANGED <<open, jobs, met>>

Delete(p) ==
  /\ p \in Here
  /\ plans' = [plans EXCEPT ![p].here = FALSE]
  /\ UNCHANGED <<open, jobs, req, met>>

\* put_settings; plans stay as they are.
Switch ==
  /\ open' = ~open
  /\ UNCHANGED <<plans, jobs, req, met>>

\* enable_plan, disable_plan.
SwitchPlan(p) ==
  /\ open /\ p \in Here
  /\ plans' = [plans EXCEPT ![p].enabled = ~@]
  /\ UNCHANGED <<open, jobs, req, met>>

\* create_job: its first write is before its reads.  Plans that are gone, off or without
\* interfaces fail alone, or, in the cautious mode, everything with them.
CreateJob(asked, cautious) ==
  /\ open /\ Cardinality(jobs) < MaxJobs /\ asked # {} /\ asked \subseteq DOMAIN plans
  /\ LET items == {p \in asked \cap Here : plans[p].enabled /\ plans[p].rows # {}}
     IN  /\ cautious => items = asked
         /\ plans' = [p \in DOMAIN plans |->
                        IF p \in items THEN [plans[p] EXCEPT !.status = "generated"] ELSE plans[p]]
         /\ jobs' = jobs \cup {[cautious |-> cautious, asked |-> asked, items |-> items]}
  /\ UNCHANGED <<open, req, met>>

\* The instance's requests: one interface each, and files with two rows.
Sent == {b \in Body : Cardinality(b.names) = 1}
Files == {<<b, c>> : b \in {b \in Sent : ~b.owned}, c \in Sent}

Next ==
  \/ \E r \in Request :
       \/ \E b \in Sent : BeginCreate(r, b)
       \/ \E p \in Here, b \in Sent : BeginUpdate(r, p, b)
       \/ \E todo \in Files : BeginImport(r, todo)
       \/ Check(r) \/ Insert(r) \/ AppendRow(r) \/ Replace(r)
  \/ \E p \in Here : Delete(p) \/ SwitchPlan(p)
  \/ \E asked \in SUBSET DOMAIN plans, cautious \in BOOLEAN : CreateJob(asked, cautious)
  \/ Switch

Spec == Init /\ [][Next]_vars

-----------------------------------------------------------------------------
(* What the register promises. *)

\* A machine with a serial of its own, or an install record, has one plan, however many
\* handlers have found none at a time (nodeplan.py 202-238, 279-285).
OnePlanPerMachine ==
  \A p, q \in Here :
    /\ plans[p].serial = plans[q].serial /\ plans[p].serial \in Machine => p = q
    /\ plans[p].owner = plans[q].owner /\ plans[p].owner # Nobody => p = q

\* The interfaces of a plan are those that one request sent for the plan's machine, the
\* last that wrote the plan, unless two were at it at a time (nodeplan.py 324-331,
\* 831-840).
InterfacesAsSent ==
  \A p \in Here \ met : \A row, other \in plans[p].rows :
    row.for = plans[p].mac /\ row.by = other.by
=============================================================================
