------------------------------ MODULE Installs ------------------------------
(***************************************************************************)
(* Install records of api/pxe.py: which machine a profile is to install,   *)
(* and whether that is done.  An installer that ends calls back; the       *)
(* record becomes "installed" and the profile is deployed again, so that   *)
(* the machine is not offered the installer a second time.  dnsmasq has    *)
(* one file for all profiles: every deployment writes it whole, from the   *)
(* profile's own records and those of the profiles deployed before.        *)
(*                                                                         *)
(* How a deployment writes and reloads is Deploy; here it succeeds, is     *)
(* undone, or leaves its files without a confirmation.                     *)
(***************************************************************************)
EXTENDS Naturals, FiniteSets, FiniteSetsExt, Sequences

CONSTANTS
  MaxProfiles,  \* profiles are numbers, in the order of their ids
  Mac,
  MaxRecords,   \* install records ever made; a record's id is its place
  Request,      \* handlers that can be in flight together
  MaxHandlers,  \* handlers ever
  MaxMishaps    \* deletions, lost keys and failed writes, all together

ASSUME InstallsAssumption ==
  MaxProfiles \in Nat \ {0} /\ MaxRecords \in Nat /\ MaxHandlers \in Nat /\ MaxMishaps \in Nat

VARIABLES
  profiles,  \* pxe_profiles
  sealed,    \* those whose passwords the key cannot decrypt any more
  installs,  \* pxe_installs; a row that was deleted is "gone"
  deployed,  \* the keys of last-deploy.json
  web,       \* profiles/<pid>/boot/<mac>.ipxe and its answer file: the callback in it
  conf,      \* opstk-pxe.conf and the flat boot.ipxe
  req,       \* the handlers
  begun,     \* how many there were
  mishaps,
  listed,    \* history: records that a deployment of their profile put into force
  current,   \* history: those whose state has not changed since
  clean      \* history: conf was not outdated when it was written, and no deployment
             \* was saved that another one had overwritten

database == <<profiles, sealed, installs>>
disk == <<web, conf>>
history == <<listed, current, clean>>
installVars == <<database, deployed, disk, req, begun, mishaps, history>>

Profile   == 1..MaxProfiles
InstallId == 1..MaxRecords

NoId   == 0                  \* no profile, no callback
Refuse == MaxProfiles + 1    \* the flat menu that installs nothing
NoFile == MaxRecords + 1

Install == [profile : Profile, mac : Mac, status : {"pending", "installed", "gone"}]

\* host: whose reservation a machine has; menu: the machines that get that profile's
\* menu, all others get the flat one.
Conf == [host : [Mac -> Profile \cup {NoId}], menu : SUBSET Mac,
         flat : Profile \cup {NoId, Refuse}]

NoConf == [host |-> [m \in Mac |-> NoId], menu |-> {}, flat |-> NoId]

\* sound: nothing the handler has read has changed since, and no profile was left out;
\* at "save", nobody has written since. read: the records there were when it read them.
Handler == [at : {"idle", "redeploy", "generate", "publish", "save"}, operator : BOOLEAN,
            profile : Profile, id : InstallId \cup {NoId}, status : {"pending", "installed"},
            sound : BOOLEAN, read : 0..MaxRecords,
            files : SUBSET (InstallId \X {"pending", "installed"}), conf : Conf]

Idle == [at |-> "idle", operator |-> FALSE, profile |-> 1, id |-> NoId,
         status |-> "pending", sound |-> TRUE, read |-> 0, files |-> {}, conf |-> NoConf]

\* A machine has one live record in a profile (the unique index), and what a handler
\* holds is of its own profile.
InstallTypeOK ==
  /\ profiles \subseteq Profile /\ sealed \subseteq Profile /\ deployed \subseteq Profile
  /\ installs \in Seq(Install) /\ Len(installs) <= MaxRecords
  /\ \A i, k \in DOMAIN installs :
       "gone" \notin {installs[i].status, installs[k].status} /\ i # k
         => <<installs[i].profile, installs[i].mac>> # <<installs[k].profile, installs[k].mac>>
  /\ web \in [Profile -> [Mac -> InstallId \cup {NoId, NoFile}]]
  /\ \A p \in Profile, m \in Mac :
       web[p][m] \in InstallId => installs[web[p][m]].profile = p /\ installs[web[p][m]].mac = m
  /\ conf \in Conf
  /\ \A r \in Request : /\ req[r] \in Handler
                        /\ \A f \in req[r].files : installs[f[1]].profile = req[r].profile
  /\ begun \in 0..MaxHandlers /\ mishaps \in 0..MaxMishaps
  /\ current \subseteq DOMAIN installs /\ listed \subseteq DOMAIN installs
  /\ clean \in BOOLEAN

InstallInit ==
  /\ profiles = Profile /\ sealed = {} /\ installs = <<>> /\ deployed = {}
  /\ web = [p \in Profile |-> [m \in Mac |-> NoFile]]
  /\ conf = NoConf
  /\ req = [r \in Request |-> Idle] /\ begun = 0 /\ mishaps = 0
  /\ listed = {} /\ current = {} /\ clean = TRUE

-----------------------------------------------------------------------------
(***************************************************************************)
(* What a deployment of p generates.                                       *)
(***************************************************************************)
Live == {i \in DOMAIN installs : installs[i].status # "gone"}

RecordsOf(p) == {i \in Live : installs[i].profile = p}

MacsOf(p) == {installs[i].mac : i \in RecordsOf(p)}

\* The other deployed profiles that have records.
Others(p) == {q \in (deployed \cap profiles) \ {p} : RecordsOf(q) # {}}

\* One of them that cannot be read, and none is merged: the deployment goes on without.
Merged(p) == IF Others(p) \cap sealed = {} THEN Others(p) ELSE {}

\* A session does not read again what it has loaded: a handler that set a record's
\* state sees that state, whatever another one has set since.
SeenBy(r, i) == IF i = req[r].id THEN req[r].status ELSE installs[i].status

\* The profile that is deployed comes first, then the others in order.
HostOf(p, m) ==
  LET from == {q \in Merged(p) : m \in MacsOf(q)} IN
  IF m \in MacsOf(p) THEN p ELSE IF from = {} THEN NoId ELSE Min(from)

\* Where the machine's menu is: with the profile of its reservation.
Base(p, m) == HostOf(p, m)

\* Mutant of OffersMenu: finished records too.
OffersMenuAlways(r, i) == TRUE

OffersMenu(r, i) == SeenBy(r, i) = "pending"

\* Mutant of FlatMenu: only the profile's own records count.
FlatMenuOfOwn(p) == IF RecordsOf(p) = {} THEN p ELSE Refuse

FlatMenu(p) == IF RecordsOf(p) = {} /\ Merged(p) = {} THEN p ELSE Refuse

Dnsmasq(r, p) ==
  [host |-> [m \in Mac |-> Base(p, m)],
   menu |-> {installs[i].mac :
               i \in {k \in Live : /\ installs[k].profile = HostOf(p, installs[k].mac)
                                                   /\ OffersMenu(r, k)}},
   flat |-> FlatMenu(p)]

-----------------------------------------------------------------------------
(***************************************************************************)
(* Profiles and records.                                                   *)
(***************************************************************************)
CreateInstall(p, m) ==
  /\ Len(installs) < MaxRecords
  /\ p \in profiles /\ m \notin MacsOf(p)
  /\ installs' = Append(installs, [profile |-> p, mac |-> m, status |-> "pending"])
  /\ UNCHANGED <<mishaps, profiles, sealed, deployed, disk, req, begun, history>>

Mishap == mishaps < MaxMishaps /\ mishaps' = mishaps + 1

Without(ids) ==
  /\ installs' = [i \in DOMAIN installs |-> IF i \in ids THEN [installs[i] EXCEPT !.status = "gone"]
                                                 ELSE installs[i]]
  /\ listed' = listed \ ids
  /\ current' = current \ ids

\* Nothing is deployed again.
DeleteInstall(i) ==
  /\ Mishap
  /\ i \in Live
  /\ Without({i})
  /\ UNCHANGED <<profiles, sealed, deployed, disk, req, begun, clean>>

DeleteProfile(p) ==
  /\ Mishap
  /\ p \in profiles
  /\ profiles' = profiles \ {p}
  /\ Without(RecordsOf(p))
  /\ deployed' = deployed \ {p}
  /\ UNCHANGED <<sealed, disk, req, begun, clean>>

\* The key is lost or replaced, outside the program.
Seal(p) ==
  /\ Mishap
  /\ p \in profiles /\ sealed = {}
  /\ sealed' = {p}
  /\ UNCHANGED <<profiles, installs, deployed, disk, req, begun, history>>

-----------------------------------------------------------------------------
(***************************************************************************)
(* The handlers.  A handler keeps only what its next steps read.           *)
(***************************************************************************)
\* A handler goes on as h, and what it did outdates others.
GoesOn(r, h, outdated) ==
  req' = [x \in Request |-> IF x = r THEN h
                            ELSE IF x \in outdated THEN [req[x] EXCEPT !.sound = FALSE]
                            ELSE req[x]]

Enter(r, h, outdated) ==
  /\ req[r].at = "idle" /\ begun < MaxHandlers
  /\ begun' = begun + 1
  /\ GoesOn(r, h, outdated)

Answer(r, outdated) == GoesOn(r, Idle, outdated)

\* deploy_to_host.
DeployToHost(r, p) ==
  /\ p \in profiles
  /\ Enter(r, [Idle EXCEPT !.at = "generate", !.operator = TRUE, !.profile = p], {})
  /\ UNCHANGED <<mishaps, database, deployed, disk, history>>

\* Those who have read the state of record i, or hold it from having set it.
Relying(i) == {x \in Request : req[x].at = "publish" \/ req[x].id = i}

\* _set_install_status: the state is committed before anything is deployed.
SetInstallStatus(r, i, status) ==
  /\ i \in Live
  /\ Enter(r, [Idle EXCEPT !.at = "redeploy", !.profile = installs[i].profile,
                           !.id = i, !.status = status],
              IF installs[i].status = status THEN {} ELSE Relying(i))
  /\ installs' = [installs EXCEPT ![i].status = status]
  /\ current' = IF installs[i].status = status THEN current ELSE current \ {i}
  /\ UNCHANGED <<mishaps, profiles, sealed, deployed, disk, listed, clean>>

\* install_finish by an operator, or install_done by an installer: the token of its
\* answer file is good for ever, so its call may come late, twice, or never.
Finish(r, i) == SetInstallStatus(r, i, "installed")

Reset(r, i) == SetInstallStatus(r, i, "pending")

\* _auto_redeploy: only what was deployed before.
AutoRedeploy(r) ==
  LET p == req[r].profile IN
  /\ req[r].at = "redeploy"
  /\ deployed' = IF p \in profiles THEN deployed ELSE deployed \ {p}
  /\ IF p \in profiles \cap deployed THEN GoesOn(r, [req[r] EXCEPT !.at = "generate"], {})
                                     ELSE Answer(r, {})
  /\ UNCHANGED <<mishaps, database, disk, begun, history>>

\* _gen_pxe_files and generate_all: the records are read, everything is in memory.
Generate(r) ==
  LET p == req[r].profile IN
  /\ req[r].at = "generate"
  /\ IF p \in profiles \ sealed
     THEN GoesOn(r, [Idle EXCEPT !.at = "publish", !.operator = req[r].operator,
                                 !.profile = p,
                                 !.sound = req[r].sound /\ Merged(p) = Others(p),
                                 !.read = Len(installs),
                                 !.files = {<<i, SeenBy(r, i)>> : i \in RecordsOf(p)},
                                 !.conf = Dnsmasq(r, p)], {})
     ELSE Answer(r, {})
  /\ UNCHANGED <<mishaps, database, deployed, disk, begun, history>>

Callback(file) == IF file[2] = "pending" THEN file[1] ELSE NoId

\* Mutant of Written: a file that is there is kept.
WrittenOnce(p, files, old) ==
  [m \in Mac |-> IF old[m] = NoFile /\ \E f \in files : installs[f[1]].mac = m
                 THEN Callback(CHOOSE f \in files : installs[f[1]].mac = m)
                 ELSE old[m]]

\* A file for each record of the profile; those of records that are gone stay.
Written(p, files, old) ==
  [m \in Mac |-> IF \E f \in files : installs[f[1]].mac = m
                 THEN Callback(CHOOSE f \in files : installs[f[1]].mac = m)
                 ELSE old[m]]

InForce(files) == {f[1] : f \in {g \in files : installs[g[1]].status = g[2]}}

\* deploy_files, under its lock, did its writing.
WriteFiles(r) ==
  LET h == req[r] IN
  /\ web' = [web EXCEPT ![h.profile] = Written(h.profile, h.files, @)]
  /\ conf' = h.conf
  /\ clean' = h.sound
  /\ current' = {i \in current : i <= h.read /\ installs[i].profile # h.profile}
                  \cup (IF h.sound THEN InForce(h.files) ELSE {})

\* Those who have written and not yet saved it.
Unsaved == {x \in Request : req[x].at = "save"}

\* dnsmasq is known to run with what was written.
Publish(r) ==
  /\ req[r].at = "publish"
  /\ WriteFiles(r)
  /\ IF req[r].operator
     THEN GoesOn(r, [Idle EXCEPT !.at = "save", !.profile = req[r].profile,
                                 !.files = req[r].files], Unsaved)
     ELSE Answer(r, Unsaved)
  /\ UNCHANGED <<mishaps, database, deployed, begun, listed>>

\* It is not known, and nothing is undone.
PublishUnconfirmed(r) ==
  /\ Mishap
  /\ req[r].at = "publish"
  /\ WriteFiles(r)
  /\ Answer(r, Unsaved)
  /\ UNCHANGED <<database, deployed, begun, listed>>

\* Refused before the first byte (the network of the pool, the reloader), or all undone.
Refused(r) ==
  /\ Mishap
  /\ req[r].at = "publish"
  /\ Answer(r, {})
  /\ UNCHANGED <<database, deployed, disk, begun, history>>

\* Those who have read which profiles are deployed, and with which records.
Unpublished == {x \in Request : req[x].at = "publish"}

\* _save_last_deploy: also for a profile that was deleted meanwhile.
Save(r) ==
  /\ req[r].at = "save"
  /\ deployed' = deployed \cup {req[r].profile}
  /\ listed' = listed \cup {f[1] : f \in {g \in req[r].files : installs[g[1]].status # "gone"}}
  /\ Answer(r, IF listed' = listed THEN {} ELSE Unpublished)
  /\ clean' = (clean /\ req[r].sound)
  /\ UNCHANGED <<mishaps, database, disk, begun, current>>

\* The file cannot be written: only a line in the log.
NotSaved(r) ==
  /\ Mishap
  /\ req[r].at = "save"
  /\ Answer(r, {})
  /\ UNCHANGED <<database, deployed, disk, begun, history>>

Handle(r) ==
  \/ AutoRedeploy(r) \/ Generate(r)
  \/ Publish(r) \/ PublishUnconfirmed(r) \/ Refused(r)
  \/ Save(r) \/ NotSaved(r)

InstallNext ==
  \/ \E p \in Profile : Seal(p) \/ DeleteProfile(p)
  \/ \E p \in Profile, m \in Mac : CreateInstall(p, m)
  \/ \E i \in InstallId : DeleteInstall(i)
  \/ \E r \in Request :
       \/ Handle(r)
       \/ \E p \in Profile : DeployToHost(r, p)
       \/ \E i \in InstallId : Finish(r, i) \/ Reset(r, i)

InstallSpec == InstallInit /\ [][InstallNext]_installVars

-----------------------------------------------------------------------------
(***************************************************************************)
(* Properties.                                                             *)
(***************************************************************************)

\* Record i is done, and its machine gets the menu of its profile all the same.
Offered(i) ==
  /\ installs[i].status = "installed"
  /\ installs[i].mac \in conf.menu /\ conf.host[installs[i].mac] = installs[i].profile

\* A machine that is done is not sent to the installer again: once its record is
\* marked as installed and its profile was deployed, no deployment of any profile offers
\* it that profile's menu, also one that overlaps with others, that failed or that was
\* undone (_set_install_status, _collect_deployed_extras, _dnsmasq) - unless what it
\* writes was outdated when it wrote it.
NoSecondInstall == clean => \A i \in current : ~ Offered(i)

\* What the answer to finish and done says: "redeployed, the machine that is done does
\* not get the automatic installation menu any more" (_auto_redeploy).  Not so when a
\* deployment of another profile had read the record before it was set, and writes last.
SparedAsTold == \A i \in current : ~ Offered(i)

\* A deployment of one profile takes nothing from the others: a machine that was put
\* into force keeps a reservation, of a profile that it has or had a record in, and
\* as long as there is one the menu of unknown machines installs nothing.
NobodyIsForgotten ==
  clean => \A i \in listed :
             /\ \E k \in DOMAIN installs : /\ installs[k].mac = installs[i].mac
                                           /\ installs[k].profile = conf.host[installs[i].mac]
             /\ conf.flat = Refuse

\* A machine that waits for its installation is sent to its own menu, whose answer
\* file calls back for this very record: not for an earlier one of the same machine,
\* whose callback would be answered with 404 and the machine installed for ever.
InstallEndsTheWaiting ==
  clean => \A i \in listed \cap current :
             installs[i].status = "pending" /\ conf.host[installs[i].mac] = installs[i].profile
               => installs[i].mac \in conf.menu /\ web[installs[i].profile][installs[i].mac] = i

=============================================================================
