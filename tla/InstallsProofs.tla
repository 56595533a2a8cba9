---------------------------- MODULE InstallsProofs ----------------------------
(***************************************************************************)
(* Theorems about Installs, for any number of profiles, machines, records  *)
(* and handlers, and any number of mishaps.                                *)
(***************************************************************************)
EXTENDS Installs, WellFoundedInduction, TLAPS

USE InstallsAssumption

Of(files) == {f[1] : f \in files}

\* Every variable has its values; a record belongs to a machine and a profile for good.
Typed ==
  /\ profiles \subseteq Profile /\ sealed \subseteq Profile /\ deployed \subseteq Profile
  /\ installs \in Seq(Install) /\ Len(installs) <= MaxRecords
  /\ web \in [Profile -> [Mac -> DOMAIN installs \cup {NoId, NoFile}]]
  /\ conf \in Conf /\ req \in [Request -> Handler]
  /\ begun \in 0..MaxHandlers /\ mishaps \in 0..MaxMishaps
  /\ current \subseteq DOMAIN installs /\ listed \subseteq DOMAIN installs
  /\ clean \in BOOLEAN

\* The unique index, and the callbacks that are on disk.
Indexed ==
  /\ \A i, k \in Live : installs[i].profile = installs[k].profile /\ installs[i].mac = installs[k].mac => i = k
  /\ \A p \in Profile, m \in Mac :
       web[p][m] \in InstallId => installs[web[p][m]].profile = p /\ installs[web[p][m]].mac = m

\* A record goes with its profile.
Kept == \A i \in Live : installs[i].profile \in profiles

Listing == \A i \in listed : i \in Live /\ installs[i].profile \in deployed

\* The state that a handler remembers is the state there is, until another one sets it.
Sees(r) ==
  req[r].at \in {"redeploy", "generate"} /\ req[r].sound /\ req[r].id # NoId
    => req[r].id \in DOMAIN installs /\ installs[req[r].id].status \in {req[r].status, "gone"}

\* What a handler has read and is to write: one file per machine.
Filed(r) ==
  /\ 1..req[r].read \subseteq DOMAIN installs
  /\ \A f \in req[r].files : f[1] \in DOMAIN installs /\ installs[f[1]].profile = req[r].profile
  /\ \A f, g \in req[r].files : installs[f[1]].mac = installs[g[1]].mac => f = g

\* With the configuration c the machine of record i is not installed again ...
Spared(c, i) ==
  installs[i].status = "installed" => ~ (installs[i].mac \in c.menu /\ c.host[installs[i].mac] = installs[i].profile)

\* ... has a reservation, and unknown machines are left alone ...
Reserved(c, i) ==
  /\ \E k \in DOMAIN installs : installs[k].mac = installs[i].mac /\ installs[k].profile = c.host[installs[i].mac]
  /\ c.flat = Refuse

\* ... and is sent to its installer if it waits for that.
Sent(c, i) ==
  installs[i].status = "pending" /\ c.host[installs[i].mac] = installs[i].profile => installs[i].mac \in c.menu

\* A configuration that is not outdated is as good as it was when it was generated, however
\* many others are written meanwhile: it only knows nothing of later records.
Prepared(r) ==
  req[r].at = "publish" /\ req[r].sound =>
    /\ \A i \in DOMAIN installs : Spared(req[r].conf, i)
    /\ \A i \in listed \cup Of(req[r].files) : Reserved(req[r].conf, i)
    /\ \A i \in 1..req[r].read \cup Of(req[r].files) : Sent(req[r].conf, i)

\* Records that are about to be listed, while what was written is still there.
Saving(r) ==
  req[r].at = "save" /\ req[r].sound /\ clean => \A i \in Of(req[r].files) : Reserved(conf, i)

Handled(r) == Sees(r) /\ Filed(r) /\ Prepared(r) /\ Saving(r)

\* What is in force.
Given ==
  clean => /\ \A i \in current : Spared(conf, i) /\ Sent(conf, i)
           /\ \A i \in listed : Reserved(conf, i)

Calls == \A i \in current : installs[i].status = "pending" => web[installs[i].profile][installs[i].mac] = i

Inv ==
  /\ Typed /\ Indexed /\ Kept /\ Listing /\ Given /\ Calls
  /\ \A r \in Request : Handled(r)

-----------------------------------------------------------------------------
\* A set of profiles has a first one.
LEMMA FirstOfSome == ASSUME NEW S, S \subseteq Profile, S # {} PROVE Min(S) \in S
<1>1. S \subseteq Nat
  BY DEF Profile
<1>2. PICK x \in S : \A y \in S : ~ (<<y, x>> \in OpToRel(<, Nat))
  BY <1>1, NatLessThanWellFounded, WFMin
<1>3. \A y \in S : ~ (y < x)
  BY <1>1, <1>2 DEF OpToRel
<1>4. \A y \in S : x =< y
  BY <1>1, <1>3
<1> QED
  BY <1>4 DEF Min

\* Whose reservation a machine gets (_dnsmasq): that of the profile that is deployed, if
\* it has a record of the machine, else that of a profile merged into it which has one.
LEMMA HostIsAProfile ==
  ASSUME Typed, NEW p \in Profile, NEW m \in Mac
  PROVE  /\ HostOf(p, m) \in Profile \cup {NoId}
         /\ m \in MacsOf(p) => HostOf(p, m) = p
         /\ HostOf(p, m) # NoId => m \in MacsOf(HostOf(p, m))
         /\ (\E q \in Merged(p) : m \in MacsOf(q)) => HostOf(p, m) # NoId
<1> DEFINE from == {q \in Merged(p) : m \in MacsOf(q)}
<1>1. from \subseteq Profile /\ NoId \notin Profile
  <2>1. profiles \subseteq Profile
    BY DEF Typed
  <2>2. Merged(p) \subseteq profiles
    BY DEF Merged, Others
  <2>3. NoId \notin Profile
    BY DEF Profile, NoId
  <2>4. from \subseteq Merged(p)
    OBVIOUS
  <2> QED
    BY ONLY <2>1, <2>2, <2>3, <2>4
<1>2. HostOf(p, m) = IF m \in MacsOf(p) THEN p ELSE IF from = {} THEN NoId ELSE Min(from)
  BY DEF HostOf
<1>3. from # {} => Min(from) \in from
  BY <1>1, FirstOfSome
<1> QED
  BY <1>1, <1>2, <1>3

\* A configuration is generated for known machines and profiles.
LEMMA Generated ==
  ASSUME Typed, NEW r \in Request, NEW p \in Profile PROVE Dnsmasq(r, p) \in Conf
<1>1. [m \in Mac |-> Base(p, m)] \in [Mac -> Profile \cup {NoId}]
  BY HostIsAProfile DEF Base
<1>2. \A k \in Live : installs[k].mac \in Mac
  <2>1. installs \in Seq(Install)
    BY DEF Typed
  <2>2. \A k \in DOMAIN installs : installs[k] \in Install
    BY ONLY <2>1
  <2> QED
    BY <2>2 DEF Live, Install
<1>3. FlatMenu(p) \in Profile \cup {NoId, Refuse}
  BY DEF FlatMenu
<1> QED
  BY <1>1, <1>2, <1>3 DEF Dnsmasq, Conf

\* The fields of a handler that has nothing to do.
LEMMA IdleFields ==
  /\ Idle \in Handler /\ Idle.at = "idle" /\ Idle.files = {} /\ Idle.id = NoId /\ Idle.read = 0
  /\ NoConf \in Conf
<1>1. NoConf \in Conf
  BY DEF NoConf, Conf, NoId
<1> QED
  BY <1>1 DEF Idle, Handler, Profile

LEMMA InvInit == InstallInit => Inv
<1> SUFFICES ASSUME InstallInit PROVE Inv
  OBVIOUS
<1> USE DEF InstallInit
<1>1. Typed
  BY IdleFields DEF Typed
<1>2. Live = {} /\ DOMAIN installs = {}
  BY DEF Live
<1>3. Indexed /\ Kept /\ Listing /\ Given /\ Calls
  BY <1>2, IdleFields DEF Indexed, Kept, Listing, Given, Calls, InstallId, NoFile
<1>4. \A r \in Request : Handled(r)
  BY IdleFields DEF Handled, Sees, Filed, Prepared, Saving
<1> QED
  BY <1>1, <1>3, <1>4 DEF Inv

-----------------------------------------------------------------------------
(* What most steps leave alone. *)

\* Records are never renamed and never taken out of the table.
NamesKept ==
  \A i \in DOMAIN installs :
    /\ i \in DOMAIN installs'
    /\ installs'[i].profile = installs[i].profile /\ installs'[i].mac = installs[i].mac

\* What the table holds.
LEMMA TableOfRows ==
  ASSUME Typed
  PROVE  /\ DOMAIN installs = 1..Len(installs) /\ Len(installs) \in Nat /\ DOMAIN installs \subseteq InstallId
         /\ \A i \in DOMAIN installs : /\ installs[i] \in Install /\ installs[i].profile \in Profile
                                       /\ installs[i].mac \in Mac
                                       /\ installs[i].status \in {"pending", "installed", "gone"}
         /\ Live \subseteq DOMAIN installs
<1>1. installs \in Seq(Install) /\ Len(installs) <= MaxRecords
  BY DEF Typed
<1>2. DOMAIN installs = 1..Len(installs) /\ Len(installs) \in Nat /\ \A i \in DOMAIN installs : installs[i] \in Install
  BY ONLY <1>1
<1>3. DOMAIN installs \subseteq InstallId
  BY ONLY <1>1, <1>2, InstallsAssumption DEF InstallId
<1>4. Live \subseteq DOMAIN installs
  BY ONLY DEF Live
<1> QED
  BY <1>2, <1>3, <1>4 DEF Install

\* A function on 1..n is a sequence of n elements.
LEMMA FunctionIsSequence ==
  ASSUME NEW S, NEW n \in Nat, NEW f \in [1..n -> S]
  PROVE  f \in Seq(S) /\ Len(f) = n
OBVIOUS

\* What is in force stays as good while the records it is about stay.
LEMMA StillGiven ==
  ASSUME Inv, NamesKept, \A i \in current' : i \in current /\ installs'[i] = installs[i],
         listed' \subseteq listed, conf' = conf, web' = web, clean' = clean
  PROVE  Given' /\ Calls'
<1>1. current \subseteq DOMAIN installs /\ listed \subseteq DOMAIN installs
  BY DEF Inv, Typed
<1>2. Given'
  <2> SUFFICES ASSUME clean
               PROVE  /\ \A i \in current' : Spared(conf, i)' /\ Sent(conf, i)'
                      /\ \A i \in listed' : Reserved(conf, i)'
    BY DEF Given
  <2>1. ASSUME NEW i \in current' PROVE Spared(conf, i)' /\ Sent(conf, i)'
    <3>1. Spared(conf, i) /\ Sent(conf, i)
      BY DEF Inv, Given
    <3> QED
      BY <3>1 DEF Spared, Sent
  <2>2. ASSUME NEW i \in listed' PROVE Reserved(conf, i)'
    <3>1. Reserved(conf, i)
      BY DEF Inv, Given
    <3> QED
      BY <1>1, <3>1 DEF Reserved, NamesKept
  <2> QED
    BY <2>1, <2>2
<1>3. Calls'
  BY DEF Inv, Calls
<1> QED
  BY <1>2, <1>3

\* Records end, new ones wait, and no state is set.
StatesKept ==
  /\ \A i \in DOMAIN installs : installs'[i].status \in {installs[i].status, "gone"}
  /\ \A i \in DOMAIN installs' \ DOMAIN installs : installs'[i].status = "pending"

\* A handler that does nothing: at most it becomes outdated.
Stays(q) ==
  /\ req'[q].at = req[q].at /\ req'[q].id = req[q].id /\ req'[q].status = req[q].status
  /\ req'[q].profile = req[q].profile /\ req'[q].files = req[q].files
  /\ req'[q].conf = req[q].conf /\ req'[q].read = req[q].read
  /\ req'[q].sound => req[q].sound

\* A handler that does nothing is as before if it is told what outdates it: who remembers
\* a record's state, that it is set; who has generated, that any is set or records are
\* listed; who is to save, that others have written.
LEMMA OthersKeep ==
  ASSUME Inv, NamesKept, NEW q \in Request, Stays(q),
         req'[q].sound /\ req[q].at \in {"redeploy", "generate"} /\ req[q].id \in DOMAIN installs
           => installs'[req[q].id].status \in {installs[req[q].id].status, "gone"},
         req'[q].sound /\ req[q].at = "publish" => StatesKept /\ listed' \subseteq listed,
         req'[q].sound /\ req[q].at = "save" /\ clean' => clean /\ conf' = conf
  PROVE  Handled(q)'
<1>1. Sees(q) /\ Filed(q) /\ Prepared(q) /\ Saving(q)
  BY DEF Inv, Handled
<1>2. /\ listed \subseteq DOMAIN installs /\ Of(req[q].files) \subseteq DOMAIN installs
      /\ 1..req[q].read \subseteq DOMAIN installs /\ DOMAIN installs \subseteq DOMAIN installs'
  BY <1>1 DEF Inv, Typed, Filed, Of, NamesKept
<1>3. \A c : \A i \in DOMAIN installs : Reserved(c, i) => Reserved(c, i)'
  BY DEF Reserved, NamesKept
<1>4. Sees(q)'
  <2> SUFFICES ASSUME req[q].at \in {"redeploy", "generate"}, req'[q].sound, req[q].id # NoId
               PROVE  /\ req[q].id \in DOMAIN installs'
                      /\ installs'[req[q].id].status \in {req[q].status, "gone"}
    BY DEF Sees, Stays
  <2>1. req[q].id \in DOMAIN installs /\ installs[req[q].id].status \in {req[q].status, "gone"}
    BY <1>1 DEF Sees, Stays
  <2>2. installs'[req[q].id].status \in {installs[req[q].id].status, "gone"}
    BY <2>1
  <2> QED
    BY <1>2, <2>1, <2>2
<1>5. Filed(q)'
  BY <1>1, <1>2 DEF Filed, NamesKept, Stays
<1>6. Prepared(q)'
  <2> PICK c, files, read : c = req[q].conf /\ files = req[q].files /\ read = req[q].read
    OBVIOUS
  <2> SUFFICES ASSUME req[q].at = "publish", req'[q].sound
               PROVE  /\ \A i \in DOMAIN installs' : Spared(c, i)'
                      /\ \A i \in listed' \cup Of(files) : Reserved(c, i)'
                      /\ \A i \in 1..read \cup Of(files) : Sent(c, i)'
    BY DEF Prepared, Stays
  <2>1. /\ \A i \in DOMAIN installs : Spared(c, i)
        /\ \A i \in listed \cup Of(files) : Reserved(c, i)
        /\ \A i \in 1..read \cup Of(files) : Sent(c, i)
    BY <1>1 DEF Prepared, Stays
  <2>2. StatesKept /\ listed' \subseteq listed
    OBVIOUS
  <2>3. \A i \in DOMAIN installs : (Spared(c, i) => Spared(c, i)') /\ (Sent(c, i) => Sent(c, i)')
    BY <2>2 DEF Spared, Sent, NamesKept, StatesKept
  <2>4. \A i \in DOMAIN installs' \ DOMAIN installs : Spared(c, i)'
    BY <2>2 DEF Spared, StatesKept
  <2> QED
    BY <1>2, <1>3, <2>1, <2>2, <2>3, <2>4
<1>7. Saving(q)'
  <2> SUFFICES ASSUME req[q].at = "save", req'[q].sound, clean'
               PROVE  \A i \in Of(req[q].files) : Reserved(conf, i)'
    BY DEF Saving, Stays
  <2>1. clean /\ conf' = conf /\ req[q].sound
    BY DEF Stays
  <2>2. \A i \in Of(req[q].files) : Reserved(conf, i)
    BY <1>1, <2>1 DEF Saving
  <2>3. ASSUME NEW i \in Of(req[q].files) PROVE Reserved(conf, i)'
    <3>1. Reserved(conf, i) /\ i \in DOMAIN installs
      BY <1>2, <2>2, <2>3
    <3> QED
      BY <2>1, <3>1 DEF Reserved, NamesKept
  <2> QED
    BY <2>3
<1> QED
  BY <1>4, <1>5, <1>6, <1>7 DEF Handled

\* The handlers stay as they are while nobody but a client or an administrator acts.
LEMMA Rests ==
  ASSUME Inv, NamesKept, StatesKept, req' = req, conf' = conf, clean' = clean,
         listed' \subseteq listed
  PROVE  \A r \in Request : Handled(r)'
<1>1. ASSUME NEW r \in Request PROVE Handled(r)'
  <2>1. Stays(r)
    BY DEF Stays
  <2> QED
    BY <2>1, OthersKeep DEF StatesKept
<1> QED
  BY <1>1

\* Whether a handler is sound is all that changes.
LEMMA SoundOrNot ==
  ASSUME NEW h \in Handler, NEW x, x = [h EXCEPT !.sound = FALSE]
  PROVE  /\ x \in Handler /\ x.sound = FALSE /\ x.at = h.at
         /\ x.profile = h.profile /\ x.id = h.id /\ x.status = h.status
         /\ x.files = h.files /\ x.conf = h.conf /\ x.read = h.read
BY DEF Handler

\* A handler that goes on leaves the others alone, or outdated.
LEMMA Going ==
  ASSUME Typed, NEW r \in Request, NEW h \in Handler, NEW outdated, GoesOn(r, h, outdated)
  PROVE  /\ req' \in [Request -> Handler] /\ req'[r] = h
         /\ \A q \in Request \ {r} : Stays(q) /\ (q \in outdated => ~ req'[q].sound)
<1>1. req \in [Request -> Handler]
  BY DEF Typed
<1>2. ASSUME NEW q \in Request \ {r}
      PROVE  req'[q] \in Handler /\ Stays(q) /\ (q \in outdated => ~ req'[q].sound)
  <2>1. CASE q \notin outdated
    <3>1. req'[q] = req[q]
      BY <2>1 DEF GoesOn
    <3> QED
      BY <1>1, <2>1, <3>1 DEF Stays
  <2>2. CASE q \in outdated
    <3>1. PICK o : o = req[q]
      OBVIOUS
    <3>2. PICK x : x = [o EXCEPT !.sound = FALSE]
      OBVIOUS
    <3>3. req'[q] = x
      BY <2>2, <3>1, <3>2 DEF GoesOn
    <3>4. o \in Handler
      BY <1>1, <3>1
    <3>5. /\ x \in Handler /\ x.sound = FALSE /\ x.at = o.at
          /\ x.profile = o.profile /\ x.id = o.id /\ x.status = o.status
          /\ x.files = o.files /\ x.conf = o.conf /\ x.read = o.read
      BY ONLY <3>2, <3>4, SoundOrNot
    <3> QED
      BY <3>1, <3>3, <3>5 DEF Stays
  <2> QED
    BY <2>1, <2>2
<1>3. req'[r] = h
  BY DEF GoesOn
<1>4. req' \in [Request -> Handler]
  <2>1. \A q \in Request : req'[q] \in Handler
    BY <1>2, <1>3
  <2>2. DOMAIN req' = Request /\ req' = [x \in Request |-> req'[x]]
    BY DEF GoesOn
  <2> QED
    BY <2>1, <2>2
<1> QED
  BY <1>2, <1>3, <1>4

\* A handler that goes on and sets no state: those who have generated are told of records
\* that are listed, those who are to save of files that are written.
LEMMA GoingOn ==
  ASSUME Inv, NEW r \in Request, NEW h \in Handler, NEW outdated, GoesOn(r, h, outdated),
         installs' = installs,
         listed' \subseteq listed \/ Unpublished \subseteq outdated,
         ((clean' => clean) /\ conf' = conf) \/ Unsaved \subseteq outdated
  PROVE  /\ req' \in [Request -> Handler] /\ req'[r] = h
         /\ \A q \in Request \ {r} : Handled(q)'
<1>1. /\ req' \in [Request -> Handler] /\ req'[r] = h
      /\ \A q \in Request \ {r} : Stays(q) /\ (q \in outdated => ~ req'[q].sound)
  BY Going DEF Inv
<1>2. NamesKept /\ StatesKept
  BY DEF NamesKept, StatesKept
<1>3. ASSUME NEW q \in Request \ {r} PROVE Handled(q)'
  <2>1. req'[q].sound /\ req[q].at = "publish" => listed' \subseteq listed
    BY <1>1 DEF Unpublished
  <2>2. req'[q].sound /\ req[q].at = "save" /\ clean' => clean /\ conf' = conf
    BY <1>1 DEF Unsaved
  <2> QED
    BY <1>1, <1>2, <2>1, <2>2, OthersKeep
<1> QED
  BY <1>1, <1>3

-----------------------------------------------------------------------------
(* Profiles and records.                                                   *)

LEMMA CreateInstallKeeps ==
  ASSUME Inv, NEW p \in Profile, NEW m \in Mac, CreateInstall(p, m) PROVE Inv'
<1> DEFINE row == [profile |-> p, mac |-> m, status |-> "pending"]
<1>1. /\ Len(installs) < MaxRecords /\ p \in profiles /\ m \notin MacsOf(p)
      /\ installs' = Append(installs, row)
      /\ UNCHANGED <<mishaps, profiles, sealed, deployed, web, conf, req, begun, listed, current, clean>>
  BY DEF CreateInstall, disk, history
<1>2. Typed /\ Indexed /\ Kept /\ Listing
  BY DEF Inv
<1>3. installs \in Seq(Install) /\ row \in Install
  BY <1>2 DEF Typed, Install
<1> DEFINE n == Len(installs) + 1
<1>4. /\ installs' \in Seq(Install) /\ Len(installs') = n /\ n \in Nat /\ DOMAIN installs' = 1..n /\ installs'[n] = row
      /\ DOMAIN installs = 1..Len(installs) /\ Len(installs) \in Nat
      /\ \A i \in DOMAIN installs : installs'[i] = installs[i] /\ i \in DOMAIN installs' /\ i # n
      /\ \A i \in DOMAIN installs' : i \in DOMAIN installs \/ i = n
  BY ONLY <1>1, <1>3
<1> HIDE DEF n
<1>5. NamesKept /\ \A i \in DOMAIN installs' \ DOMAIN installs : installs'[i].status = "pending"
  BY <1>4 DEF NamesKept
<1>6. Typed'
  <2>1. Len(installs') <= MaxRecords
    BY <1>1, <1>3, <1>4 DEF n
  <2>2. web' \in [Profile -> [Mac -> (DOMAIN installs)' \cup {NoId, NoFile}]]
    <3>1. web \in [Profile -> [Mac -> DOMAIN installs \cup {NoId, NoFile}]] /\ DOMAIN installs \subseteq (DOMAIN installs)'
      BY <1>2, <1>4 DEF Typed
    <3> QED
      BY <1>1, <3>1
  <2>3. current' \subseteq (DOMAIN installs)' /\ listed' \subseteq (DOMAIN installs)'
    BY <1>1, <1>2, <1>4 DEF Typed
  <2>4. installs' \in Seq(Install)
    BY <1>4
  <2> QED
    BY <1>1, <1>2, <2>1, <2>2, <2>3, <2>4 DEF Typed
<1>7. Live' = Live \cup {n}
  <2>1. installs'[n].status = "pending" /\ DOMAIN installs' = DOMAIN installs \cup {n}
    <3>1. n = Len(installs) + 1
      BY DEF n
    <3>2. 1..n = 1..Len(installs) \cup {n}
      BY ONLY <1>4, <3>1
    <3>3. installs'[n].status = "pending"
      BY <1>4
    <3> QED
      BY ONLY <1>4, <3>2, <3>3
  <2>2. \A i \in DOMAIN installs : installs'[i] = installs[i]
    BY <1>4
  <2> QED
    BY ONLY <2>1, <2>2 DEF Live
<1>8. Indexed'
  <2>1. \A i \in Live : ~ (installs[i].profile = p /\ installs[i].mac = m)
    BY <1>1 DEF MacsOf, RecordsOf
  <2>2. Live \subseteq DOMAIN installs
    BY DEF Live
  <2>3. ASSUME NEW i \in Live', NEW k \in Live',
               installs'[i].profile = installs'[k].profile, installs'[i].mac = installs'[k].mac
        PROVE  i = k
    <3>1. installs'[n].profile = p /\ installs'[n].mac = m
      BY <1>4
    <3>2. CASE i = n \/ k = n
      BY <1>4, <1>7, <2>1, <2>2, <2>3, <3>1, <3>2
    <3>3. CASE i \in Live /\ k \in Live
      BY <1>2, <1>4, <2>2, <2>3, <3>3 DEF Indexed
    <3> QED
      BY <1>7, <3>2, <3>3
  <2>4. ASSUME NEW s \in Profile, NEW o \in Mac, web[s][o] \in InstallId
        PROVE  installs'[web[s][o]].profile = s /\ installs'[web[s][o]].mac = o
    <3>1. web[s][o] \in DOMAIN installs
      BY <1>2, <2>4 DEF Typed, InstallId, NoId, NoFile
    <3> QED
      BY <1>2, <1>4, <2>4, <3>1 DEF Indexed
  <2> QED
    BY <1>1, <2>3, <2>4 DEF Indexed
<1>9. Kept'
  BY <1>1, <1>2, <1>4, <1>7 DEF Kept, Live
<1>10. Listing'
  BY <1>1, <1>2, <1>4, <1>7 DEF Listing, Live
<1>11. Given' /\ Calls'
  <2>1. \A i \in current' : i \in current /\ installs'[i] = installs[i]
    BY <1>1, <1>2, <1>4 DEF Typed
  <2> QED
    BY <1>1, <1>5, <2>1, StillGiven
<1>12. \A r \in Request : Handled(r)'
  <2>1. StatesKept
    BY <1>4, <1>5 DEF StatesKept
  <2> QED
    BY <1>1, <1>5, <2>1, Rests
<1> QED
  BY <1>6, <1>8, <1>9, <1>10, <1>11, <1>12 DEF Inv

\* Deleting records only ends them: nothing is deployed, and every other record stays as
\* it is (delete_install, delete_profile with its cascade).
LEMMA DeletionKeeps ==
  ASSUME Inv, NEW ids, Without(ids),
         UNCHANGED <<sealed, web, conf, req, begun, clean>>, mishaps' \in 0..MaxMishaps,
         profiles' \subseteq profiles, deployed' \subseteq deployed,
         \A i \in Live \ ids : installs[i].profile \in profiles',
         \A i \in Live \ ids : installs[i].profile \in deployed => installs[i].profile \in deployed'
  PROVE  Inv'
<1>1. Typed /\ Indexed /\ Kept /\ Listing
  BY DEF Inv
<1>2. /\ DOMAIN installs = 1..Len(installs) /\ Len(installs) \in Nat /\ DOMAIN installs \subseteq InstallId
      /\ \A i \in DOMAIN installs : installs[i] \in Install
      /\ Live \subseteq DOMAIN installs
  BY <1>1, TableOfRows
<1>3. /\ installs' = [i \in DOMAIN installs |-> IF i \in ids THEN [installs[i] EXCEPT !.status = "gone"] ELSE installs[i]]
      /\ listed' = listed \ ids /\ current' = current \ ids
  BY DEF Without
<1>4. /\ DOMAIN installs' = DOMAIN installs
      /\ \A i \in DOMAIN installs : IF i \in ids THEN installs'[i] = [installs[i] EXCEPT !.status = "gone"]
                                             ELSE installs'[i] = installs[i]
  BY <1>3
<1>5. \A i \in DOMAIN installs : /\ installs'[i] \in Install
                                 /\ installs'[i].profile = installs[i].profile /\ installs'[i].mac = installs[i].mac
                                 /\ i \in ids => installs'[i].status = "gone"
                                 /\ i \notin ids => installs'[i].status = installs[i].status
  BY <1>2, <1>4 DEF Install
<1>6. NamesKept
  BY <1>4, <1>5 DEF NamesKept
<1>7. Live' = Live \ ids
  BY <1>4, <1>5 DEF Live
<1>8. Typed'
  <2>1. installs' \in [1..Len(installs) -> Install]
    BY <1>2, <1>3, <1>5
  <2>2. installs' \in Seq(Install) /\ Len(installs') = Len(installs)
    BY ONLY <1>2, <2>1, FunctionIsSequence
  <2> QED
    BY <1>1, <1>3, <1>4, <2>2 DEF Typed
<1>9. Indexed'
  <2>1. \A i, k \in Live' : installs'[i].profile = installs'[k].profile /\ installs'[i].mac = installs'[k].mac => i = k
    BY <1>1, <1>2, <1>5, <1>7 DEF Indexed
  <2>2. ASSUME NEW s \in Profile, NEW o \in Mac, web[s][o] \in InstallId
        PROVE  installs'[web[s][o]].profile = s /\ installs'[web[s][o]].mac = o
    <3>1. web[s][o] \in DOMAIN installs
      BY <1>1, <2>2 DEF Typed, InstallId, NoId, NoFile
    <3> QED
      BY <1>1, <1>5, <2>2, <3>1 DEF Indexed
  <2> QED
    BY <2>1, <2>2 DEF Indexed
<1>10. Kept' /\ Listing'
  BY <1>1, <1>2, <1>3, <1>5, <1>7 DEF Kept, Listing
<1>11. Given' /\ Calls'
  <2>1. \A i \in current' : i \in current /\ installs'[i] = installs[i]
    BY <1>1, <1>3, <1>4 DEF Typed
  <2> QED
    BY <1>3, <1>6, <2>1, StillGiven
<1>12. \A r \in Request : Handled(r)'
  <2>1. StatesKept
    BY <1>4, <1>5 DEF StatesKept
  <2> QED
    BY <1>3, <1>6, <2>1, Rests
<1> QED
  BY <1>8, <1>9, <1>10, <1>11, <1>12 DEF Inv

LEMMA DeleteInstallKeeps == ASSUME Inv, NEW i \in InstallId, DeleteInstall(i) PROVE Inv'
<1>1. /\ mishaps < MaxMishaps /\ mishaps' = mishaps + 1 /\ Without({i})
      /\ UNCHANGED <<profiles, sealed, deployed, web, conf, req, begun, clean>>
  BY DEF DeleteInstall, Mishap, disk
<1>2. mishaps' \in 0..MaxMishaps
  BY <1>1 DEF Inv, Typed
<1>3. \A k \in Live : installs[k].profile \in profiles
  BY DEF Inv, Kept
<1> QED
  BY <1>1, <1>2, <1>3, DeletionKeeps

LEMMA DeleteProfileKeeps == ASSUME Inv, NEW p \in Profile, DeleteProfile(p) PROVE Inv'
<1>1. /\ mishaps < MaxMishaps /\ mishaps' = mishaps + 1 /\ Without(RecordsOf(p))
      /\ profiles' = profiles \ {p} /\ deployed' = deployed \ {p}
      /\ UNCHANGED <<sealed, web, conf, req, begun, clean>>
  BY DEF DeleteProfile, Mishap, disk
<1>2. mishaps' \in 0..MaxMishaps
  BY <1>1 DEF Inv, Typed
<1>3. \A k \in Live \ RecordsOf(p) : installs[k].profile \in profiles /\ installs[k].profile # p
  BY DEF Inv, Kept, RecordsOf
<1> QED
  BY <1>1, <1>2, <1>3, DeletionKeeps

LEMMA SealKeeps == ASSUME Inv, NEW p \in Profile, Seal(p) PROVE Inv'
<1>1. /\ mishaps < MaxMishaps /\ mishaps' = mishaps + 1 /\ p \in profiles /\ sealed' = {p}
      /\ UNCHANGED <<profiles, installs, deployed, web, conf, req, begun, listed, current, clean>>
  BY DEF Seal, Mishap, disk, history
<1>2. Typed'
  BY <1>1 DEF Inv, Typed
<1>3. Live' = Live
  BY <1>1 DEF Live
<1>4. Indexed' /\ Kept' /\ Listing'
  BY <1>1, <1>3 DEF Inv, Indexed, Kept, Listing
<1>5. NamesKept
  BY <1>1 DEF NamesKept
<1>6. Given' /\ Calls'
  BY <1>1, <1>5, StillGiven
<1>7. \A r \in Request : Handled(r)'
  <2>1. StatesKept
    BY <1>1 DEF StatesKept
  <2> QED
    BY <1>1, <1>5, <2>1, Rests
<1> QED
  BY <1>2, <1>4, <1>6, <1>7 DEF Inv

-----------------------------------------------------------------------------
(* Handlers begin. *)

\* A handler that begins has read nothing.
LEMMA EnterKeeps ==
  ASSUME Inv, NEW r \in Request, NEW h \in Handler, NEW outdated, Enter(r, h, outdated),
         NamesKept, h.at \in {"redeploy", "generate"}, h.files = {}, h.read = 0,
         conf' = conf, clean' = clean, listed' = listed,
         h.id # NoId => h.id \in DOMAIN installs' /\ installs'[h.id].status = h.status,
         StatesKept \/ (/\ Unpublished \subseteq outdated
                        /\ \A q \in Request \ {r} : req[q].id \in DOMAIN installs /\ q \notin outdated
                              => installs'[req[q].id].status = installs[req[q].id].status)
  PROVE  /\ req' \in [Request -> Handler] /\ begun' \in 0..MaxHandlers
         /\ \A q \in Request : Handled(q)'
<1>1. /\ begun < MaxHandlers /\ begun' = begun + 1 /\ begun \in 0..MaxHandlers
      /\ GoesOn(r, h, outdated) /\ Typed
  BY DEF Enter, Inv, Typed
<1>2. /\ req' \in [Request -> Handler] /\ req'[r] = h
      /\ \A q \in Request \ {r} : Stays(q) /\ (q \in outdated => ~ req'[q].sound)
  BY <1>1, Going
<1>3. ASSUME NEW q \in Request \ {r} PROVE Handled(q)'
  <2>1. req'[q].sound /\ req[q].at = "publish" => StatesKept
    BY <1>2 DEF Unpublished
  <2>2. req'[q].sound /\ req[q].id \in DOMAIN installs
          => installs'[req[q].id].status \in {installs[req[q].id].status, "gone"}
    BY <1>2 DEF StatesKept
  <2> QED
    BY <1>2, <2>1, <2>2, OthersKeep
<1>4. Handled(r)'
  <2>1. Sees(r)'
    BY <1>2 DEF Sees
  <2>2. Filed(r)'
    BY <1>2 DEF Filed
  <2>3. Prepared(r)' /\ Saving(r)'
    BY <1>2 DEF Prepared, Saving
  <2> QED
    BY <2>1, <2>2, <2>3 DEF Handled
<1> QED
  BY <1>1, <1>2, <1>3, <1>4

LEMMA DeployToHostKeeps ==
  ASSUME Inv, NEW r \in Request, NEW p \in Profile, DeployToHost(r, p) PROVE Inv'
<1> DEFINE h == [Idle EXCEPT !.at = "generate", !.operator = TRUE, !.profile = p]
<1>1. /\ Enter(r, h, {})
      /\ UNCHANGED <<mishaps, profiles, sealed, installs, deployed, web, conf, listed, current, clean>>
  BY DEF DeployToHost, database, disk, history
<1>2. h \in Handler /\ h.at = "generate" /\ h.files = {} /\ h.id = NoId /\ h.read = 0
  BY IdleFields DEF Idle, Handler
<1> HIDE DEF h
<1>3. NamesKept /\ StatesKept
  BY <1>1 DEF NamesKept, StatesKept
<1>4. /\ req' \in [Request -> Handler] /\ begun' \in 0..MaxHandlers
      /\ \A q \in Request : Handled(q)'
  BY <1>1, <1>2, <1>3, EnterKeeps
<1>5. Typed'
  BY <1>1, <1>4 DEF Inv, Typed
<1>6. Indexed' /\ Kept' /\ Listing'
  BY <1>1 DEF Inv, Indexed, Kept, Listing, Live
<1>7. Given' /\ Calls'
  BY <1>1, <1>3, StillGiven
<1> QED
  BY <1>4, <1>5, <1>6, <1>7 DEF Inv

\* A record that changes its state is no longer as it was put into force.
LEMMA SetInstallStatusKeeps ==
  ASSUME Inv, NEW r \in Request, NEW i \in InstallId, NEW status \in {"pending", "installed"},
         SetInstallStatus(r, i, status)
  PROVE  Inv'
<1> DEFINE h == [Idle EXCEPT !.at = "redeploy", !.profile = installs[i].profile,
                             !.id = i, !.status = status]
           outdated == IF installs[i].status = status THEN {} ELSE Relying(i)
<1>1. /\ i \in Live /\ Enter(r, h, outdated)
      /\ installs' = [installs EXCEPT ![i].status = status]
      /\ current' = IF installs[i].status = status THEN current ELSE current \ {i}
      /\ UNCHANGED <<mishaps, profiles, sealed, deployed, web, conf, listed, clean>>
  BY DEF SetInstallStatus, disk
<1>2. Typed /\ Indexed /\ Kept /\ Listing
  BY DEF Inv
<1>3. /\ DOMAIN installs = 1..Len(installs) /\ Len(installs) \in Nat /\ DOMAIN installs \subseteq InstallId
      /\ \A k \in DOMAIN installs : installs[k] \in Install /\ installs[k].profile \in Profile
      /\ Live \subseteq DOMAIN installs
  BY <1>2, TableOfRows
<1>4. /\ DOMAIN installs' = DOMAIN installs
      /\ \A k \in DOMAIN installs : k # i => installs'[k] = installs[k]
      /\ installs'[i] = [installs[i] EXCEPT !.status = status]
  BY <1>1, <1>3
<1>5. \A k \in DOMAIN installs : /\ installs'[k] \in Install /\ installs'[k].profile = installs[k].profile
                                 /\ installs'[k].mac = installs[k].mac
                                 /\ (installs'[k].status = "gone") = (installs[k].status = "gone")
  <2>1. /\ installs'[i] \in Install /\ installs'[i].profile = installs[i].profile /\ installs'[i].mac = installs[i].mac
        /\ installs'[i].status = status
    BY <1>1, <1>3, <1>4 DEF Install
  <2>2. installs[i].status # "gone"
    BY <1>1 DEF Live
  <2> QED
    BY <1>3, <1>4, <2>1, <2>2
<1>6. h \in Handler /\ h.at = "redeploy" /\ h.files = {} /\ h.id = i /\ h.status = status /\ h.read = 0
  <2>1. installs[i].profile \in Profile
    BY <1>1, <1>3
  <2> QED
    BY <2>1, IdleFields DEF Idle, Handler
<1> HIDE DEF h
<1>7. NamesKept
  BY <1>4, <1>5 DEF NamesKept
<1>8. i \in DOMAIN installs' /\ installs'[i].status = status
  BY <1>1, <1>3, <1>4 DEF Install
<1>9. /\ req' \in [Request -> Handler] /\ begun' \in 0..MaxHandlers
      /\ \A q \in Request : Handled(q)'
  <2>1. CASE installs[i].status = status
    <3>1. StatesKept
      BY <1>1, <1>4, <1>8, <2>1 DEF StatesKept
    <3> QED
      BY <1>1, <1>6, <1>7, <1>8, <3>1, EnterKeeps
  <2>2. CASE installs[i].status # status
    <3>1. Unpublished \subseteq outdated
      BY <2>2 DEF Relying, Unpublished
    <3>2. \A q \in Request \ {r} : req[q].id \in DOMAIN installs /\ q \notin outdated
            => installs'[req[q].id].status = installs[req[q].id].status
      BY <1>4, <2>2 DEF Relying
    <3> HIDE DEF outdated
    <3> QED
      BY <1>1, <1>6, <1>7, <1>8, <3>1, <3>2, EnterKeeps
  <2> QED
    BY <2>1, <2>2
<1>10. Live' = Live
  BY <1>4, <1>5 DEF Live
<1>11. Typed'
  <2>1. installs' \in [1..Len(installs) -> Install]
    BY <1>1, <1>3, <1>5
  <2>2. installs' \in Seq(Install) /\ Len(installs') = Len(installs)
    BY ONLY <1>3, <2>1, FunctionIsSequence
  <2>3. current' \subseteq DOMAIN installs
    BY <1>1, <1>2 DEF Typed
  <2> QED
    BY <1>1, <1>2, <1>4, <1>9, <2>2, <2>3 DEF Typed
<1>12. Indexed'
  <2>1. \A j, k \in Live' : installs'[j].profile = installs'[k].profile /\ installs'[j].mac = installs'[k].mac => j = k
    BY <1>2, <1>3, <1>5, <1>10 DEF Indexed
  <2>2. ASSUME NEW s \in Profile, NEW o \in Mac, web[s][o] \in InstallId
        PROVE  installs'[web[s][o]].profile = s /\ installs'[web[s][o]].mac = o
    <3>1. web[s][o] \in DOMAIN installs
      BY <1>2, <2>2 DEF Typed, InstallId, NoId, NoFile
    <3> QED
      BY <1>2, <1>5, <2>2, <3>1 DEF Indexed
  <2> QED
    BY <1>1, <2>1, <2>2 DEF Indexed
<1>13. Kept' /\ Listing'
  BY <1>1, <1>2, <1>3, <1>5, <1>10 DEF Kept, Listing
<1>14. Given' /\ Calls'
  <2>1. ASSUME NEW k \in current' PROVE k \in current /\ installs'[k] = installs[k]
    <3>1. CASE k # i
      BY <1>1, <1>2, <1>4, <2>1, <3>1 DEF Typed
    <3>2. CASE k = i
      <4>1. installs[i].status = status /\ k \in current
        BY <1>1, <2>1, <3>2
      <4>2. [installs[i] EXCEPT !.status = status] = installs[i]
        BY <1>1, <1>3, <4>1 DEF Install
      <4> QED
        BY <1>4, <3>2, <4>1, <4>2
    <3> QED
      BY <3>1, <3>2
  <2> QED
    BY <1>1, <1>7, <2>1, StillGiven
<1> QED
  BY <1>9, <1>11, <1>12, <1>13, <1>14 DEF Inv

-----------------------------------------------------------------------------
(* Handlers go on. *)

\* A handler that has answered leaves no work behind.
LEMMA AnswerLeaves ==
  ASSUME Inv, NEW r \in Request, NEW outdated, Answer(r, outdated), installs' = installs,
         listed' \subseteq listed \/ Unpublished \subseteq outdated,
         ((clean' => clean) /\ conf' = conf) \/ Unsaved \subseteq outdated
  PROVE  req' \in [Request -> Handler] /\ \A q \in Request : Handled(q)'
<1>1. GoesOn(r, Idle, outdated) /\ Idle \in Handler
  BY IdleFields DEF Answer
<1>2. /\ req' \in [Request -> Handler] /\ req'[r] = Idle
      /\ \A q \in Request \ {r} : Handled(q)'
  BY <1>1, GoingOn
<1>3. Handled(r)'
  BY <1>2, IdleFields DEF Handled, Sees, Filed, Prepared, Saving
<1> QED
  BY <1>2, <1>3

\* Profiles and records are as before for a step that leaves the database.
LEMMA SameRecords ==
  ASSUME Inv, UNCHANGED <<profiles, installs, web>>,
         \A i \in listed' : i \in Live /\ installs[i].profile \in deployed'
  PROVE  Indexed' /\ Kept' /\ Listing' /\ NamesKept /\ Live' = Live
BY DEF Inv, Indexed, Kept, Listing, NamesKept, Live

LEMMA AutoRedeployKeeps == ASSUME Inv, NEW r \in Request, AutoRedeploy(r) PROVE Inv'
<1> DEFINE p == req[r].profile
           h == [req[r] EXCEPT !.at = "generate"]
<1>1. /\ req[r].at = "redeploy"
      /\ deployed' = IF p \in profiles THEN deployed ELSE deployed \ {p}
      /\ GoesOn(r, h, {}) \/ Answer(r, {})
      /\ UNCHANGED <<mishaps, profiles, sealed, installs, web, conf, begun, listed, current, clean>>
  BY DEF AutoRedeploy, database, disk, history
<1>2. Typed /\ Kept /\ Listing /\ req[r] \in Handler /\ req \in [Request -> Handler] /\ Handled(r)
  BY DEF Inv, Typed
<1>3. /\ h \in Handler /\ h.at = "generate" /\ h.sound = req[r].sound /\ h.files = req[r].files
      /\ h.profile = req[r].profile /\ h.id = req[r].id /\ h.status = req[r].status
      /\ h.read = req[r].read
  BY <1>2 DEF Handler
<1> HIDE DEF h
<1>4. \A i \in listed : i \in Live /\ installs[i].profile \in deployed'
  BY <1>1, <1>2 DEF Kept, Listing
<1>5. Indexed' /\ Kept' /\ Listing' /\ NamesKept
  BY <1>1, <1>4, SameRecords
<1>6. req' \in [Request -> Handler] /\ \A q \in Request : Handled(q)'
  <2>1. CASE Answer(r, {})
    BY <1>1, <2>1, AnswerLeaves
  <2>2. CASE GoesOn(r, h, {})
    <3>1. /\ req' \in [Request -> Handler] /\ req'[r] = h
          /\ \A q \in Request \ {r} : Handled(q)'
      BY <1>1, <1>3, <2>2, GoingOn
    <3>2. Sees(r)' /\ Filed(r)'
      BY <1>1, <1>2, <1>3, <3>1 DEF Handled, Sees, Filed
    <3>3. Prepared(r)' /\ Saving(r)'
      BY <1>3, <3>1 DEF Prepared, Saving
    <3> QED
      BY <3>1, <3>2, <3>3 DEF Handled
  <2> QED
    BY <1>1, <2>1, <2>2
<1>7. Given' /\ Calls'
  BY <1>1, <1>5, StillGiven
<1>8. Typed'
  BY <1>1, <1>2, <1>6 DEF Typed
<1> QED
  BY <1>5, <1>6, <1>7, <1>8 DEF Inv

\* What a deployment generates serves every machine that is known, if the handler does not
\* remember a state that is no more and leaves no profile out.
LEMMA GeneratedIsGood ==
  ASSUME Inv, NEW r \in Request, req[r].sound, req[r].at = "generate",
         NEW p \in Profile, Merged(p) = Others(p), NEW c, c = Dnsmasq(r, p)
  PROVE  /\ \A i \in DOMAIN installs : Spared(c, i)
         /\ \A i \in listed \cup RecordsOf(p) : Reserved(c, i)
         /\ \A i \in DOMAIN installs : Sent(c, i)
<1>1. Typed /\ Indexed /\ Kept /\ Listing /\ Sees(r)
  BY DEF Inv, Handled
<1>2. /\ \A i \in DOMAIN installs : installs[i].profile \in Profile /\ installs[i].mac \in Mac
      /\ DOMAIN installs \subseteq InstallId /\ Live \subseteq DOMAIN installs
  BY <1>1, TableOfRows
<1>3. \A i \in Live : SeenBy(r, i) = installs[i].status
  <2>1. NoId \notin InstallId
    BY DEF NoId, InstallId
  <2> QED
    BY <1>1, <1>2, <2>1 DEF Sees, SeenBy, Live
<1>4. /\ \A m \in Mac : c.host[m] = HostOf(p, m)
      /\ c.menu = {installs[i].mac : i \in {k \in Live : /\ installs[k].profile = HostOf(p, installs[k].mac)
                                                         /\ OffersMenu(r, k)}}
      /\ c.flat = FlatMenu(p)
  BY DEF Dnsmasq, Base
<1>5. ASSUME NEW i \in DOMAIN installs PROVE Spared(c, i)
  <2> SUFFICES ASSUME installs[i].status = "installed", installs[i].mac \in c.menu,
                      c.host[installs[i].mac] = installs[i].profile
               PROVE  FALSE
    BY DEF Spared
  <2>1. PICK k \in Live : /\ installs[k].profile = HostOf(p, installs[k].mac) /\ OffersMenu(r, k)
                          /\ installs[k].mac = installs[i].mac
    BY <1>4
  <2>2. i \in Live
    BY <1>5 DEF Live
  <2>3. k = i
    BY <1>1, <1>2, <1>4, <2>1, <2>2 DEF Indexed
  <2> QED
    BY <1>3, <2>1, <2>3 DEF OffersMenu
<1>6. ASSUME NEW i \in listed \cup RecordsOf(p) PROVE Reserved(c, i)
  <2>1. i \in Live /\ installs[i].mac \in Mac /\ installs[i].profile \in Profile
    BY <1>1, <1>2 DEF Listing, RecordsOf
  <2>2. CASE installs[i].profile = p
    <3>1. i \in RecordsOf(p) /\ installs[i].mac \in MacsOf(p)
      BY <2>1, <2>2 DEF RecordsOf, MacsOf
    <3>2. c.host[installs[i].mac] = p
      BY <1>1, <1>4, <2>1, <3>1, HostIsAProfile
    <3>3. c.flat = Refuse
      BY <1>4, <3>1 DEF FlatMenu
    <3> QED
      BY <1>2, <2>1, <2>2, <3>2, <3>3 DEF Reserved
  <2>3. CASE installs[i].profile # p
    <3> DEFINE q == installs[i].profile
               m == installs[i].mac
    <3>1. i \in listed
      BY <2>3 DEF RecordsOf
    <3>2. q \in deployed /\ q \in profiles
      BY <1>1, <2>1, <3>1 DEF Listing, Kept
    <3>3. i \in RecordsOf(q) /\ m \in MacsOf(q)
      BY <2>1 DEF RecordsOf, MacsOf
    <3>4. q \in Merged(p)
      BY <2>3, <3>2, <3>3 DEF Others
    <3>5. HostOf(p, m) # NoId
      BY <1>1, <2>1, <3>3, <3>4, HostIsAProfile
    <3>6. m \in MacsOf(HostOf(p, m))
      BY <1>1, <2>1, <3>5, HostIsAProfile
    <3>7. PICK k \in Live : installs[k].profile = HostOf(p, m) /\ installs[k].mac = m
      BY <3>6 DEF MacsOf, RecordsOf
    <3>8. c.flat = Refuse
      BY <1>4, <3>4 DEF FlatMenu
    <3>9. c.host[m] = HostOf(p, m)
      BY <1>4, <2>1
    <3>10. \E j \in DOMAIN installs : installs[j].mac = installs[i].mac /\ installs[j].profile = c.host[installs[i].mac]
      BY <1>2, <3>7, <3>9
    <3> QED
      BY <3>8, <3>10 DEF Reserved
  <2> QED
    BY <2>2, <2>3
<1>7. ASSUME NEW i \in DOMAIN installs PROVE Sent(c, i)
  <2> SUFFICES ASSUME installs[i].status = "pending", c.host[installs[i].mac] = installs[i].profile
               PROVE  installs[i].mac \in c.menu
    BY DEF Sent
  <2>1. i \in Live
    BY <1>7 DEF Live
  <2>2. installs[i].profile = HostOf(p, installs[i].mac)
    BY <1>2, <1>4, <2>1
  <2>3. OffersMenu(r, i)
    BY <1>3, <2>1 DEF OffersMenu
  <2> QED
    BY <1>4, <2>1, <2>2, <2>3
<1> QED
  BY <1>5, <1>6, <1>7

LEMMA GenerateKeeps == ASSUME Inv, NEW r \in Request, Generate(r) PROVE Inv'
<1>0. PICK p, files, c, sound, read :
        /\ p = req[r].profile
        /\ files = {<<i, SeenBy(r, i)>> : i \in RecordsOf(p)}
        /\ c = Dnsmasq(r, p)
        /\ sound = (req[r].sound /\ Merged(p) = Others(p))
        /\ read = Len(installs)
  OBVIOUS
<1> DEFINE h == [Idle EXCEPT !.at = "publish", !.operator = req[r].operator, !.profile = p,
                             !.sound = sound, !.read = read, !.files = files, !.conf = c]
<1>1. /\ req[r].at = "generate"
      /\ GoesOn(r, h, {}) \/ Answer(r, {})
      /\ UNCHANGED <<mishaps, profiles, sealed, installs, deployed, web, conf, begun, listed, current, clean>>
  BY <1>0 DEF Generate, database, disk, history
<1>2. Typed /\ Indexed /\ Listing /\ req[r] \in Handler /\ req \in [Request -> Handler]
  BY DEF Inv, Typed
<1>3. /\ p \in Profile /\ req[r].status \in {"pending", "installed"} /\ req[r].sound \in BOOLEAN
      /\ req[r].operator \in BOOLEAN /\ sound \in BOOLEAN
  BY <1>0, <1>2 DEF Handler
<1>4. /\ \A i \in DOMAIN installs : installs[i].status \in {"pending", "installed", "gone"}
      /\ DOMAIN installs \subseteq InstallId /\ Live \subseteq DOMAIN installs
      /\ read \in 0..MaxRecords /\ 1..read = DOMAIN installs
  <2>1. Len(installs) <= MaxRecords
    BY <1>2 DEF Typed
  <2> QED
    BY <1>0, <1>2, <2>1, TableOfRows
<1>5. files \subseteq InstallId \X {"pending", "installed"}
  <2>1. ASSUME NEW i \in RecordsOf(p) PROVE i \in InstallId /\ SeenBy(r, i) \in {"pending", "installed"}
    BY <1>3, <1>4 DEF RecordsOf, SeenBy, Live
  <2> QED
    BY <1>0, <2>1
<1>6. c \in Conf
  BY <1>0, <1>2, <1>3, Generated
<1>7. \A f \in files : f[1] \in RecordsOf(p)
  BY <1>0
<1>8. Of(files) \subseteq RecordsOf(p)
  BY <1>7 DEF Of
<1>9. \A f, g \in files : f[1] = g[1] => f = g
  BY <1>0
<1>10. /\ h \in Handler /\ h.at = "publish" /\ h.sound = sound /\ h.profile = p /\ h.files = files
       /\ h.conf = c /\ h.read = read
  BY <1>3, <1>4, <1>5, <1>6, IdleFields DEF Idle, Handler
<1> HIDE DEF h
<1>11. Indexed' /\ Kept' /\ Listing' /\ NamesKept
  BY <1>1, <1>2, SameRecords DEF Listing
<1>12. req' \in [Request -> Handler] /\ \A q \in Request : Handled(q)'
  <2>1. CASE Answer(r, {})
    BY <1>1, <2>1, AnswerLeaves
  <2>2. CASE GoesOn(r, h, {})
    <3>1. /\ req' \in [Request -> Handler] /\ req'[r] = h
          /\ \A q \in Request \ {r} : Handled(q)'
      BY <1>1, <1>10, <2>2, GoingOn
    <3>5. Sees(r)' /\ Saving(r)'
      BY <1>10, <3>1 DEF Sees, Saving
    <3>6. Filed(r)'
      <4>1. \A i \in RecordsOf(p) : i \in Live /\ installs[i].profile = p /\ i \in DOMAIN installs
        BY <1>4 DEF RecordsOf
      <4>2. \A f, g \in files : installs[f[1]].mac = installs[g[1]].mac => f = g
        BY <1>2, <1>7, <1>9, <4>1 DEF Indexed
      <4> QED
        BY <1>1, <1>4, <1>7, <1>10, <3>1, <4>1, <4>2 DEF Filed
    <3>7. Prepared(r)'
      <4> SUFFICES ASSUME sound
                   PROVE  /\ \A i \in DOMAIN installs : Spared(c, i)'
                          /\ \A i \in listed \cup Of(files) : Reserved(c, i)'
                          /\ \A i \in 1..read \cup Of(files) : Sent(c, i)'
        BY <1>1, <1>10, <3>1 DEF Prepared
      <4>1. /\ \A i \in DOMAIN installs : Spared(c, i)
            /\ \A i \in listed \cup RecordsOf(p) : Reserved(c, i)
            /\ \A i \in DOMAIN installs : Sent(c, i)
        <5>1. req[r].sound /\ Merged(p) = Others(p) /\ c = Dnsmasq(r, p)
          BY <1>0
        <5> QED
          BY <1>1, <1>3, <5>1, GeneratedIsGood
      <4>2. 1..read \cup Of(files) \subseteq DOMAIN installs /\ Of(files) \subseteq RecordsOf(p)
        BY <1>4, <1>8 DEF RecordsOf
      <4> QED
        BY <1>1, <4>1, <4>2 DEF Spared, Reserved, Sent
    <3> QED
      BY <3>1, <3>5, <3>6, <3>7 DEF Handled
  <2> QED
    BY <1>1, <2>1, <2>2
<1>13. Given' /\ Calls'
  BY <1>1, <1>11, StillGiven
<1>14. Typed'
  BY <1>1, <1>2, <1>12 DEF Typed
<1> QED
  BY <1>11, <1>12, <1>13, <1>14 DEF Inv

-----------------------------------------------------------------------------
(* Handlers write.                                                         *)

\* The file of a machine that a deployment has a record of calls back for that record, if
\* it waits; any other file stays.
LEMMA WhatIsWritten ==
  ASSUME Typed, NEW r \in Request, Filed(r), NEW old, NEW m \in Mac
  PROVE  /\ \A f \in req[r].files : installs[f[1]].mac = m =>
              Written(req[r].profile, req[r].files, old)[m] = Callback(f)
         /\ (\A f \in req[r].files : installs[f[1]].mac # m) =>
              Written(req[r].profile, req[r].files, old)[m] = old[m]
<1> DEFINE files == req[r].files
           some == CHOOSE f \in files : installs[f[1]].mac = m
<1>1. Written(req[r].profile, files, old)[m]
        = IF \E f \in files : installs[f[1]].mac = m THEN Callback(some) ELSE old[m]
  BY DEF Written
<1>2. ASSUME NEW f \in files, installs[f[1]].mac = m PROVE some = f
  <2>1. some \in files /\ installs[some[1]].mac = m
    BY <1>2
  <2> HIDE DEF some
  <2> QED
    BY <1>2, <2>1 DEF Filed
<1> HIDE DEF some
<1> QED
  BY <1>1, <1>2

\* What a deployment leaves behind: if it was not outdated, everything in force is good.
LEMMA WriteLeaves ==
  ASSUME Inv, NEW r \in Request, req[r].at = "publish", WriteFiles(r),
         UNCHANGED <<profiles, installs, deployed, listed>>
  PROVE  /\ web' \in [Profile -> [Mac -> DOMAIN installs \cup {NoId, NoFile}]]
         /\ conf' \in Conf /\ clean' \in BOOLEAN /\ current' \subseteq DOMAIN installs
         /\ Indexed' /\ Kept' /\ Listing' /\ Given' /\ Calls'
         /\ clean' => \A i \in Of(req[r].files) : Reserved(conf, i)'
<1>0. PICK h : h = req[r]
  OBVIOUS
<1>1. /\ web' = [web EXCEPT ![h.profile] = Written(h.profile, h.files, @)]
      /\ conf' = h.conf /\ clean' = h.sound
      /\ current' = {i \in current : i <= h.read /\ installs[i].profile # h.profile}
                      \cup (IF h.sound THEN InForce(h.files) ELSE {})
  BY <1>0 DEF WriteFiles
<1>2. /\ Typed /\ Indexed /\ Kept /\ Listing /\ Calls /\ h \in Handler
      /\ Filed(r) /\ Prepared(r)
  BY <1>0 DEF Inv, Typed, Handled
<1>3. h.profile \in Profile /\ h.conf \in Conf /\ h.sound \in BOOLEAN
  BY <1>2 DEF Handler
<1>4. web \in [Profile -> [Mac -> DOMAIN installs \cup {NoId, NoFile}]]
  BY <1>2 DEF Typed
<1> DEFINE new == Written(h.profile, h.files, web[h.profile])
<1>5. web' = [web EXCEPT ![h.profile] = new]
  BY <1>1
<1>6. ASSUME NEW m \in Mac
      PROVE  /\ \A f \in h.files : installs[f[1]].mac = m => new[m] = Callback(f)
             /\ (\A f \in h.files : installs[f[1]].mac # m) => new[m] = web[h.profile][m]
  BY <1>0, <1>2, WhatIsWritten
<1>7. \A f \in h.files : f[1] \in DOMAIN installs /\ installs[f[1]].profile = h.profile
  BY <1>0, <1>2 DEF Filed
<1>8. \A f \in h.files : Callback(f) = f[1] \/ Callback(f) = NoId
  BY DEF Callback
<1>9. DOMAIN new = Mac /\ new = [m \in Mac |-> new[m]]
  BY DEF Written
<1> HIDE DEF new
<1>10. \A m \in Mac : new[m] \in DOMAIN installs \cup {NoId, NoFile}
  BY <1>3, <1>4, <1>6, <1>7, <1>8
<1>11. web' \in [Profile -> [Mac -> DOMAIN installs \cup {NoId, NoFile}]]
  <2>1. new \in [Mac -> DOMAIN installs \cup {NoId, NoFile}]
    BY <1>9, <1>10
  <2> QED
    BY <1>3, <1>4, <1>5, <2>1
<1>12. current' \subseteq 1..h.read \cup Of(h.files) /\ current' \subseteq DOMAIN installs
  <2>1. InForce(h.files) \subseteq Of(h.files) /\ Of(h.files) \subseteq DOMAIN installs
    BY <1>7 DEF InForce, Of
  <2>2. current \subseteq DOMAIN installs
    BY <1>2 DEF Typed
  <2>3. \A i \in DOMAIN installs : i <= h.read => i \in 1..h.read
    BY <1>2, TableOfRows
  <2> QED
    BY <1>1, <2>1, <2>2, <2>3
<1>13. Live' = Live
  BY DEF Live
<1>14. Indexed'
  <2>1. ASSUME NEW s \in Profile, NEW m \in Mac, web'[s][m] \in InstallId
        PROVE  installs[web'[s][m]].profile = s /\ installs[web'[s][m]].mac = m
    <3>1. CASE s # h.profile \/ \A f \in h.files : installs[f[1]].mac # m
      <4>1. web'[s][m] = web[s][m]
        BY <1>3, <1>4, <1>5, <1>6, <3>1
      <4> QED
        BY <1>2, <2>1, <4>1 DEF Indexed
    <3>2. CASE s = h.profile /\ \E f \in h.files : installs[f[1]].mac = m
      <4>1. PICK f \in h.files : installs[f[1]].mac = m
        BY <3>2
      <4>2. web'[s][m] = Callback(f)
        BY <1>3, <1>4, <1>5, <1>6, <3>2, <4>1
      <4>3. web'[s][m] = f[1]
        BY <1>8, <2>1, <4>2 DEF InstallId, NoId
      <4> QED
        BY <1>7, <3>2, <4>1, <4>3
    <3> QED
      BY <3>1, <3>2
  <2> QED
    BY <1>2, <1>13, <2>1 DEF Indexed
<1>15. Kept' /\ Listing'
  BY <1>2, <1>13 DEF Kept, Listing
<1>16. ASSUME h.sound
       PROVE  /\ \A i \in DOMAIN installs : Spared(h.conf, i)
              /\ \A i \in listed \cup Of(h.files) : Reserved(h.conf, i)
              /\ \A i \in 1..h.read \cup Of(h.files) : Sent(h.conf, i)
  BY <1>0, <1>2, <1>16 DEF Prepared
<1>17. clean' => \A i \in Of(h.files) : Reserved(conf, i)'
  BY <1>1, <1>16 DEF Reserved
<1>18. Given'
  <2> SUFFICES ASSUME h.sound
               PROVE  /\ \A i \in current' : Spared(conf, i)' /\ Sent(conf, i)'
                      /\ \A i \in listed : Reserved(conf, i)'
    BY <1>1 DEF Given
  <2> QED
    BY <1>1, <1>12, <1>16 DEF Spared, Sent, Reserved
<1>19. Calls'
  <2>1. ASSUME NEW i \in current', installs[i].status = "pending"
        PROVE  web'[installs[i].profile][installs[i].mac] = i
    <3>1. i \in DOMAIN installs /\ installs[i].profile \in Profile /\ installs[i].mac \in Mac
      BY <1>2, <1>12, TableOfRows
    <3>2. CASE installs[i].profile # h.profile
      <4>1. i \in current
        BY <1>1, <1>7, <3>2 DEF InForce
      <4>2. web'[installs[i].profile] = web[installs[i].profile]
        BY <1>4, <1>5, <3>1, <3>2
      <4> QED
        BY <1>2, <2>1, <4>1, <4>2 DEF Calls
    <3>3. CASE installs[i].profile = h.profile
      <4>1. i \in InForce(h.files)
        BY <1>1, <3>1, <3>3
      <4>2. PICK g \in h.files : installs[g[1]].status = g[2] /\ g[1] = i
        BY <4>1 DEF InForce
      <4>3. Callback(g) = i
        BY <2>1, <4>2 DEF Callback
      <4>4. web'[h.profile] = new
        BY <1>3, <1>4, <1>5
      <4> QED
        BY <1>6, <3>1, <3>3, <4>2, <4>3, <4>4
    <3> QED
      BY <3>2, <3>3
  <2> QED
    BY <2>1 DEF Calls
<1> QED
  BY <1>0, <1>1, <1>3, <1>11, <1>12, <1>14, <1>15, <1>16, <1>17, <1>18, <1>19

LEMMA PublishKeeps == ASSUME Inv, NEW r \in Request, Publish(r) PROVE Inv'
<1>0. PICK p, files : p = req[r].profile /\ files = req[r].files
  OBVIOUS
<1> DEFINE h == [Idle EXCEPT !.at = "save", !.profile = p, !.files = files]
<1>1. /\ req[r].at = "publish" /\ WriteFiles(r)
      /\ GoesOn(r, h, Unsaved) \/ Answer(r, Unsaved)
      /\ UNCHANGED <<mishaps, profiles, sealed, installs, deployed, begun, listed>>
  BY <1>0 DEF Publish, database
<1>2. Typed /\ req[r] \in Handler /\ req \in [Request -> Handler] /\ Filed(r)
  BY DEF Inv, Typed, Handled
<1>3. h \in Handler /\ h.at = "save" /\ h.profile = p /\ h.files = files
      /\ h.read = 0
  <2>1. p \in Profile /\ files \subseteq InstallId \X {"pending", "installed"}
    BY <1>0, <1>2 DEF Handler
  <2> QED
    BY <2>1, IdleFields DEF Idle, Handler
<1> HIDE DEF h
<1>4. /\ web' \in [Profile -> [Mac -> DOMAIN installs \cup {NoId, NoFile}]]
      /\ conf' \in Conf /\ clean' \in BOOLEAN /\ current' \subseteq DOMAIN installs
      /\ Indexed' /\ Kept' /\ Listing' /\ Given' /\ Calls'
  BY <1>1, WriteLeaves
<1>7. clean' => \A i \in Of(files) : Reserved(conf, i)'
  <2>1. clean' => \A i \in Of(req[r].files) : Reserved(conf, i)'
    BY <1>1, WriteLeaves
  <2> QED
    BY <1>0, <2>1
<1>5. req' \in [Request -> Handler] /\ \A q \in Request : Handled(q)'
  <2>1. CASE Answer(r, Unsaved)
    BY <1>1, <2>1, AnswerLeaves
  <2>2. CASE GoesOn(r, h, Unsaved)
    <3>1. /\ req' \in [Request -> Handler] /\ req'[r] = h
          /\ \A q \in Request \ {r} : Handled(q)'
      BY <1>1, <1>3, <2>2, GoingOn
    <3>5. Sees(r)' /\ Prepared(r)' /\ Saving(r)'
      BY <1>3, <1>7, <3>1 DEF Sees, Prepared, Saving
    <3>6. Filed(r)'
      BY <1>0, <1>1, <1>2, <1>3, <3>1 DEF Filed
    <3> QED
      BY <3>1, <3>5, <3>6 DEF Handled
  <2> QED
    BY <1>1, <2>1, <2>2
<1>6. Typed'
  BY <1>1, <1>2, <1>4, <1>5 DEF Typed
<1> QED
  BY <1>4, <1>5, <1>6 DEF Inv

LEMMA PublishUnconfirmedKeeps == ASSUME Inv, NEW r \in Request, PublishUnconfirmed(r) PROVE Inv'
<1>1. /\ req[r].at = "publish" /\ WriteFiles(r) /\ Answer(r, Unsaved) /\ mishaps < MaxMishaps /\ mishaps' = mishaps + 1
      /\ UNCHANGED <<profiles, sealed, installs, deployed, begun, listed>>
  BY DEF PublishUnconfirmed, Mishap, database
<1>2. /\ web' \in [Profile -> [Mac -> DOMAIN installs \cup {NoId, NoFile}]]
      /\ conf' \in Conf /\ clean' \in BOOLEAN /\ current' \subseteq DOMAIN installs
      /\ Indexed' /\ Kept' /\ Listing' /\ Given' /\ Calls'
  BY <1>1, WriteLeaves
<1>3. req' \in [Request -> Handler] /\ \A q \in Request : Handled(q)'
  BY <1>1, AnswerLeaves
<1>4. Typed'
  BY <1>1, <1>2, <1>3 DEF Inv, Typed
<1> QED
  BY <1>2, <1>3, <1>4 DEF Inv

LEMMA EndsKeep == ASSUME Inv, NEW r \in Request, Refused(r) \/ NotSaved(r) PROVE Inv'
<1>1. /\ req[r].at # "idle" /\ Answer(r, {}) /\ mishaps < MaxMishaps /\ mishaps' = mishaps + 1
      /\ UNCHANGED <<profiles, sealed, installs, deployed, web, conf, begun, listed, current, clean>>
  BY DEF Refused, NotSaved, Mishap, database, disk, history
<1>2. req' \in [Request -> Handler] /\ \A q \in Request : Handled(q)'
  BY <1>1, AnswerLeaves
<1>3. Indexed' /\ Kept' /\ Listing' /\ NamesKept
  BY <1>1, SameRecords DEF Inv, Listing
<1>4. Given' /\ Calls'
  BY <1>1, <1>3, StillGiven
<1>5. Typed'
  BY <1>1, <1>2 DEF Inv, Typed
<1> QED
  BY <1>2, <1>3, <1>4, <1>5 DEF Inv

\* A deployment is saved, and its records count as listed.
LEMMA SaveKeeps == ASSUME Inv, NEW r \in Request, Save(r) PROVE Inv'
<1> DEFINE news == {f[1] : f \in {g \in req[r].files : installs[g[1]].status # "gone"}}
<1> DEFINE outdated == IF listed' = listed THEN {} ELSE Unpublished
<1>1. /\ req[r].at = "save" /\ Answer(r, outdated)
      /\ deployed' = deployed \cup {req[r].profile} /\ listed' = listed \cup news
      /\ clean' = (clean /\ req[r].sound)
      /\ UNCHANGED <<mishaps, profiles, sealed, installs, web, conf, begun, current>>
  BY DEF Save, database, disk
<1>2. /\ Typed /\ Listing /\ Given /\ Calls /\ Filed(r) /\ Saving(r)
      /\ req[r].profile \in Profile /\ req[r].sound \in BOOLEAN
  BY DEF Inv, Typed, Handled, Handler
<1>3. /\ \A i \in news : i \in Live /\ installs[i].profile = req[r].profile /\ i \in DOMAIN installs
      /\ news \subseteq Of(req[r].files)
  BY <1>2 DEF Filed, Live, Of
<1> HIDE DEF news
<1>4. Indexed' /\ Kept' /\ Listing' /\ NamesKept
  <2>1. \A i \in listed' : i \in Live /\ installs[i].profile \in deployed'
    BY <1>1, <1>2, <1>3 DEF Listing
  <2> QED
    BY <1>1, <2>1, SameRecords
<1>5. req' \in [Request -> Handler] /\ \A q \in Request : Handled(q)'
  <2>1. listed' \subseteq listed \/ Unpublished \subseteq outdated
    OBVIOUS
  <2> HIDE DEF outdated
  <2> QED
    BY <1>1, <2>1, AnswerLeaves
<1> HIDE DEF outdated
<1>6. Given'
  <2> SUFFICES ASSUME clean, req[r].sound
               PROVE  /\ \A i \in current : Spared(conf, i)' /\ Sent(conf, i)'
                      /\ \A i \in listed \cup news : Reserved(conf, i)'
    BY <1>1 DEF Given
  <2>1. /\ \A i \in current : Spared(conf, i) /\ Sent(conf, i)
        /\ \A i \in listed \cup news : Reserved(conf, i)
    BY <1>1, <1>2, <1>3 DEF Given, Saving
  <2> QED
    BY <1>1, <2>1 DEF Spared, Sent, Reserved
<1>7. Calls'
  BY <1>1, <1>2 DEF Calls
<1>8. Typed'
  BY <1>1, <1>2, <1>3, <1>5 DEF Typed
<1> QED
  BY <1>4, <1>5, <1>6, <1>7, <1>8 DEF Inv

-----------------------------------------------------------------------------
(* Theorems.                                                               *)

LEMMA InvStep == Inv /\ [InstallNext]_installVars => Inv'
<1> SUFFICES ASSUME Inv, [InstallNext]_installVars PROVE Inv'
  OBVIOUS
<1>1. ASSUME NEW p \in Profile, Seal(p) \/ DeleteProfile(p) PROVE Inv'
  BY <1>1, SealKeeps, DeleteProfileKeeps
<1>2. ASSUME NEW p \in Profile, NEW m \in Mac, CreateInstall(p, m) PROVE Inv'
  BY <1>2, CreateInstallKeeps
<1>3. ASSUME NEW i \in InstallId, DeleteInstall(i) PROVE Inv'
  BY <1>3, DeleteInstallKeeps
<1>4. ASSUME NEW r \in Request, NEW p \in Profile, DeployToHost(r, p) PROVE Inv'
  BY <1>4, DeployToHostKeeps
<1>5. ASSUME NEW r \in Request, NEW i \in InstallId, Finish(r, i) \/ Reset(r, i) PROVE Inv'
  <2>1. PICK status \in {"pending", "installed"} : SetInstallStatus(r, i, status)
    BY <1>5 DEF Finish, Reset
  <2> QED
    BY <2>1, SetInstallStatusKeeps
<1>6. ASSUME NEW r \in Request, Handle(r) PROVE Inv'
  <2>1. CASE AutoRedeploy(r)
    BY <2>1, AutoRedeployKeeps
  <2>2. CASE Generate(r)
    BY <2>2, GenerateKeeps
  <2>3. CASE Publish(r)
    BY <2>3, PublishKeeps
  <2>4. CASE PublishUnconfirmed(r)
    BY <2>4, PublishUnconfirmedKeeps
  <2>5. CASE Save(r)
    BY <2>5, SaveKeeps
  <2>6. CASE Refused(r) \/ NotSaved(r)
    BY <2>6, EndsKeep
  <2> QED
    BY <1>6, <2>1, <2>2, <2>3, <2>4, <2>5, <2>6 DEF Handle
<1>7. CASE UNCHANGED installVars
  <2>1. UNCHANGED <<profiles, sealed, installs, deployed, web, conf, req, begun, mishaps,
                    listed, current, clean>>
    BY <1>7 DEF installVars, database, disk, history
  <2>2. Typed' /\ Live' = Live
    BY <2>1 DEF Inv, Typed, Live
  <2>3. Indexed' /\ Kept' /\ Listing' /\ NamesKept
    BY <2>1, SameRecords DEF Inv, Listing
  <2>4. Given' /\ Calls'
    BY <2>1, <2>3, StillGiven
  <2>5. \A r \in Request : Handled(r)'
    <3>1. StatesKept
      BY <2>1 DEF StatesKept
    <3> QED
      BY <2>1, <2>3, <3>1, Rests
  <2> QED
    BY <2>2, <2>3, <2>4, <2>5 DEF Inv
<1> QED
  BY <1>1, <1>2, <1>3, <1>4, <1>5, <1>6, <1>7 DEF InstallNext

\* Every variable has its values; a machine has one live record in a profile, and a
\* callback on disk or in the hands of a handler is of its own profile (api/pxe.py and
\* the unique index of pxe_installs).
THEOREM RecordsTypeCorrect == InstallSpec => []InstallTypeOK
<1>1. Inv => InstallTypeOK
  <2> SUFFICES ASSUME Inv PROVE InstallTypeOK
    OBVIOUS
  <2>1. Typed /\ Indexed /\ \A r \in Request : Filed(r)
    BY DEF Inv, Handled
  <2>2. \A i, k \in DOMAIN installs :
          "gone" \notin {installs[i].status, installs[k].status} /\ i # k
            => <<installs[i].profile, installs[i].mac>> # <<installs[k].profile, installs[k].mac>>
    BY <2>1 DEF Indexed, Live
  <2>3. web \in [Profile -> [Mac -> InstallId \cup {NoId, NoFile}]]
    <3>1. DOMAIN installs \subseteq InstallId
      BY <2>1, TableOfRows
    <3>2. web \in [Profile -> [Mac -> DOMAIN installs \cup {NoId, NoFile}]]
      BY <2>1 DEF Typed
    <3> QED
      BY <3>1, <3>2
  <2>4. \A r \in Request : /\ req[r] \in Handler
                           /\ \A f \in req[r].files : installs[f[1]].profile = req[r].profile
    BY <2>1 DEF Typed, Filed
  <2> QED
    BY <2>1, <2>2, <2>3, <2>4 DEF InstallTypeOK, Typed, Indexed
<1> QED
  BY <1>1, InvInit, InvStep, PTL DEF InstallSpec

\* A machine that is done is not sent to the installer again, whatever is created, deleted,
\* deployed or called back meanwhile, by any number of handlers whose deployments overlap
\* in any order, as long as none of them writes what was outdated: a record's state set, or
\* a deployment saved, since it read them, or a profile left out that could not be read
\* (_set_install_status, _collect_deployed_extras).
THEOREM DoneIsDone == InstallSpec => []NoSecondInstall
<1>1. Inv => NoSecondInstall
  BY DEF Inv, Given, Spared, NoSecondInstall, Offered
<1> QED
  BY <1>1, InvInit, InvStep, PTL DEF InstallSpec

\* A deployment of one profile takes nothing from the machines of the others: the merging
\* of all deployed profiles keeps every reservation (_collect_deployed_extras, _dnsmasq).
THEOREM MergingKeepsAll == InstallSpec => []NobodyIsForgotten
<1>1. Inv => NobodyIsForgotten
  BY DEF Inv, Given, Reserved, NobodyIsForgotten
<1> QED
  BY <1>1, InvInit, InvStep, PTL DEF InstallSpec

\* A machine that waits gets its own menu, and the answer file behind it calls back for
\* this very record (generate_all, _auto_redeploy).
THEOREM WaitingIsServed == InstallSpec => []InstallEndsTheWaiting
<1>1. Inv => InstallEndsTheWaiting
  BY DEF Inv, Given, Sent, Calls, InstallEndsTheWaiting
<1> QED
  BY <1>1, InvInit, InvStep, PTL DEF InstallSpec
=============================================================================
