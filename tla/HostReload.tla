----------------------------- MODULE HostReload -----------------------------
(***************************************************************************)
(* The host side of the dnsmasq reload handshake:                          *)
(*   deploy/host/opstk-dnsmasq-reload.path    an edge trigger on two files *)
(*   deploy/host/opstk-dnsmasq-reload.service one instance at a time       *)
(*   deploy/host/opstk-dnsmasq-reload.sh      test, restart, re-check, tell*)
(* and dnsmasq itself, as far as the script can observe it.                *)
(*                                                                         *)
(* The containers that write the two configuration files are the           *)
(* environment here (module Deploy); this module only offers them the      *)
(* file operations they use: PutConf, DropConf, DropMarker.                *)
(*                                                                         *)
(* Time.  The code compares the second at which a marker was written with  *)
(* the second at which a waiter started (ts >= not_before).  Only the      *)
(* outcome of that comparison matters, and a marker is only ever read by   *)
(* the deployer of its own slot, so a marker carries                       *)
(*   recent : it may still have been written in the current second         *)
(*   fresh  : ts >= not_before of the slot's deployer                      *)
(* instead of a clock: Tick ends the second, StartWaiting takes a new      *)
(* not_before.                                                             *)
(***************************************************************************)
EXTENDS FiniteSets, Naturals

CONSTANTS
  Content,      \* the configuration texts (equivalently: their sha256)
  Rejected,     \* those that dnsmasq --test refuses
  Empty,        \* the 0 byte text: what a truncated file holds
  Absent,       \* the file does not exist; the script records it as "-"
  Unread,       \* no value: an unset shell variable, a missing .dnsmasq-applied
  InitConf,     \* the files at boot, slot by slot
  Hazards       \* what the environment may do, beyond running the protocol

Slot == {"pxe", "ztp"}

\* What a file of /etc/dnsmasq.d can be seen as.
Conf == Content \cup {Absent}

AllHazards ==
  { "overlap",        \* a PXE and a ZTP deploy run at the same time
    "slow",           \* a wait expires while the host is still working
    "torn",           \* a reader sees a file between truncation and write
    "slowstart",      \* dnsmasq needs more than 5 s to become active
    "restartfails",   \* systemctl restart fails for a reason of its own
    "otherrestart",   \* boot, or an operator, restarts dnsmasq
    "writefails" }    \* disk full, I/O error

ASSUME ConstantsAssumption ==
  /\ Rejected \subseteq Content
  /\ Empty \in Content \ Rejected        \* an empty file passes dnsmasq --test
  /\ Absent \notin Content
  /\ Unread \notin Conf
  /\ InitConf \in [Slot -> Conf]
  /\ Hazards \subseteq AllHazards

VARIABLES
  conf,       \* Slot -> Conf: /etc/dnsmasq.d/opstk-{pxe,ztp}.conf
  daemon,     \* dnsmasq: its systemd state and the configuration it has read
  marker,     \* Slot -> the state file .dnsmasq-reload.state[.ztp]
  applied,    \* .dnsmasq-applied: the shas recorded by the last full run
  link,       \* .dnsmasq-reload.link exists: the unit is there, the script has run
  pending,    \* systemd has a start of the service queued
  run,        \* where the script is
  sampled,    \* its sha_pxe and sha_ztp
  vetted,     \* history: the texts reported OK since the marker was removed
  restarted   \* history: dnsmasq was restarted since the slot's last deploy wrote

hostVars == <<conf, daemon, marker, applied, link, pending, run, sampled,
              vetted, restarted>>

-----------------------------------------------------------------------------
(* State functions *)

RunStep == {"idle", "sample_pxe", "sample_ztp", "test", "restart", "await",
            "recheck_pxe", "recheck_ztp", "publish", "record", "vouch"}

Reason == {"missing-conf", "test-failed", "restart-failed", "not-active",
           "config-changed"}

\* Reasons the script can only give before it reaches systemctl restart.
PreRestartReason == {"test-failed", "missing-conf"}

Marker == [st : {"NONE", "OK", "FAIL"}, sha : Conf \cup {Unread},
           reason : Reason \cup {"none"}, recent : BOOLEAN, fresh : BOOLEAN]

NoMarker == [st |-> "NONE", sha |-> Unread, reason |-> "none",
             recent |-> FALSE, fresh |-> FALSE]

Daemon == [state : {"active", "starting", "down"}, loaded : [Slot -> Conf]]

\* dnsmasq --test, and dnsmasq's own start, read the directory as it is now.
Accepted(files) == \A s \in Slot : files[s] \notin Rejected

Quiet == run = "idle" /\ ~pending

HostTypeOK ==
  /\ conf \in [Slot -> Conf]
  /\ daemon \in Daemon
  /\ marker \in [Slot -> Marker]
  /\ applied \in [Slot -> Conf \cup {Unread}]
  /\ link \in BOOLEAN
  /\ pending \in BOOLEAN
  /\ run \in RunStep
  /\ sampled \in [Slot -> Conf \cup {Unread}]
  /\ vetted \in [Slot -> SUBSET (Conf \cup {Unread})]
  /\ restarted \in [Slot -> BOOLEAN]

\* dnsmasq was started at boot from the files that are there; the unit is not
\* installed yet.
HostInit ==
  /\ conf = InitConf
  /\ daemon = [state |-> IF Accepted(InitConf) THEN "active" ELSE "down",
               loaded |-> InitConf]
  /\ marker = [s \in Slot |-> NoMarker]
  /\ applied = [s \in Slot |-> Unread]
  /\ link = FALSE
  /\ pending = FALSE
  /\ run = "idle"
  /\ sampled = [s \in Slot |-> Unread]
  /\ vetted = [s \in Slot |-> {}]
  /\ restarted = [s \in Slot |-> FALSE]

-----------------------------------------------------------------------------
(* What the containers do to the shared directories *)

\* A write in place queues a start of the service, unless a run is in
\* progress: the path unit is edge triggered and systemd drops the event.
Edge == pending' = (pending \/ (link /\ run = "idle"))

PutConf(s, c) == conf' = [conf EXCEPT ![s] = c] /\ Edge

DropConf(s) ==
  /\ conf' = [conf EXCEPT ![s] = Absent]
  /\ (Edge \/ UNCHANGED pending)

\* Mutant of DropMarker: the old marker stays.
KeepMarker(s) ==
  /\ marker' = [marker EXCEPT ![s].fresh = @ /\ marker[s].recent]
  /\ vetted' = [vetted EXCEPT ![s] = {}]

DropMarker(s) ==
  /\ marker' = [marker EXCEPT ![s] = NoMarker]
  /\ vetted' = [vetted EXCEPT ![s] = {}]

\* not_before = int(time.time()) by the deployer of slot s.
StartWaiting(s) == marker' = [marker EXCEPT ![s].fresh = @ /\ marker[s].recent]

\* A wait that ran out took more than a second.
Later(m) == [s \in Slot |-> [m[s] EXCEPT !.recent = FALSE]]

-----------------------------------------------------------------------------
(* The script *)

\* The script's variables end with its process.
Exit == run' = "idle" /\ sampled' = [s \in Slot |-> Unread]

Fail(reason) ==
  /\ marker' = [s \in Slot |-> [st |-> "FAIL", sha |-> Unread, reason |-> reason,
                                recent |-> TRUE, fresh |-> TRUE]]
  /\ Exit

\* Write "OK <sha> <now>" to both slots.
PublishOk ==
  /\ marker' = [s \in Slot |-> [st |-> "OK", sha |-> sampled[s], reason |-> "none",
                                recent |-> TRUE, fresh |-> TRUE]]
  /\ vetted' = [s \in Slot |-> vetted[s] \cup {sampled[s]}]

StartRun ==
  /\ run = "idle" /\ pending
  /\ pending' = FALSE
  /\ link' = TRUE
  /\ run' = "sample_pxe"
  /\ UNCHANGED <<conf, daemon, marker, applied, sampled, vetted, restarted>>

Sample(s, at, next) ==
  /\ run = at
  /\ sampled' = [sampled EXCEPT ![s] = conf[s]]
  /\ run' = next
  /\ UNCHANGED <<conf, daemon, marker, applied, link, pending, vetted, restarted>>

SamplePxe == Sample("pxe", "sample_pxe", "sample_ztp")
SampleZtp == Sample("ztp", "sample_ztp", "test")

MissingConf ==
  /\ run = "test"
  /\ \A s \in Slot : sampled[s] = Absent
  /\ Fail("missing-conf")
  /\ UNCHANGED <<conf, daemon, applied, link, pending, vetted, restarted>>

SomeConf == run = "test" /\ \E s \in Slot : sampled[s] # Absent

\* Mutant of TestFails: dnsmasq is restarted first and tested afterwards.
TestFailsTooLate ==
  /\ SomeConf
  /\ ~Accepted(conf)
  /\ daemon' = [daemon EXCEPT !.state = "down"]
  /\ restarted' = [s \in Slot |-> TRUE]
  /\ Fail("test-failed")
  /\ UNCHANGED <<conf, applied, link, pending, vetted>>

TestFails ==
  /\ SomeConf
  /\ ~Accepted(conf)
  /\ Fail("test-failed")
  /\ UNCHANGED <<conf, daemon, applied, link, pending, vetted, restarted>>

\* Mutant of Unchanged: only the PXE file is compared.
PxeUnchanged == applied["pxe"] = sampled["pxe"] /\ daemon.state = "active"

\* Both files are what the last full run recorded and dnsmasq is active:
\* nothing to restart.
Unchanged == applied = sampled /\ daemon.state = "active"

\* Mutant of TestPasses: dnsmasq --test is not run.
Untested ==
  /\ SomeConf
  /\ run' = IF Unchanged THEN "vouch" ELSE "restart"
  /\ UNCHANGED <<conf, daemon, marker, applied, link, pending, sampled, vetted, restarted>>

TestPasses ==
  /\ SomeConf
  /\ Accepted(conf)
  /\ run' = IF Unchanged THEN "vouch" ELSE "restart"
  /\ UNCHANGED <<conf, daemon, marker, applied, link, pending, sampled, vetted, restarted>>

Vouch ==
  /\ run = "vouch"
  /\ PublishOk
  /\ Exit
  /\ UNCHANGED <<conf, daemon, applied, link, pending, restarted>>

\* systemctl restart: dnsmasq re-reads the whole directory, as it is now.
Restart ==
  /\ run = "restart"
  /\ Accepted(conf)
  /\ daemon' = [state |-> "starting", loaded |-> conf]
  /\ restarted' = [s \in Slot |-> TRUE]
  /\ run' = "await"
  /\ UNCHANGED <<conf, marker, applied, link, pending, sampled, vetted>>

\* The files changed after the test and dnsmasq will not start from them, or
\* systemd refuses the job (the old process may or may not survive that).
RestartFails ==
  /\ run = "restart"
  /\ \/ ~Accepted(conf) /\ daemon' = [daemon EXCEPT !.state = "down"]
     \/ /\ "restartfails" \in Hazards
        /\ daemon' \in {daemon, [daemon EXCEPT !.state = "down"]}
  /\ restarted' = [s \in Slot |-> restarted[s] \/ daemon' # daemon]
  /\ Fail("restart-failed")
  /\ UNCHANGED <<conf, applied, link, pending, vetted>>

BecomesActive ==
  /\ daemon.state = "starting"
  /\ daemon' = [daemon EXCEPT !.state = "active"]
  /\ UNCHANGED <<conf, marker, applied, link, pending, run, sampled, vetted, restarted>>

SeenActive ==
  /\ run = "await"
  /\ daemon.state = "active"
  /\ run' = "recheck_pxe"
  /\ UNCHANGED <<conf, daemon, marker, applied, link, pending, sampled, vetted, restarted>>

NotActive ==
  /\ run = "await"
  /\ daemon.state # "active"
  /\ "slowstart" \in Hazards \/ daemon.state = "down"
  /\ Fail("not-active")
  /\ UNCHANGED <<conf, daemon, applied, link, pending, vetted, restarted>>

Recheck(s, at, next) ==
  /\ run = at
  /\ \/ conf[s] = sampled[s] /\ run' = next /\ UNCHANGED <<marker, sampled>>
     \/ conf[s] # sampled[s] /\ Fail("config-changed")
  /\ UNCHANGED <<conf, daemon, applied, link, pending, vetted, restarted>>

RecheckPxe == Recheck("pxe", "recheck_pxe", "recheck_ztp")
RecheckZtp == Recheck("ztp", "recheck_ztp", "publish")

Publish ==
  /\ run = "publish"
  /\ PublishOk
  /\ run' = "record"
  /\ UNCHANGED <<conf, daemon, applied, link, pending, sampled, restarted>>

Record ==
  /\ run = "record"
  /\ applied' = sampled
  /\ Exit
  /\ UNCHANGED <<conf, daemon, marker, link, pending, vetted, restarted>>

Script ==
  \/ StartRun \/ SamplePxe \/ SampleZtp \/ MissingConf \/ TestFails \/ TestPasses
  \/ Vouch \/ Restart \/ RestartFails \/ SeenActive \/ NotActive
  \/ RecheckPxe \/ RecheckZtp \/ Publish \/ Record

-----------------------------------------------------------------------------
(* The rest of the host *)

Tick ==
  /\ \E s \in Slot : marker[s].recent
  /\ marker' = Later(marker)
  /\ UNCHANGED <<conf, daemon, applied, link, pending, run, sampled, vetted, restarted>>

\* A boot or an operator's systemctl restart: no run of the script.
OtherRestart ==
  /\ "otherrestart" \in Hazards
  /\ daemon' = IF Accepted(conf) THEN [state |-> "active", loaded |-> conf]
                                 ELSE [daemon EXCEPT !.state = "down"]
  /\ daemon' # daemon
  /\ restarted' = [s \in Slot |-> TRUE]
  /\ UNCHANGED <<conf, marker, applied, link, pending, run, sampled, vetted>>

\* install-opstk-dnsmasq-reload.sh touches the two files, so that there is
\* something to watch, and starts the service once by itself.
Install ==
  /\ ~link /\ ~pending
  /\ conf' = [s \in Slot |-> IF conf[s] = Absent THEN Empty ELSE conf[s]]
  /\ pending' = TRUE
  /\ UNCHANGED <<daemon, marker, applied, link, run, sampled, vetted, restarted>>

Host == Script \/ BecomesActive \/ Tick \/ OtherRestart \/ Install
=============================================================================
