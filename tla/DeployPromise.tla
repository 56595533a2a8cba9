---------------------------- MODULE DeployPromise ----------------------------
(***************************************************************************)
(* What a deploy promises the operator, without files, markers or scripts: *)
(* the docstrings of deploy_files ("either the whole set takes effect, or  *)
(* nothing has changed") as a specification.                               *)
(*                                                                         *)
(* Each service serves one text.  A deploy may switch it to the deployed   *)
(* text while it runs; when it ends, it either reports success and the     *)
(* deployed text is served, or it reports a failure and the text in force  *)
(* before is the one still served.                                         *)
(***************************************************************************)
CONSTANTS
  Service,   \* the services that are deployed to
  Text,      \* what they can serve
  NoText     \* no deploy is under way; not a text

VARIABLES
  target,    \* Service -> the text being deployed, or NoText
  inForce,   \* Service -> the text agreed on by the last deploy that succeeded
  served,    \* Service -> the text the running daemon has read
  outcome    \* Service -> what the last deploy reported

promiseVars == <<target, inForce, served, outcome>>

Init ==
  /\ target = [s \in Service |-> NoText]
  /\ inForce \in [Service -> Text]
  /\ served = inForce
  /\ outcome = [s \in Service |-> "none"]

Start(s, c) ==
  /\ target[s] = NoText
  /\ target' = [target EXCEPT ![s] = c]
  /\ outcome' = [outcome EXCEPT ![s] = "none"]
  /\ UNCHANGED <<inForce, served>>

\* The daemon reads the deployed text.
Switch(s) ==
  /\ target[s] # NoText
  /\ served' = [served EXCEPT ![s] = target[s]]
  /\ UNCHANGED <<target, inForce, outcome>>

Succeed(s) ==
  /\ target[s] # NoText
  /\ served[s] = target[s]
  /\ inForce' = [inForce EXCEPT ![s] = target[s]]
  /\ outcome' = [outcome EXCEPT ![s] = "ok"]
  /\ target' = [target EXCEPT ![s] = NoText]
  /\ UNCHANGED served

GiveUp(s) ==
  /\ target[s] # NoText
  /\ served[s] = inForce[s]
  /\ outcome' = [outcome EXCEPT ![s] = "failed"]
  /\ target' = [target EXCEPT ![s] = NoText]
  /\ UNCHANGED <<inForce, served>>

Next ==
  \E s \in Service :
    (\E c \in Text : Start(s, c)) \/ Switch(s) \/ Succeed(s) \/ GiveUp(s)

Spec == Init /\ [][Next]_promiseVars
=============================================================================
