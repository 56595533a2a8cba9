------------------------------- MODULE EnvKeys -------------------------------
(***************************************************************************)
(* The secrets in .env: core/crypto.py (the key of the credentials, the    *)
(* key of the sessions) and core/serve_token.py (a token per static root). *)
(* A secret that is missing is generated once, under a lock between        *)
(* processes, and the whole file is rewritten in place.                    *)
(***************************************************************************)
EXTENDS Naturals, FiniteSets

CONSTANTS
  Process,
  MaxValue,     \* secrets generated or set
  MaxCrashes,   \* processes that end, at any step ...
  TornWrites    \* ... between the truncation and the write too, or not

NoHolder == "nobody"    \* of .env.lock

ASSUME EnvKeysAssumption ==
  /\ MaxValue \in Nat /\ MaxCrashes \in Nat /\ TornWrites \in BOOLEAN
  /\ NoHolder \notin Process

VARIABLES
  file,     \* .env, its lines by key
  lock,     \* who holds .env.lock
  proc,     \* the processes
  settings, \* per process
  fernet,   \* crypto._fernet, per process
  made,     \* the newest value
  used,     \* history: keys that something was encrypted with
  wanted,   \* history: the token that was written last
  crashes

envVars == <<file, lock, proc, settings, fernet, made, used, wanted, crashes>>

Key == {"credential_key", "secret_key", "serve_token"}

None  == 0               \* no line, or an empty one
Bad   == MaxValue + 1    \* a credential_key that is no Fernet key
Value == 0..MaxValue + 1

Rest == {"down", "up"}

Locked == {"reload", "read", "truncate", "write"}

\* At a step, for a key; a value to set, or Bad to generate one; the lines to write.
KeySteps == [at : Rest \cup {"lock"} \cup Locked, key : Key, set : Value, lines : [Key -> Value]]

NoLines == [k \in Key |-> None]

AtRest(at) == [at |-> at, key |-> "secret_key", set |-> Bad, lines |-> NoLines]

\* Of all processes one at most is in the locked part, and it is the holder.
EnvTypeOK ==
  /\ file \in [Key -> Value]
  /\ proc \in [Process -> KeySteps]
  /\ {p \in Process : proc[p].at \in Locked} = {lock} \ {NoHolder}
  /\ settings \in [Process -> [Key -> Value]]
  /\ fernet \in [Process -> 0..MaxValue]
  /\ made \in 0..MaxValue /\ used \subseteq 1..MaxValue /\ wanted \in 0..MaxValue
  /\ crashes \in 0..MaxCrashes

EnvInit ==
  /\ \E v \in {None, Bad} : file = [NoLines EXCEPT !["credential_key"] = v]
  /\ lock = NoHolder
  /\ proc = [p \in Process |-> AtRest("down")]
  /\ settings = [p \in Process |-> NoLines]
  /\ fernet = [p \in Process |-> None]
  /\ made = 0 /\ used = {} /\ wanted = None /\ crashes = 0

-----------------------------------------------------------------------------
Move(p, step) == proc' = [proc EXCEPT ![p] = step]

\* Settings() reads .env without the lock.
Boot(p) ==
  /\ proc[p].at = "down"
  /\ Move(p, AtRest("up"))
  /\ settings' = [settings EXCEPT ![p] = file]
  /\ UNCHANGED <<file, lock, fernet, made, used, wanted, crashes>>

\* _ensure_key, ensure_secret_key, ensure_token of a key that memory lacks.
Ensure(p, k) ==
  /\ proc[p].at = "up" /\ settings[p][k] = None /\ made < MaxValue
  /\ Move(p, [AtRest("lock") EXCEPT !.key = k])
  /\ UNCHANGED <<file, lock, settings, fernet, made, used, wanted, crashes>>

\* set_token, to a token of the operator's or to none.
SetToken(p) ==
  /\ proc[p].at = "up" /\ made < MaxValue
  /\ \E v \in {None, made + 1} :
       /\ Move(p, [AtRest("lock") EXCEPT !.key = "serve_token", !.set = v])
       /\ made' = IF v = None THEN made ELSE v
  /\ UNCHANGED <<file, lock, settings, fernet, used, wanted, crashes>>

\* _env_lock
Acquire(p) ==
  /\ proc[p].at = "lock" /\ lock = NoHolder
  /\ lock' = p
  /\ Move(p, [proc[p] EXCEPT !.at = IF proc[p].set = Bad THEN "reload" ELSE "read"])
  /\ UNCHANGED <<file, settings, fernet, made, used, wanted, crashes>>

\* Of the file's lines, those that _reload_env_keys and _reload take over: the two
\* keys when they are not empty, the scope's own token as it is.
Reloaded(p) ==
  LET over == IF proc[p].key = "serve_token" THEN {"serve_token"}
              ELSE {"credential_key", "secret_key"}
  IN  [k \in Key |-> IF k \in over /\ file[k] # None THEN file[k] ELSE settings[p][k]]

\* Mutant of Reload: memory is not looked at again.
ReloadBlind(p) ==
  /\ proc[p].at = "reload"
  /\ Move(p, [proc[p] EXCEPT !.at = "read"])
  /\ UNCHANGED <<file, lock, settings, fernet, made, used, wanted, crashes>>

\* Somebody else may have written the key while this one waited for the lock.
Reload(p) ==
  /\ proc[p].at = "reload"
  /\ settings' = [settings EXCEPT ![p] = Reloaded(p)]
  /\ IF Reloaded(p)[proc[p].key] # None
     THEN Move(p, AtRest("up")) /\ lock' = NoHolder
     ELSE Move(p, [proc[p] EXCEPT !.at = "read"]) /\ UNCHANGED lock
  /\ UNCHANGED <<file, fernet, made, used, wanted, crashes>>

\* Mutant of Read: the lines this process knows of.
ReadSettings(p) ==
  /\ proc[p].at = "read"
  /\ Move(p, [proc[p] EXCEPT !.at = "truncate", !.lines = settings[p]])
  /\ UNCHANGED <<file, lock, settings, fernet, made, used, wanted, crashes>>

\* _write_env_locked: read the lines, ...
Read(p) ==
  /\ proc[p].at = "read"
  /\ Move(p, [proc[p] EXCEPT !.at = "truncate", !.lines = file])
  /\ UNCHANGED <<file, lock, settings, fernet, made, used, wanted, crashes>>

\* ... open the file anew, which empties it, ...
Truncate(p) ==
  /\ proc[p].at = "truncate"
  /\ file' = NoLines
  /\ Move(p, [proc[p] EXCEPT !.at = "write"])
  /\ UNCHANGED <<lock, settings, fernet, made, used, wanted, crashes>>

\* ... and write them with the key's own line replaced.
Write(p) ==
  /\ proc[p].at = "write"
  /\ proc[p].set = Bad => made < MaxValue
  /\ LET k == proc[p].key
         v == IF proc[p].set = Bad THEN made + 1 ELSE proc[p].set
     IN  /\ file' = [proc[p].lines EXCEPT ![k] = v]
         /\ settings' = [settings EXCEPT ![p][k] = v]
         /\ made' = IF v > made THEN v ELSE made
         /\ wanted' = IF k = "serve_token" THEN v ELSE wanted
  /\ lock' = NoHolder
  /\ Move(p, AtRest("up"))
  /\ UNCHANGED <<fernet, used, crashes>>

\* encrypt and decrypt: the cipher is built once.  A key that is none raises.
UseKey(p) ==
  /\ proc[p].at = "up"
  /\ LET key == IF fernet[p] # None THEN fernet[p] ELSE settings[p]["credential_key"]
     IN  /\ key \notin {None, Bad}
         /\ fernet' = [fernet EXCEPT ![p] = key]
         /\ used' = used \cup {key}
  /\ UNCHANGED <<file, lock, proc, settings, made, wanted, crashes>>

\* A process ends; the kernel releases its lock.
Crash(p) ==
  /\ proc[p].at # "down" /\ crashes < MaxCrashes
  /\ proc[p].at = "write" => TornWrites
  /\ crashes' = crashes + 1
  /\ lock' = IF lock = p THEN NoHolder ELSE lock
  /\ Move(p, AtRest("down"))
  /\ settings' = [settings EXCEPT ![p] = NoLines]
  /\ fernet' = [fernet EXCEPT ![p] = None]
  /\ UNCHANGED <<file, made, used, wanted>>

EnvNext ==
  \E p \in Process :
    \/ Boot(p) \/ SetToken(p) \/ Acquire(p) \/ Reload(p) \/ Read(p) \/ Truncate(p) \/ Write(p)
    \/ UseKey(p) \/ Crash(p)
    \/ \E k \in Key : Ensure(p, k)

EnvSpec == EnvInit /\ [][EnvNext]_envVars

-----------------------------------------------------------------------------
(* Properties *)

Whole == \A p \in Process : proc[p].at # "write"

\* What one process encrypts every other decrypts, however their first needs of a key
\* meet, and no rewriting of .env loses another's line: at rest the file holds every
\* key that a process goes by, the one key that was ever used to encrypt, and the
\* token written last (_ensure_key, _write_env_locked).
NothingLost ==
  Whole =>
    /\ \A p \in Process, k \in {"credential_key", "secret_key"} :
         settings[p][k] # None => file[k] = settings[p][k]
    /\ \A v \in used : file["credential_key"] = v
    /\ file["serve_token"] = wanted
=============================================================================
