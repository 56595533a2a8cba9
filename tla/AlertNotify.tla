----------------------------- MODULE AlertNotify -----------------------------
(***************************************************************************)
(* Alerts that leave the house: core/notify/alerts.py, core/oncall.py and  *)
(* the sending loop of core/notify/feishu.py.  Every alert is a coroutine  *)
(* of its own that an inspection has started and does not wait for, so     *)
(* that alerts meet at every await: the deduplication reads the table, the *)
(* on-call platform is asked, the message is sent, the record is written.  *)
(***************************************************************************)
EXTENDS Naturals, FiniteSets, SequencesExt

CONSTANTS
  Alert,        \* the coroutines
  Event,        \* deduplication keys: a metric of a device
  Person,       \* who may be on duty
  MaxTime,      \* the behaviours' length, in units of time
  Window,       \* notify_dedup_window
  TTL,          \* _CACHE_TTL, for how long an on-call answer is kept
  Timeout,      \* oncall_timeout
  MaxAttempts,  \* _MAX_ATTEMPTS, to send one message
  MaxFaults     \* database errors and restarts of the program

Nobody == "nobody"    \* no member to mention: @all, or no mention at all

ASSUME AlertAssumption ==
  /\ MaxTime \in Nat /\ Window \in Nat \ {0} /\ TTL \in Nat \ {0}
  /\ Timeout \in Nat /\ MaxAttempts \in Nat \ {0} /\ MaxFaults \in Nat
  /\ Nobody \notin Person /\ IsFiniteSet(Alert)

VARIABLES
  now,
  duty,       \* who was on duty, at each moment up to now
  rows,       \* the table notifications, oldest first
  cache,      \* oncall._cache, for the configured team
  alert,      \* the coroutines
  faults,
  suppressed, \* history: what each alert came to
  met         \* history: events with two alerts under way at a time

vars == <<now, duty, rows, cache, alert, faults, suppressed, met>>

Time == 0..MaxTime

Steps == {"new", "select", "merge", "lookup", "asked", "previous", "send", "record", "ended"}

\* A coroutine: its key, the start of its window, the record it merges into, the
\* moment it asked the platform, whom it mentions, the merges it reports.
Coroutine == [at : Steps, event : Event, since : Time, row : Nat, asked : Time,
              target : Person \cup {Nobody}, said : Nat, attempts : 0..MaxAttempts, ok : BOOLEAN]

Row == [event : Event, ok : BOOLEAN, created : Time, merged : Nat, said : Nat,
        target : Person \cup {Nobody}]

Outcomes == {"pending", "sent", "merged", "lost"}

TypeOK ==
  /\ now \in Time
  /\ duty \in [0..now -> Person]
  /\ rows \in Seq(Row) /\ Len(rows) <= Cardinality(Alert)
  /\ cache \in [until : 0..MaxTime + TTL, target : Person \cup {Nobody}]
  /\ alert \in [Alert -> Coroutine]
  /\ \A a \in Alert : alert[a].at = "merge" => alert[a].row \in DOMAIN rows
  /\ faults \in 0..MaxFaults
  /\ suppressed \in [Alert -> Outcomes]
  /\ met \subseteq Event

New(at, e, since) ==
  [at |-> at, event |-> e, since |-> since, row |-> 0, asked |-> 0,
   target |-> Nobody, said |-> 0, attempts |-> 0, ok |-> FALSE]

Init ==
  /\ now = 0 /\ duty \in [0..0 -> Person]
  /\ rows = <<>>
  /\ cache = [until |-> 0, target |-> Nobody]
  /\ \E e \in Event : alert = [a \in Alert |-> New("new", e, 0)]
  /\ faults = 0
  /\ suppressed = [a \in Alert |-> "pending"]
  /\ met = {}

-----------------------------------------------------------------------------
Under(a) == alert[a].at \notin {"new", "ended"}

\* The newest record of e that counts as sent; 0 if there is none.
Newest(e, Rows) ==
  LET ours == {i \in Rows : rows[i].event = e /\ rows[i].ok}
  IN  IF ours = {} THEN 0 ELSE CHOOSE i \in ours : \A j \in ours : j <= i

Within(since) == {i \in DOMAIN rows : rows[i].created >= since}

Become(a, c) == alert' = [alert EXCEPT ![a] = c]

End(a, outcome) ==
  /\ alert' = [alert EXCEPT ![a] = New("ended", alert[a].event, 0)]
  /\ suppressed' = [suppressed EXCEPT ![a] = outcome]

\* schedule_background(notify_alert(...)) with notifications enabled.  The window
\* is reckoned from here, before the first await.
Begin(a, e) ==
  /\ alert[a].at = "new"
  /\ Become(a, New("select", e, IF now > Window THEN now - Window ELSE 0))
  /\ met' = IF \E b \in Alert \ {a} : Under(b) /\ alert[b].event = e THEN met \cup {e} ELSE met
  /\ UNCHANGED <<now, duty, rows, cache, faults, suppressed>>

\* The dedup's SELECT.
Select(a) ==
  /\ alert[a].at = "select"
  /\ LET i == Newest(alert[a].event, Within(alert[a].since))
     IN  Become(a, [alert[a] EXCEPT !.at = IF i = 0 THEN "lookup" ELSE "merge", !.row = i])
  /\ UNCHANGED <<now, duty, rows, cache, faults, suppressed, met>>

\* The dedup's UPDATE ... SET merged_count = merged_count + 1.
Merge(a) ==
  /\ alert[a].at = "merge"
  /\ rows' = [rows EXCEPT ![alert[a].row].merged = @ + 1]
  /\ End(a, "merged")
  /\ UNCHANGED <<now, duty, cache, faults, met>>

\* current_oncall up to its await: a fresh answer from the cache, or a question.
Lookup(a) ==
  /\ alert[a].at = "lookup"
  /\ Become(a, IF now < cache.until
               THEN [alert[a] EXCEPT !.at = "previous", !.target = cache.target, !.asked = now]
               ELSE [alert[a] EXCEPT !.at = "asked", !.asked = now])
  /\ UNCHANGED <<now, duty, rows, cache, faults, suppressed, met>>

\* Mutant of Answered: the answer is kept from its arrival on.
AnsweredKeptFromArrival(a) ==
  /\ alert[a].at = "asked" /\ now <= alert[a].asked + Timeout
  /\ \E u \in alert[a].asked..now :
       /\ Become(a, [alert[a] EXCEPT !.at = "previous", !.target = duty[u]])
       /\ cache' = [until |-> now + TTL, target |-> duty[u]]
  /\ UNCHANGED <<now, duty, rows, faults, suppressed, met>>

\* The answer: whoever was on duty at some moment since the question.  It is kept
\* for TTL from the question on.
Answered(a) ==
  /\ alert[a].at = "asked" /\ now <= alert[a].asked + Timeout
  /\ \E u \in alert[a].asked..now :
       /\ Become(a, [alert[a] EXCEPT !.at = "previous", !.target = duty[u]])
       /\ cache' = [until |-> alert[a].asked + TTL, target |-> duty[u]]
  /\ UNCHANGED <<now, duty, rows, faults, suppressed, met>>

\* Nobody on duty, an error of any kind, no platform, no answer in time: the alert
\* goes out without a name.  Failures are not kept.
Unanswered(a) ==
  /\ alert[a].at = "asked"
  /\ Become(a, [alert[a] EXCEPT !.at = "previous"])
  /\ UNCHANGED <<now, duty, rows, cache, faults, suppressed, met>>

\* Mutant of Previous: only a record in the window is looked at.
PreviousInWindow(a) ==
  /\ alert[a].at = "previous"
  /\ LET i == Newest(alert[a].event, Within(alert[a].since))
     IN  Become(a, [alert[a] EXCEPT !.at = "send", !.asked = 0,
                                         !.said = IF i = 0 THEN 0 ELSE rows[i].merged])
  /\ UNCHANGED <<now, duty, rows, cache, faults, suppressed, met>>

\* _previous_merged_count: of the newest record that was sent, in the window or not.
Previous(a) ==
  /\ alert[a].at = "previous"
  /\ LET i == Newest(alert[a].event, DOMAIN rows)
     IN  Become(a, [alert[a] EXCEPT !.at = "send", !.asked = 0,
                                         !.said = IF i = 0 THEN 0 ELSE rows[i].merged])
  /\ UNCHANGED <<now, duty, rows, cache, faults, suppressed, met>>

\* One round of send_text: sent; an error that may pass, tried again up to
\* MaxAttempts times; an error that will not.  (Its token, fetched
\* first if need be, is one more call that can fail in these ways.)
Attempt(a) ==
  /\ alert[a].at = "send"
  /\ LET tried == [alert[a] EXCEPT !.attempts = @ + 1]
     IN  \/ Become(a, [tried EXCEPT !.at = "record", !.ok = TRUE])
         \/ Become(a, IF tried.attempts < MaxAttempts THEN tried ELSE [tried EXCEPT !.at = "record"])
         \/ Become(a, [tried EXCEPT !.at = "record"])
  /\ UNCHANGED <<now, duty, rows, cache, faults, suppressed, met>>

\* The record, with a count of its own that begins at 0.
Record(a) ==
  /\ alert[a].at = "record"
  /\ rows' = Append(rows, [event |-> alert[a].event, ok |-> alert[a].ok, created |-> now,
                           merged |-> 0, said |-> alert[a].said, target |-> alert[a].target])
  /\ End(a, "sent")
  /\ UNCHANGED <<now, duty, cache, faults, met>>

\* notify_alert swallows what the database throws.
Swallowed(a) ==
  /\ alert[a].at \in {"select", "merge", "previous", "record"} /\ faults < MaxFaults
  /\ faults' = faults + 1
  /\ End(a, "lost")
  /\ UNCHANGED <<now, duty, rows, cache, met>>

\* The program ends and starts again: coroutines and cache are gone.
Restart ==
  /\ faults < MaxFaults
  /\ faults' = faults + 1
  /\ alert' = [a \in Alert |-> IF Under(a) THEN New("ended", alert[a].event, 0) ELSE alert[a]]
  /\ suppressed' = [a \in Alert |-> IF Under(a) THEN "lost" ELSE suppressed[a]]
  /\ cache' = [until |-> 0, target |-> Nobody]
  /\ UNCHANGED <<now, duty, rows, met>>

\* Time passes, and somebody is on duty.
Tick ==
  /\ now < MaxTime
  /\ now' = now + 1
  /\ \E p \in Person : duty' = [u \in 0..now + 1 |-> IF u <= now THEN duty[u] ELSE p]
  /\ UNCHANGED <<rows, cache, alert, faults, suppressed, met>>

Step(a) ==
  \/ Select(a) \/ Merge(a) \/ Lookup(a) \/ Answered(a) \/ Unanswered(a)
  \/ Previous(a) \/ Attempt(a) \/ Record(a)

Next ==
  \/ \E a \in Alert, e \in Event : Begin(a, e)
  \/ \E a \in Alert : Step(a) \/ Swallowed(a)
  \/ Restart \/ Tick

Spec == Init /\ [][Next]_vars

-----------------------------------------------------------------------------
(* Properties *)

Ours(outcome, e) == {a \in Alert : alert[a].event = e /\ suppressed[a] = outcome}

RowsOf(e) == {i \in DOMAIN rows : rows[i].event = e}

MergedIn(S) == FoldSet(LAMBDA i, n : rows[i].merged + n, 0, S)

\* No trigger is dropped from the books, however many of them meet: each one that
\* ended without an error is a record, or one more in the count of a record
\* (_suppress_and_merge counts in place).
EveryTriggerCounted ==
  \A e \in Event :
    /\ Cardinality(RowsOf(e)) = Cardinality(Ours("sent", e))
    /\ MergedIn(RowsOf(e)) = Cardinality(Ours("merged", e))

\* Whoever is mentioned was on duty no longer ago than an answer is kept, whatever
\* the order in which concurrent answers arrive (current_oncall).
OnDutyRecently ==
  \A a \in Alert :
    alert[a].at = "previous" /\ alert[a].target # Nobody
    => \E u \in 0..now : u + TTL > alert[a].asked /\ duty[u] = alert[a].target

\* Alerts of an event that come one after the other: the group gets one message per
\* window, and what was merged into a message is reported by the next one.
QuietAndComplete ==
  \A e \in Event \ met :
    \A i, j \in {k \in RowsOf(e) : rows[k].ok} :
      i < j /\ (\A k \in RowsOf(e) : k \in i + 1..j - 1 => ~rows[k].ok)
      => rows[j].created > rows[i].created + Window /\ rows[j].said = rows[i].merged

\* Whatever triggered an alert is counted, and what is counted is told.
CountedAndTold == EveryTriggerCounted /\ QuietAndComplete
=============================================================================
