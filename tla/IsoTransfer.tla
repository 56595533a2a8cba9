----------------------------- MODULE IsoTransfer -----------------------------
(***************************************************************************)
(* ISO transfers (it/pxe/transfers.py): an image reaches the image         *)
(* directory by a chunked upload from a browser or by a fetch from a       *)
(* mirror.  At most one transfer is registered as running.  The bytes go   *)
(* to .<name>.part, which a transfer that ends well renames to <name>.     *)
(*                                                                         *)
(* Who runs where:                                                         *)
(*   the event loop    upload_init, start_fetch, _fetch_worker, cancel;    *)
(*                     each is one step from one await to the next         *)
(*   threads           upload_chunk and upload_finish, one per request;    *)
(*                     a fetch's _append_chunk; the sweeper                *)
(* A write in a thread is two steps, open and write: the file it has       *)
(* opened may have lost its name, or got the final one, by the time it     *)
(* writes.                                                                 *)
(*                                                                         *)
(* All transfers are for one file name: two names share the slot and       *)
(* nothing else.  An image is Blocks chunks; sizes, digests and the volume *)
(* descriptor are functions of a file's sequence of chunks.                *)
(***************************************************************************)
EXTENDS FiniteSets, Naturals, Sequences

CONSTANTS
  Blocks,         \* chunks of an image
  MaxTransfers,   \* transfers over the model's life
  MaxTorn,        \* torn chunks in a part
  Caller,         \* requests for a chunk or a finish that may be under way
  NoFile,         \* the file is not there
  Allowed         \* unusual meetings that may happen, a set of Meetings

Transfer == 1..MaxTransfers

\* Meetings that a patient operator and an orderly browser do not bring about:
\*   twin     two requests of one upload are under way together
\*   early    a finish is requested before every chunk is acknowledged
\*   rush     a transfer is cancelled or swept while a write of it is under way
\*   probing  one begins while a cancelled fetch still waits for its mirror
\*   overlap  one begins while something else of an earlier one still runs
Meetings == {"twin", "early", "rush", "probing", "overlap"}

Mirror == 0    \* where fetches read from; an upload t's image is t's own

\* A chunk of an image, or what a failed write leaves (index 0).
Chunk == (Transfer \cup {Mirror}) \X (0..Blocks)

ASSUME IsoAssumption ==
  /\ Blocks \in Nat \ {0}
  /\ MaxTransfers \in Nat \ {0}
  /\ MaxTorn \in Nat
  /\ IsFiniteSet(Caller)
  /\ Caller \cap Transfer = {}
  /\ NoFile \notin Seq(Chunk)
  /\ Allowed \subseteq Meetings

VARIABLES
  state,      \* Transfer -> where it stands in the registry
  about,      \* Transfer -> its kind, whether a sha256 was given, whether its length is known
  received,   \* upload -> chunks accounted for
  part,       \* .<name>.part: the chunks in it, or NoFile
  iso,        \* <name>: the same
  call,       \* Caller -> a chunk or finish request under way
  worker,     \* fetch -> the _fetch_worker coroutine
  job,        \* fetch -> its _append_chunk in a thread
  handle,     \* writer -> the file it has open
  sweeping,   \* the upload the sweeper has given up and not yet cleaned up
  publisher,  \* history: the transfer that renamed its part last
  restarted   \* history: the program was restarted

vars == <<state, about, received, part, iso, call, worker, job, handle, sweeping,
          publisher, restarted>>

-----------------------------------------------------------------------------
(* State functions *)

State == {"none", "running", "done", "failed", "canceled", "lost"}

\* sized: an upload declares its size; a mirror's headers (ProbeAnswered) may say where the
\* file ends, by Content-Length or chunks, or not: then a connection that is cut looks like it.
Kind == [kind : {"upload", "fetch"}, sha : BOOLEAN, sized : BOOLEAN]

NoCall == [at |-> "idle", of |-> Mirror, offset |-> 0]

Call == [at : {"idle", "open", "write", "commit", "size", "verify", "publish", "discard"},
         of : Transfer \cup {Mirror}, offset : 0..Blocks]

NoWorker == [at |-> "idle", have |-> 0, resumed |-> FALSE, next |-> 1, hashed |-> <<>>]

Worker == [at : {"idle", "probe", "start", "read", "append", "stopped"},
           have : Nat, resumed : BOOLEAN, next : Nat, hashed : Seq(Chunk)]

NoJob == [at |-> "idle", fresh |-> FALSE, next |-> 1]

Job == [at : {"idle", "open", "write"}, fresh : BOOLEAN, next : Nat]

File == Seq(Chunk) \cup {NoFile}

Handle == {"none", "part", "iso", "gone"}

Writer == Caller \cup Transfer

TypeOK ==
  /\ state \in [Transfer -> State]
  /\ about \in [Transfer -> Kind]
  /\ received \in [Transfer -> 0..Blocks]
  /\ part \in File
  /\ iso \in File
  /\ call \in [Caller -> Call]
  /\ worker \in [Transfer -> Worker]
  /\ job \in [Transfer -> Job]
  /\ handle \in [Writer -> Handle]
  /\ sweeping \in Transfer \cup {0}
  /\ publisher \in Transfer \cup {0}
  /\ restarted \in BOOLEAN

Size(f) == IF f = NoFile THEN 0 ELSE Len(f)

\* What failed writes leave of chunks is never a whole chunk.
Torn(f) == IF f = NoFile THEN {} ELSE {i \in DOMAIN f : f[i][2] = 0}

WholeSize(f) == Size(f) = Blocks /\ Torn(f) = {}

Source(t) == IF about[t].kind = "upload" THEN t ELSE Mirror

\* The image transfer t is meant to deliver.
Image(t) == [i \in 1..Blocks |-> <<Source(t), i>>]

\* check_iso_magic: the first chunk of any image holds a volume descriptor.
IsImage(f) == f # NoFile /\ Len(f) > 0 /\ f[1][2] = 1

\* _busy_transfer
Running == {t \in Transfer : state[t] = "running"}

Calls(t) == {c \in Caller : call[c].at # "idle" /\ call[c].of = t}

ChunkCalls(t) == {c \in Calls(t) : call[c].at \in {"open", "write", "commit"}}

Probing == \E t \in Transfer : worker[t].at = "probe"

OtherwiseAtRest ==
  /\ \A c \in Caller : call[c].at = "idle"
  /\ \A t \in Transfer : worker[t].at \in {"idle", "probe"} /\ job[t].at = "idle"
  /\ sweeping = 0

AtRest == OtherwiseAtRest /\ ~Probing

Init ==
  /\ state = [t \in Transfer |-> "none"]
  /\ about = [t \in Transfer |-> [kind |-> "upload", sha |-> FALSE, sized |-> TRUE]]
  /\ received = [t \in Transfer |-> 0]
  /\ part = NoFile
  /\ iso = NoFile
  /\ call = [c \in Caller |-> NoCall]
  /\ worker = [t \in Transfer |-> NoWorker]
  /\ job = [t \in Transfer |-> NoJob]
  /\ handle = [w \in Writer |-> "none"]
  /\ sweeping = 0
  /\ publisher = 0
  /\ restarted = FALSE

-----------------------------------------------------------------------------
(* Helpers of the actions *)

\* Mutant of Settle: the last one to speak wins.
Overwrite(t, s) == state' = [state EXCEPT ![t] = s]

\* _settle: a final state is written once.
Settle(t, s) == state' = IF state[t] = "running" THEN [state EXCEPT ![t] = s] ELSE state

Moved(from, to) == [w \in Writer |-> IF handle[w] = from THEN to ELSE handle[w]]

\* _silent_remove(part): by name, whosever file it is.
RemovePart == part' = NoFile /\ handle' = Moved("part", "gone")

\* os.replace(part, final)
Rename(t) ==
  /\ iso' = part
  /\ part' = NoFile
  /\ handle' = [w \in Writer |-> CASE handle[w] = "part" -> "iso"
                                   [] handle[w] = "iso"  -> "gone"
                                   [] OTHER -> handle[w]]
  /\ publisher' = t

\* open(part, "ab" or "wb") by writer w: creates the file if it is not there.
Open(w, fresh) ==
  /\ part' = IF fresh \/ part = NoFile THEN <<>> ELSE part
  /\ handle' = [handle EXCEPT ![w] = "part"]

\* A write through an open file: at its end, or, in a file opened fresh, at its
\* start.  The file may have lost its name since.
Written(f, fresh, b) == IF fresh /\ f # <<>> THEN [f EXCEPT ![1] = b] ELSE Append(f, b)

Write(w, fresh, b) ==
  /\ part' = IF handle[w] = "part" THEN Written(part, fresh, b) ELSE part
  /\ iso' = IF handle[w] = "iso" THEN Written(iso, fresh, b) ELSE iso
  /\ handle' = [handle EXCEPT ![w] = "none"]

Goto(c, at) == call' = [call EXCEPT ![c].at = at]

Return(c) == call' = [call EXCEPT ![c] = NoCall]

Only(meeting, when) == when => meeting \in Allowed

FilesUnchanged == UNCHANGED <<part, iso, handle, publisher>>

-----------------------------------------------------------------------------
(* A new transfer *)

\* Mutant of Free: an upload that is running does not count.
FetchesOnly(t) ==
  /\ \A u \in Running : about[u].kind = "upload"
  /\ state[t] = "none"
  /\ \A u \in 1..(t - 1) : state[u] # "none"

\* The slot is free and t is the next identifier.
Free(t) ==
  /\ Running = {}
  /\ state[t] = "none"
  /\ \A u \in 1..(t - 1) : state[u] # "none"

Patient == Only("probing", Probing) /\ Only("overlap", ~OtherwiseAtRest)

\* upload_init: a leftover .part of the name is dropped, an empty one created.
UploadInit(t, sha) ==
  /\ Free(t)
  /\ state' = [state EXCEPT ![t] = "running"]
  /\ about' = [about EXCEPT ![t] = [kind |-> "upload", sha |-> sha, sized |-> TRUE]]
  /\ part' = <<>>
  /\ handle' = Moved("part", "gone")
  /\ Patient
  /\ UNCHANGED <<received, iso, call, worker, job, sweeping, publisher, restarted>>

\* start_fetch up to its first await: registered, then the part's size is taken.
StartFetch(t, sha) ==
  /\ Free(t)
  /\ state' = [state EXCEPT ![t] = "running"]
  /\ about' = [about EXCEPT ![t] = [kind |-> "fetch", sha |-> sha, sized |-> TRUE]]
  /\ worker' = [worker EXCEPT ![t] = [NoWorker EXCEPT !.at = "probe", !.have = Size(part)]]
  /\ Patient
  /\ FilesUnchanged
  /\ UNCHANGED <<received, call, job, sweeping, restarted>>


-----------------------------------------------------------------------------
(* Chunks of an upload *)

\* upload_chunk up to its write: the transfer is running, the offset is the next
\* one and the chunk fits.
ChunkAdmitted(c, t) ==
  /\ call[c].at = "idle"
  /\ state[t] = "running" /\ about[t].kind = "upload"
  /\ received[t] < Blocks
  /\ call' = [call EXCEPT ![c] = [at |-> "open", of |-> t, offset |-> received[t]]]
  /\ Only("twin", Calls(t) # {})
  /\ FilesUnchanged
  /\ UNCHANGED <<state, about, received, worker, job, sweeping, restarted>>

ChunkOpens(c) ==
  /\ call[c].at = "open"
  /\ Open(c, FALSE)
  /\ Goto(c, "write")
  /\ UNCHANGED <<state, about, received, iso, worker, job, sweeping, publisher, restarted>>

ChunkWritten(c) ==
  /\ call[c].at = "write"
  /\ Write(c, FALSE, <<call[c].of, call[c].offset + 1>>)
  /\ Goto(c, "commit")
  /\ UNCHANGED <<state, about, received, worker, job, sweeping, publisher, restarted>>

\* The disk is full: the request ends, with some of the bytes written or none.
ChunkWriteFails(c) ==
  /\ call[c].at = "write"
  /\ \/ Cardinality(Torn(part)) < MaxTorn /\ Write(c, FALSE, <<call[c].of, 0>>)
     \/ handle' = [handle EXCEPT ![c] = "none"] /\ UNCHANGED <<part, iso>>
  /\ Return(c)
  /\ UNCHANGED <<state, about, received, worker, job, sweeping, publisher, restarted>>

\* The second locked section of upload_chunk.  If another request has accounted
\* for this offset, the part is cut back to what is accounted for.
ChunkCommitted(c) ==
  LET t == call[c].of IN
  /\ call[c].at = "commit"
  /\ \/ /\ received[t] = call[c].offset
        /\ received' = [received EXCEPT ![t] = @ + 1]
        /\ UNCHANGED part
     \/ /\ received[t] # call[c].offset
        /\ part' = IF Size(part) > received[t] THEN SubSeq(part, 1, received[t]) ELSE part
        /\ UNCHANGED received
  /\ Return(c)
  /\ UNCHANGED <<state, about, iso, worker, job, handle, sweeping, publisher, restarted>>

-----------------------------------------------------------------------------
(* The end of an upload *)

\* upload_finish: the transfer is running.
FinishBegins(c, t) ==
  /\ call[c].at = "idle"
  /\ state[t] = "running" /\ about[t].kind = "upload"
  /\ call' = [call EXCEPT ![c] = [at |-> "size", of |-> t, offset |-> 0]]
  /\ Only("twin", Calls(t) # {})
  /\ Only("early", received[t] < Blocks)
  /\ FilesUnchanged
  /\ UNCHANGED <<state, about, received, worker, job, sweeping, restarted>>

\* _fail: the state is settled first, the part removed after that, without the lock.
FinishFails(c) == Settle(call[c].of, "failed") /\ Goto(c, "discard")

FinishSize(c) ==
  /\ call[c].at = "size"
  /\ \/ WholeSize(part) /\ Goto(c, "verify") /\ UNCHANGED state
     \/ ~WholeSize(part) /\ FinishFails(c)
  /\ FilesUnchanged
  /\ UNCHANGED <<about, received, worker, job, sweeping, restarted>>

\* Volume descriptor, then the sha256 of the file if one was given.
FinishVerify(c) ==
  LET t == call[c].of
      ok == IsImage(part) /\ (about[t].sha => part = Image(t)) IN
  /\ call[c].at = "verify"
  /\ \/ ok /\ Goto(c, "publish") /\ UNCHANGED state
     \/ ~ok /\ FinishFails(c)
  /\ FilesUnchanged
  /\ UNCHANGED <<about, received, worker, job, sweeping, restarted>>

\* Mutant of FinishPublish: the state is not looked at again.
PublishAnyway(c) ==
  LET t == call[c].of IN
  /\ call[c].at = "publish"
  /\ \/ part # NoFile /\ Rename(t) /\ Settle(t, "done") /\ Return(c)
     \/ part = NoFile /\ FinishFails(c) /\ FilesUnchanged
  /\ received' = [received EXCEPT ![t] = Blocks]
  /\ UNCHANGED <<about, worker, job, sweeping, restarted>>

\* The last locked section: if nobody ended the transfer meanwhile, rename.
FinishPublish(c) ==
  LET t == call[c].of IN
  /\ call[c].at = "publish"
  /\ \/ /\ state[t] # "running"
        /\ Return(c)
        /\ FilesUnchanged
        /\ UNCHANGED <<state, received>>
     \/ /\ state[t] = "running" /\ part # NoFile
        /\ Rename(t)
        /\ Settle(t, "done")
        /\ received' = [received EXCEPT ![t] = Blocks]
        /\ Return(c)
     \/ /\ state[t] = "running" /\ part = NoFile
        /\ FinishFails(c)
        /\ FilesUnchanged
        /\ UNCHANGED received
  /\ UNCHANGED <<about, worker, job, sweeping, restarted>>

FinishDiscards(c) ==
  /\ call[c].at = "discard"
  /\ RemovePart
  /\ Return(c)
  /\ UNCHANGED <<state, about, received, iso, worker, job, sweeping, publisher, restarted>>

-----------------------------------------------------------------------------
(* A fetch *)

\* Mutant of ProbeFails: an error nobody caught leaves the transfer running.
ProbeForgotten(t) ==
  /\ worker[t].at = "probe"
  /\ worker' = [worker EXCEPT ![t] = NoWorker]
  /\ FilesUnchanged
  /\ UNCHANGED <<state, about, received, call, job, sweeping, restarted>>

\* No connection, an HTTP error, no room.  A part found there stays for later.
ProbeFails(t) ==
  /\ worker[t].at = "probe"
  /\ Settle(t, "failed")
  /\ worker' = [worker EXCEPT ![t] = NoWorker]
  /\ FilesUnchanged
  /\ UNCHANGED <<about, received, call, job, sweeping, restarted>>

\* The headers are there (206, or 200, or 416 and then 200), with a length or
\* without one, and the worker's task is created, whatever became of the transfer meanwhile.
ProbeAnswered(t) ==
  /\ worker[t].at = "probe"
  /\ \E resumed \in BOOLEAN :
       /\ resumed => worker[t].have \in 1..(Blocks - 1)
       /\ worker' = [worker EXCEPT ![t].at = "start", ![t].resumed = resumed,
                                   ![t].next = IF resumed THEN worker[t].have + 1 ELSE 1]
  /\ \E sized \in BOOLEAN : about' = [about EXCEPT ![t].sized = sized]
  /\ FilesUnchanged
  /\ UNCHANGED <<state, received, call, job, sweeping, restarted>>

\* Mutant of WorkerStarts: what was there before is not hashed.
HashForgotten(t) ==
  /\ worker[t].at = "start"
  /\ worker' = [worker EXCEPT ![t].at = "read",
                              ![t].resumed = worker[t].resumed /\ part # NoFile,
                              ![t].hashed = [i \in 1..(worker[t].next - 1) |-> <<Mirror, i>>]]
  /\ FilesUnchanged
  /\ UNCHANGED <<state, about, received, call, job, sweeping, restarted>>

\* _fetch_worker up to its first read: a resumed part is hashed as it is now.
WorkerStarts(t) ==
  LET exists == worker[t].resumed /\ part # NoFile IN
  /\ worker[t].at = "start"
  /\ worker' = [worker EXCEPT ![t].at = "read", ![t].resumed = exists,
                              ![t].hashed = IF exists THEN part ELSE <<>>]
  /\ FilesUnchanged
  /\ UNCHANGED <<state, about, received, call, job, sweeping, restarted>>

\* A chunk has come: its write is given to a thread.  resumed now says whether
\* the next write appends ("ab") or starts the file afresh ("wb").
ChunkRead(t) ==
  /\ worker[t].at = "read"
  /\ state[t] # "canceled"
  /\ worker[t].next <= Blocks
  /\ job[t].at = "idle"
  /\ job' = [job EXCEPT ![t] = [at |-> "open", fresh |-> ~worker[t].resumed,
                                next |-> worker[t].next]]
  /\ worker' = [worker EXCEPT ![t].at = "append", ![t].resumed = TRUE]
  /\ FilesUnchanged
  /\ UNCHANGED <<state, about, received, call, sweeping, restarted>>

JobOpens(t) ==
  /\ job[t].at = "open"
  /\ Open(t, job[t].fresh)
  /\ job' = [job EXCEPT ![t].at = "write"]
  /\ UNCHANGED <<state, about, received, iso, call, worker, sweeping, publisher, restarted>>

\* The thread ends; a worker that still waits for it goes on.
JobWrites(t) ==
  LET b == <<Mirror, job[t].next>> IN
  /\ job[t].at = "write"
  /\ Write(t, job[t].fresh, b)
  /\ job' = [job EXCEPT ![t] = NoJob]
  /\ worker' = IF worker[t].at # "append" THEN worker
               ELSE [worker EXCEPT ![t].at = "read", ![t].next = @ + 1,
                                   ![t].hashed = Append(@, b)]
  /\ UNCHANGED <<state, about, received, call, sweeping, publisher, restarted>>

\* The stream has come to its end: sha256 of what was hashed, volume descriptor, rename.
\* received is compared with nothing: if the mirror does not say where the file ends,
\* wherever the stream ends is the end of the file (here, between two chunks).
FetchCompletes(t) ==
  /\ worker[t].at = "read"
  /\ state[t] # "canceled"
  /\ about[t].sized => worker[t].next > Blocks
  /\ \/ /\ about[t].sha => worker[t].hashed = Image(t)
        /\ IsImage(part)
        /\ Rename(t)
        /\ Settle(t, "done")
     \/ /\ ~IsImage(part) \/ (about[t].sha /\ worker[t].hashed # Image(t))
        /\ Settle(t, "failed")
        /\ RemovePart
        /\ UNCHANGED <<iso, publisher>>
  /\ worker' = [worker EXCEPT ![t] = NoWorker]
  /\ UNCHANGED <<about, received, call, job, sweeping, restarted>>

\* The stream breaks and the client notices, the disk is full, there is no more room.
FetchBreaks(t) ==
  /\ worker[t].at = "read"
  /\ Settle(t, "failed")
  /\ RemovePart
  /\ worker' = [worker EXCEPT ![t] = NoWorker]
  /\ UNCHANGED <<about, received, iso, call, job, sweeping, publisher, restarted>>

\* The worker sees cancel_flag, or CancelledError reaches it; finally removes
\* the part of that name.
FetchStops(t) ==
  /\ \/ worker[t].at = "stopped"
     \/ worker[t].at = "read" /\ state[t] = "canceled"
  /\ Settle(t, "canceled")
  /\ RemovePart
  /\ worker' = [worker EXCEPT ![t] = NoWorker]
  /\ UNCHANGED <<about, received, iso, call, job, sweeping, publisher, restarted>>

-----------------------------------------------------------------------------
(* Cancelling, sweeping, restarting *)

\* task.cancel(): a task that has not run yet never gets to its finally; a probe
\* has no task; any other is stopped at its await.
TaskCancelled(t) ==
  worker' = CASE worker[t].at = "start"               -> [worker EXCEPT ![t] = NoWorker]
              [] worker[t].at \in {"read", "append"}  -> [worker EXCEPT ![t].at = "stopped"]
              [] OTHER                                -> worker

\* Mutant of Cancel: the part is left for the worker to remove.
CancelKeepsPart(t) ==
  /\ state[t] = "running"
  /\ Settle(t, "canceled")
  /\ TaskCancelled(t)
  /\ Only("rush", ChunkCalls(t) # {} \/ job[t].at # "idle")
  /\ FilesUnchanged
  /\ UNCHANGED <<about, received, call, job, sweeping, restarted>>

\* cancel_transfer
Cancel(t) ==
  /\ state[t] = "running"
  /\ Settle(t, "canceled")
  /\ RemovePart
  /\ TaskCancelled(t)
  /\ Only("rush", ChunkCalls(t) # {} \/ job[t].at # "idle")
  /\ UNCHANGED <<about, received, iso, call, job, sweeping, publisher, restarted>>

\* sweep_stale_sessions: an upload that was quiet for 30 minutes.
Sweep(t) ==
  /\ state[t] = "running" /\ about[t].kind = "upload"
  /\ sweeping = 0
  /\ Settle(t, "canceled")
  /\ sweeping' = t
  /\ Only("rush", ChunkCalls(t) # {})
  /\ FilesUnchanged
  /\ UNCHANGED <<about, received, call, worker, job, restarted>>

SweepRemoves ==
  /\ sweeping # 0
  /\ RemovePart
  /\ sweeping' = 0
  /\ UNCHANGED <<state, about, received, iso, call, worker, job, publisher, restarted>>

\* The program ends and starts again: the registry is empty, files stay.
Restart ==
  /\ ~restarted
  /\ restarted' = TRUE
  /\ state' = [t \in Transfer |-> IF state[t] = "running" THEN "lost" ELSE state[t]]
  /\ call' = [c \in Caller |-> NoCall]
  /\ worker' = [t \in Transfer |-> NoWorker]
  /\ job' = [t \in Transfer |-> NoJob]
  /\ handle' = [w \in Writer |-> "none"]
  /\ sweeping' = 0
  /\ UNCHANGED <<about, received, part, iso, publisher>>

-----------------------------------------------------------------------------
Request(c) ==
  \/ ChunkOpens(c) \/ ChunkWritten(c) \/ ChunkWriteFails(c) \/ ChunkCommitted(c)
  \/ FinishSize(c) \/ FinishVerify(c) \/ FinishPublish(c) \/ FinishDiscards(c)

Fetch(t) ==
  \/ ProbeFails(t) \/ ProbeAnswered(t) \/ WorkerStarts(t) \/ ChunkRead(t)
  \/ JobOpens(t) \/ JobWrites(t) \/ FetchCompletes(t) \/ FetchBreaks(t) \/ FetchStops(t)

Next ==
  \/ \E t \in Transfer, sha \in BOOLEAN : UploadInit(t, sha) \/ StartFetch(t, sha)
  \/ \E c \in Caller, t \in Transfer : ChunkAdmitted(c, t) \/ FinishBegins(c, t)
  \/ \E c \in Caller : Request(c)
  \/ \E t \in Transfer : Fetch(t) \/ Cancel(t) \/ Sweep(t)
  \/ SweepRemoves
  \/ Restart

Spec == Init /\ [][Next]_vars

\* Threads and the loop run; a mirror answers, breaks off or times out; the
\* sweeper comes round: what it looks at, the time since the last chunk, is not
\* changed by requests that keep failing.  Nobody has to send a chunk, to finish or to cancel.
Fairness ==
  /\ \A c \in Caller : WF_vars(Request(c))
  /\ \A t \in Transfer : WF_vars(Fetch(t)) /\ SF_vars(Sweep(t))
  /\ WF_vars(SweepRemoves)

FairSpec == Spec /\ Fairness

-----------------------------------------------------------------------------
(* Properties that need no patience (any Allowed) *)

\* The end of a transfer is written once: a cancel, a sweep, the worker's finally
\* and a finish racing each other never change a verdict the user has seen
\* (_settle), whatever meets whatever.
VerdictFinal ==
  [][\A t \in Transfer : state[t] \in {"done", "failed", "canceled"} => state'[t] = state[t]]_vars

\* A cancelled or failed transfer is never published, not even by a finish that
\* was already verifying it (upload_finish looks at the state again under the lock).
OnlyDoneIsPublished == publisher # 0 => state[publisher] = "done"

\* The one slot is always given back, by an upload the browser has abandoned as
\* by a fetch whose mirror fails (sweep_stale_sessions, start_fetch's finally).
SlotFreed == \A t \in Transfer : (state[t] = "running") ~> (state[t] # "running")

-----------------------------------------------------------------------------
(* Properties of orderly use (Allowed empty), and what some meetings break *)

\* f is the image of t, or a part of it from its beginning.
Beginning(f, t) == f # NoFile /\ Len(f) \in 1..Blocks /\ \A i \in 1..Len(f) : f[i] = Image(t)[i]

\* A published file is the whole image and nothing else (module docstring 14-16,
\* upload_finish, _fetch_worker).  Without a sha256 this takes a mirror that says how long
\* the file is, and no part that the program's last life has left; from a mirror
\* that does not say it, there is at least nothing else in the file.
PublishedIntact ==
  \A t \in Transfer : state[t] = "done" /\ publisher = t =>
    /\ about[t].kind = "upload" \/ about[t].sha \/ (about[t].sized /\ ~restarted) => iso = Image(t)
    /\ ~restarted => Beginning(iso, t)

\* Half a file is never called .iso: all checks are passed before the renaming (module
\* docstring 14-16, "半截文件绝不叫 .iso").
NeverHalf == iso # NoFile => Size(iso) >= Blocks

\* Every transfer cleans up after itself: when nothing runs, no part is left,
\* whichever way the transfers ended (cancel_transfer, _fail, the worker's finally).
NoLeftover == ~restarted /\ Running = {} /\ AtRest => part = NoFile

\* What an upload has acknowledged to the browser is in its part: the one transfer
\* of the module docstring has ended for good when the next one begins, so that
\* nobody removes or cuts the part of a running upload.
AcknowledgedKept ==
  \A t \in Running :
    about[t].kind = "upload" => part # NoFile /\ Len(part) >= received[t]
=============================================================================
