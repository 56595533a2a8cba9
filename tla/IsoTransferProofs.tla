------------------------- MODULE IsoTransferProofs -------------------------
(***************************************************************************)
(* Theorems about IsoTransfer, for any number of transfers, requests and   *)
(* chunks: first whichever meetings are allowed, then for orderly use.     *)
(***************************************************************************)
EXTENDS IsoTransfer, TLAPS

USE IsoAssumption DEF Transfer, Mirror, Writer

\* A chunk request is for a chunk of the image, and so is the write of a fetch.
Bounds ==
  /\ \A c \in Caller : call[c].at \in {"open", "write", "commit"} => call[c].offset < Blocks
  /\ \A t \in Transfer : job[t].next <= Blocks

\* Who may act for a transfer: requests for uploads, a worker for a fetch that
\* has not failed and is not done.
Owners ==
  /\ \A c \in Caller : call[c].at # "idle" =>
       /\ call[c].of \in Transfer
       /\ state[call[c].of] # "none"
       /\ about[call[c].of].kind = "upload"
  /\ \A t \in Transfer : worker[t].at # "idle" =>
       /\ state[t] \in {"running", "canceled"}
       /\ about[t].kind = "fetch"

\* An open file is there, whatever its name has become.
HandleSound ==
  \A w \in Writer :
    /\ handle[w] = "part" => part # NoFile
    /\ handle[w] = "iso" => iso # NoFile

Inv == TypeOK /\ Bounds /\ Owners /\ HandleSound

-----------------------------------------------------------------------------
(* What the file operations preserve *)

\* The empty file is a sequence of chunks.
LEMMA Blank == <<>> \in Seq(Chunk)
OBVIOUS

\* Handles whose file was renamed or removed are still handles.
LEMMA MovedTypes ==
  ASSUME TypeOK, NEW from, NEW to \in Handle
  PROVE  Moved(from, to) \in [Writer -> Handle]
BY DEF TypeOK, Moved, Handle

\* Removing the part by name keeps the types (_silent_remove).
LEMMA RemoveTypes ==
  ASSUME TypeOK, RemovePart
  PROVE  part' \in File /\ handle' \in [Writer -> Handle]
BY MovedTypes DEF RemovePart, File, Handle

\* Publishing a part keeps the types (os.replace).
LEMMA RenameTypes ==
  ASSUME TypeOK, NEW t \in Transfer, Rename(t)
  PROVE  /\ part' \in File /\ iso' \in File /\ publisher' \in Transfer \cup {0}
         /\ handle' \in [Writer -> Handle]
<1>1. part' \in File /\ iso' \in File /\ publisher' \in Transfer \cup {0}
  BY DEF TypeOK, Rename, File
<1>2. ASSUME NEW w \in Writer
      PROVE  (CASE handle[w] = "part" -> "iso"
                [] handle[w] = "iso" -> "gone"
                [] OTHER -> handle[w]) \in Handle
  BY DEF TypeOK, Handle
<1>3. handle' \in [Writer -> Handle]
  BY <1>2, Zenon DEF Rename
<1> QED
  BY <1>1, <1>3

\* Opening the part keeps the types (_append_chunk).
LEMMA OpenTypes ==
  ASSUME TypeOK, NEW w \in Writer, NEW fresh \in BOOLEAN, Open(w, fresh)
  PROVE  part' \in File /\ handle' \in [Writer -> Handle]
<1>1. part' \in File
  BY Blank DEF TypeOK, Open, File
<1>2. handle' \in [Writer -> Handle]
  BY DEF TypeOK, Open, Handle
<1> QED
  BY <1>1, <1>2

\* A file that takes a chunk is still a sequence of chunks (_append_chunk).
LEMMA WrittenTypes ==
  ASSUME NEW f \in Seq(Chunk), NEW fresh \in BOOLEAN, NEW b \in Chunk
  PROVE  Written(f, fresh, b) \in Seq(Chunk)
<1>1. Append(f, b) \in Seq(Chunk)
  OBVIOUS
<1>2. [f EXCEPT ![1] = b] \in Seq(Chunk)
  <2>1. PICK n \in Nat : f \in [1..n -> Chunk]
    OBVIOUS
  <2>2. [f EXCEPT ![1] = b] \in [1..n -> Chunk]
    BY <2>1
  <2> QED
    BY <2>2
<1> QED
  BY <1>1, <1>2 DEF Written

\* A part that was just opened is there.
LEMMA OpenSound ==
  ASSUME TypeOK, HandleSound, NEW w \in Writer, NEW fresh \in BOOLEAN,
         Open(w, fresh), iso' = iso
  PROVE  HandleSound'
<1>1. <<>> # NoFile
  BY Blank
<1>2. part' # NoFile
  BY <1>1 DEF Open
<1>3. \A v \in Writer : handle'[v] = handle[v] \/ handle'[v] = "part"
  BY DEF Open, TypeOK
<1> QED
  BY <1>2, <1>3 DEF HandleSound

\* A write through a handle keeps the types of both files (_append_chunk).
LEMMA WriteTypes ==
  ASSUME TypeOK, HandleSound, NEW w \in Writer, NEW fresh \in BOOLEAN, NEW b \in Chunk,
         Write(w, fresh, b)
  PROVE  /\ part' \in File /\ iso' \in File /\ handle' \in [Writer -> Handle]
         /\ HandleSound'
<1>0. \A f \in File : f # NoFile => f \in Seq(Chunk)
  BY ONLY Zenon DEF File
<1>1. handle[w] = "part" => part \in Seq(Chunk)
  BY <1>0 DEF TypeOK, HandleSound
<1>2. handle[w] = "iso" => iso \in Seq(Chunk)
  BY <1>0 DEF TypeOK, HandleSound
<1>3. part' \in File
  BY <1>1, WrittenTypes DEF Write, TypeOK, File
<1>4. iso' \in File
  BY <1>2, WrittenTypes DEF Write, TypeOK, File
<1>5. handle' \in [Writer -> Handle]
  BY DEF Write, TypeOK, Handle
<1>6. (part # NoFile => part' # NoFile) /\ (iso # NoFile => iso' # NoFile)
  BY <1>1, <1>2, WrittenTypes DEF Write
<1>7. \A v \in Writer : handle'[v] = handle[v] \/ handle'[v] = "none"
  BY DEF Write, TypeOK
<1>8. HandleSound'
  BY <1>6, <1>7 DEF HandleSound
<1> QED
  BY <1>3, <1>4, <1>5, <1>8

\* Cutting the part back keeps its type (upload_chunk).
LEMMA CutTypes ==
  ASSUME TypeOK, NEW n \in 0..Blocks, Size(part) > n
  PROVE  SubSeq(part, 1, n) \in File \ {NoFile}
<1>1. part # NoFile /\ Len(part) > n
  BY DEF Size
<1>2. part \in Seq(Chunk)
  BY <1>1 DEF TypeOK, File
<1>3. \A i \in 1..n : part[i] \in Chunk
  BY <1>1, <1>2
<1> QED
  BY <1>1, <1>2, <1>3 DEF File

\* Stopping a task keeps the worker's type (cancel_transfer).
LEMMA CancelTypes ==
  ASSUME TypeOK, NEW t \in Transfer, TaskCancelled(t)
  PROVE  worker' \in [Transfer -> Worker]
<1>1. \/ worker' = [worker EXCEPT ![t] = NoWorker]
      \/ worker' = [worker EXCEPT ![t].at = "stopped"]
      \/ worker' = worker
  BY DEF TaskCancelled
<1>2. worker[t] \in Worker
  BY DEF TypeOK
<1>3. [worker[t] EXCEPT !.at = "stopped"] \in Worker /\ NoWorker \in Worker
  BY ONLY <1>2, Blank DEF Worker, NoWorker
<1> QED
  BY <1>1, <1>3 DEF TypeOK

\* A settled transfer ends once: one that is not running keeps its state (_settle).
LEMMA SettleOnce ==
  ASSUME TypeOK, NEW t \in Transfer, NEW s \in State, Settle(t, s)
  PROVE  /\ state' \in [Transfer -> State]
         /\ \A u \in Transfer : state[u] # "running" \/ u # t => state'[u] = state[u]
         /\ state[t] = "running" => state'[t] = s
BY DEF TypeOK, Settle

\* A request that moves on keeps its transfer and its offset.
LEMMA GotoKeeps ==
  ASSUME TypeOK, NEW c \in Caller,
         NEW at \in {"open", "write", "commit", "size", "verify", "publish", "discard"},
         Goto(c, at)
  PROVE  /\ call' \in [Caller -> Call]
         /\ call'[c] = [at |-> at, of |-> call[c].of, offset |-> call[c].offset]
         /\ \A d \in Caller \ {c} : call'[d] = call[d]
BY DEF TypeOK, Goto, Call

\* A request that returns is idle again, and no other one changes.
LEMMA ReturnKeeps ==
  ASSUME TypeOK, NEW c \in Caller, Return(c)
  PROVE  /\ call' \in [Caller -> Call]
         /\ call'[c] = NoCall
         /\ \A d \in Caller \ {c} : call'[d] = call[d]
BY DEF TypeOK, Return, Call, NoCall

\* The steps of upload_finish before the part is discarded.
FinishStep(c) == FinishSize(c) \/ FinishVerify(c) \/ FinishPublish(c)

\* What such a step does to the registry and to the requests: the transfer may be
\* settled, the request goes on or returns.
Finishing(c) ==
  /\ call' \in [Caller -> Call]
  /\ \A d \in Caller \ {c} : call'[d] = call[d]
  /\ call'[c].at \in {"idle", "verify", "publish", "discard"}
  /\ call'[c].at # "idle" => call'[c].of = call[c].of
  /\ call[c].at # "idle" /\ call[c].of \in Transfer
  /\ state' = state \/ \E s \in {"done", "failed"} : Settle(call[c].of, s)
  /\ UNCHANGED <<about, worker, job>>

\* Each of them has that effect (upload_finish).
LEMMA FinishSteps ==
  ASSUME Inv, NEW c \in Caller, FinishStep(c)
  PROVE  Finishing(c)
<1>1. call[c].at # "idle" /\ call[c].of \in Transfer
  BY DEF FinishStep, FinishSize, FinishVerify, FinishPublish, Inv, Owners
<1>2. state' = state \/ \E s \in {"done", "failed"} : Settle(call[c].of, s)
  BY DEF FinishStep, FinishSize, FinishVerify, FinishPublish, FinishFails
<1>3. UNCHANGED <<about, worker, job>>
  BY DEF FinishStep, FinishSize, FinishVerify, FinishPublish
<1>4. Return(c) \/ Goto(c, "verify") \/ Goto(c, "publish") \/ Goto(c, "discard")
  BY DEF FinishStep, FinishSize, FinishVerify, FinishPublish, FinishFails
<1>5. CASE Return(c)
  BY <1>1, <1>2, <1>3, <1>5, ReturnKeeps DEF Inv, Finishing, NoCall
<1>6. ASSUME NEW at \in {"verify", "publish", "discard"}, Goto(c, at) PROVE Finishing(c)
  <2>1. /\ call' \in [Caller -> Call]
        /\ call'[c] = [at |-> at, of |-> call[c].of, offset |-> call[c].offset]
        /\ \A d \in Caller \ {c} : call'[d] = call[d]
    BY <1>6, GotoKeeps DEF Inv
  <2> QED
    BY <1>1, <1>2, <1>3, <2>1 DEF Finishing
<1> QED
  BY <1>4, <1>5, <1>6

\* A mirror's headers change what is known of the length, nothing else (start_fetch).
LEMMA HeadersKeep ==
  ASSUME Inv, NEW t \in Transfer, ProbeAnswered(t)
  PROVE  /\ about' \in [Transfer -> Kind]
         /\ \A u \in Transfer : about'[u].kind = about[u].kind /\ about'[u].sha = about[u].sha
         /\ \A u \in Transfer \ {t} : about'[u] = about[u]
<1>1. PICK sized \in BOOLEAN : about' = [about EXCEPT ![t].sized = sized]
  BY DEF ProbeAnswered
<1>2. about \in [Transfer -> Kind]
  BY DEF Inv, TypeOK
<1> QED
  BY <1>1, <1>2 DEF Kind

-----------------------------------------------------------------------------
(* Every step preserves the invariant *)

\* No step asks for a chunk beyond the image (upload_chunk, _fetch_worker).
LEMMA BoundsStep ==
  ASSUME Inv, Next
  PROVE  Bounds'
<1> USE DEF Inv, Bounds
<1>1. ASSUME UNCHANGED <<call, job>> PROVE Bounds'
  BY <1>1
<1>2. ASSUME NEW t \in Transfer, NEW sha \in BOOLEAN, UploadInit(t, sha) \/ StartFetch(t, sha)
      PROVE  Bounds'
  BY <1>1, <1>2 DEF UploadInit, StartFetch
<1>3. ASSUME NEW c \in Caller, NEW t \in Transfer, ChunkAdmitted(c, t) PROVE Bounds'
  BY <1>3 DEF ChunkAdmitted, TypeOK
<1>4. ASSUME NEW c \in Caller, NEW t \in Transfer, FinishBegins(c, t) PROVE Bounds'
  BY <1>4 DEF FinishBegins, TypeOK
<1>5. ASSUME NEW c \in Caller, ChunkOpens(c) PROVE Bounds'
  BY <1>5 DEF ChunkOpens, Goto, TypeOK, Call
<1>6. ASSUME NEW c \in Caller, ChunkWritten(c) PROVE Bounds'
  BY <1>6 DEF ChunkWritten, Goto, TypeOK, Call
<1>7. ASSUME NEW c \in Caller, ChunkWriteFails(c) \/ ChunkCommitted(c) \/ FinishDiscards(c)
      PROVE  Bounds'
  <2>1. Return(c) /\ job' = job
    BY <1>7 DEF ChunkWriteFails, ChunkCommitted, FinishDiscards
  <2> QED
    BY <2>1 DEF Return, NoCall, TypeOK
<1>8. ASSUME NEW c \in Caller, FinishStep(c) PROVE Bounds'
  <2>1. Finishing(c)
    BY <1>8, FinishSteps
  <2> QED
    BY <2>1 DEF Finishing
<1>9. ASSUME NEW t \in Transfer, ProbeFails(t) \/ ProbeAnswered(t) \/ WorkerStarts(t)
      PROVE  Bounds'
  BY <1>1, <1>9 DEF ProbeFails, ProbeAnswered, WorkerStarts
<1>10. ASSUME NEW t \in Transfer, ChunkRead(t) PROVE Bounds'
  BY <1>10 DEF ChunkRead, TypeOK
<1>11. ASSUME NEW t \in Transfer, JobOpens(t) PROVE Bounds'
  BY <1>11 DEF JobOpens, TypeOK, Job
<1>12. ASSUME NEW t \in Transfer, JobWrites(t) PROVE Bounds'
  BY <1>12 DEF JobWrites, NoJob, TypeOK
<1>13. ASSUME NEW t \in Transfer, FetchCompletes(t) \/ FetchBreaks(t) \/ FetchStops(t)
       PROVE  Bounds'
  BY <1>1, <1>13 DEF FetchCompletes, FetchBreaks, FetchStops
<1>14. ASSUME NEW t \in Transfer, Cancel(t) \/ Sweep(t) PROVE Bounds'
  BY <1>1, <1>14 DEF Cancel, Sweep
<1>15. ASSUME SweepRemoves PROVE Bounds'
  BY <1>1, <1>15 DEF SweepRemoves
<1>16. ASSUME Restart PROVE Bounds'
  BY <1>16 DEF Restart, NoCall, NoJob
<1> QED
  BY ONLY Next, <1>2, <1>3, <1>4, <1>5, <1>6, <1>7, <1>8, <1>9, <1>10, <1>11, <1>12, <1>13,
     <1>14, <1>15, <1>16 DEF Next, Request, Fetch, FinishStep

\* No step lets a request act for a fetch or a worker for a transfer that is over.
LEMMA OwnersStep ==
  ASSUME Inv, Next
  PROVE  Owners'
<1> USE DEF Inv, Owners
<1>1. ASSUME UNCHANGED <<state, about, call, worker>> PROVE Owners'
  BY <1>1
<1>2. ASSUME NEW t \in Transfer, NEW sha \in BOOLEAN, UploadInit(t, sha) PROVE Owners'
  BY <1>2 DEF UploadInit, Free, TypeOK, Kind
<1>3. ASSUME NEW t \in Transfer, NEW sha \in BOOLEAN, StartFetch(t, sha) PROVE Owners'
  BY <1>3, ZenonT(40) DEF StartFetch, Free, TypeOK, Kind, Worker
<1>4. ASSUME NEW c \in Caller, NEW t \in Transfer, ChunkAdmitted(c, t) \/ FinishBegins(c, t)
      PROVE  Owners'
  <2>1. /\ state[t] = "running" /\ about[t].kind = "upload"
        /\ \E r \in Call : r.of = t /\ call' = [call EXCEPT ![c] = r]
        /\ UNCHANGED <<state, about, worker>>
    BY <1>4 DEF ChunkAdmitted, FinishBegins, TypeOK, Call
  <2> QED
    BY <2>1 DEF TypeOK
<1>5. ASSUME NEW c \in Caller, ChunkOpens(c) \/ ChunkWritten(c) PROVE Owners'
  <2>1. /\ Goto(c, "write") \/ Goto(c, "commit")
        /\ call[c].at # "idle"
        /\ UNCHANGED <<state, about, worker>>
    BY <1>5 DEF ChunkOpens, ChunkWritten
  <2>2. \A d \in Caller : call'[d].of = call[d].of /\ (d # c => call'[d] = call[d])
    BY <2>1 DEF Goto, TypeOK, Call
  <2> QED
    BY <2>1, <2>2
<1>6. ASSUME NEW c \in Caller, ChunkWriteFails(c) \/ ChunkCommitted(c) \/ FinishDiscards(c)
      PROVE  Owners'
  <2>1. Return(c) /\ UNCHANGED <<state, about, worker>>
    BY <1>6 DEF ChunkWriteFails, ChunkCommitted, FinishDiscards
  <2> QED
    BY <2>1 DEF Return, NoCall, TypeOK
<1>7. ASSUME NEW c \in Caller, FinishStep(c) PROVE Owners'
  <2>1. Finishing(c)
    BY <1>7, FinishSteps
  <2>2. call[c].of \in Transfer /\ about[call[c].of].kind = "upload"
    BY <2>1 DEF Finishing
  <2>3. ASSUME NEW u \in Transfer
        PROVE  /\ state[u] # "none" => state'[u] # "none"
               /\ u # call[c].of => state'[u] = state[u]
    BY <2>1, <2>2 DEF Finishing, Settle, TypeOK
  <2> QED
    BY <2>1, <2>2, <2>3 DEF Finishing
<1>8. ASSUME NEW t \in Transfer, NEW s \in {"done", "failed", "canceled"}, Settle(t, s),
             worker' = [worker EXCEPT ![t] = NoWorker], UNCHANGED <<about, call>>
      PROVE  Owners'
  <2>1. ASSUME NEW u \in Transfer
        PROVE  /\ state[u] # "none" => state'[u] # "none"
               /\ u # t => state'[u] = state[u]
    BY <1>8 DEF Settle, TypeOK
  <2> QED
    BY <1>8, <2>1 DEF TypeOK, NoWorker
<1>9. ASSUME NEW t \in Transfer,
             ProbeFails(t) \/ FetchBreaks(t) \/ FetchStops(t) \/ FetchCompletes(t)
      PROVE  Owners'
  BY <1>8, <1>9 DEF ProbeFails, FetchBreaks, FetchStops, FetchCompletes
<1>10. ASSUME NEW t \in Transfer, ProbeAnswered(t) PROVE Owners'
  <2>1. /\ worker[t].at # "idle" /\ UNCHANGED <<state, call>>
        /\ \A u \in Transfer : u # t => worker'[u] = worker[u]
    BY <1>10 DEF ProbeAnswered, TypeOK, Worker
  <2> QED
    BY <1>10, <2>1, HeadersKeep
<1>11. ASSUME NEW t \in Transfer, WorkerStarts(t) PROVE Owners'
  BY <1>11 DEF WorkerStarts, TypeOK, Worker
<1>12. ASSUME NEW t \in Transfer, ChunkRead(t) PROVE Owners'
  BY <1>12 DEF ChunkRead, TypeOK, Worker
<1>13. ASSUME NEW t \in Transfer, JobOpens(t) PROVE Owners'
  BY <1>1, <1>13 DEF JobOpens
<1>14. ASSUME NEW t \in Transfer, JobWrites(t) PROVE Owners'
  BY <1>14 DEF JobWrites, TypeOK, Worker
<1>15. ASSUME NEW t \in Transfer, Cancel(t) PROVE Owners'
  BY <1>15 DEF Cancel, Settle, TaskCancelled, TypeOK, Worker, NoWorker
<1>16. ASSUME NEW t \in Transfer, Sweep(t) PROVE Owners'
  BY <1>16 DEF Sweep, Settle, TypeOK
<1>17. ASSUME SweepRemoves PROVE Owners'
  BY <1>1, <1>17 DEF SweepRemoves
<1>18. ASSUME Restart PROVE Owners'
  BY <1>18 DEF Restart, NoCall, NoWorker
<1> QED
  BY ONLY Next, <1>2, <1>3, <1>4, <1>5, <1>6, <1>7, <1>9, <1>10, <1>11, <1>12, <1>13, <1>14,
     <1>15, <1>16, <1>17, <1>18 DEF Next, Request, Fetch, FinishStep

\* No step takes the file away from under a handle that still has its name.
LEMMA HandleStep ==
  ASSUME Inv, Next
  PROVE  HandleSound'
<1> USE DEF Inv, HandleSound
<1>1. ASSUME UNCHANGED <<part, iso, handle>> PROVE HandleSound'
  BY <1>1
<1>2. ASSUME RemovePart, iso' = iso PROVE HandleSound'
  BY <1>2 DEF RemovePart, Moved, TypeOK
<1>3. ASSUME NEW t \in Transfer, NEW sha \in BOOLEAN, UploadInit(t, sha) PROVE HandleSound'
  BY <1>3 DEF UploadInit, Moved, TypeOK
<1>4. ASSUME NEW t \in Transfer, NEW sha \in BOOLEAN, StartFetch(t, sha) PROVE HandleSound'
  BY <1>1, <1>4 DEF StartFetch, FilesUnchanged
<1>5. ASSUME NEW c \in Caller, NEW t \in Transfer, ChunkAdmitted(c, t) \/ FinishBegins(c, t)
      PROVE  HandleSound'
  BY <1>1, <1>5 DEF ChunkAdmitted, FinishBegins, FilesUnchanged
<1>6. ASSUME NEW c \in Caller, ChunkOpens(c) PROVE HandleSound'
  BY <1>6, OpenSound DEF ChunkOpens
<1>7. ASSUME NEW c \in Caller, ChunkWritten(c) PROVE HandleSound'
  <2>1. <<call[c].of, call[c].offset + 1>> \in Chunk
    BY <1>7 DEF ChunkWritten, Bounds, TypeOK, Call, Chunk
  <2> QED
    BY <1>7, <2>1, WriteTypes DEF ChunkWritten
<1>8. ASSUME NEW c \in Caller, ChunkWriteFails(c) PROVE HandleSound'
  <2>1. <<call[c].of, 0>> \in Chunk
    BY DEF TypeOK, Call, Chunk
  <2>2. CASE Write(c, FALSE, <<call[c].of, 0>>)
    BY <2>1, <2>2, WriteTypes
  <2>3. CASE handle' = [handle EXCEPT ![c] = "none"] /\ UNCHANGED <<part, iso>>
    BY <2>3 DEF TypeOK
  <2> QED
    BY <1>8, <2>2, <2>3 DEF ChunkWriteFails
<1>9. ASSUME NEW c \in Caller, ChunkCommitted(c) PROVE HandleSound'
  <2>1. call[c].of \in Transfer /\ received[call[c].of] \in 0..Blocks
    BY <1>9 DEF ChunkCommitted, Owners, TypeOK
  <2>2. part # NoFile => part' # NoFile
    BY <1>9, <2>1, CutTypes DEF ChunkCommitted
  <2>3. iso' = iso /\ handle' = handle
    BY <1>9 DEF ChunkCommitted
  <2> QED
    BY <2>2, <2>3
<1>10. ASSUME NEW t \in Transfer, Rename(t), part # NoFile PROVE HandleSound'
  BY <1>10 DEF Rename, TypeOK, Handle
<1>11. ASSUME NEW c \in Caller, FinishStep(c) PROVE HandleSound'
  <2>1. FilesUnchanged \/ (Rename(call[c].of) /\ part # NoFile)
    BY <1>11 DEF FinishStep, FinishSize, FinishVerify, FinishPublish
  <2>2. call[c].of \in Transfer
    BY <1>11, FinishSteps DEF Finishing
  <2> QED
    BY <1>1, <1>10, <2>1, <2>2 DEF FilesUnchanged
<1>12. ASSUME NEW c \in Caller, FinishDiscards(c) PROVE HandleSound'
  BY <1>2, <1>12 DEF FinishDiscards
<1>13. ASSUME NEW t \in Transfer,
              ProbeFails(t) \/ ProbeAnswered(t) \/ WorkerStarts(t) \/ ChunkRead(t) \/ Sweep(t)
       PROVE  HandleSound'
  BY <1>1, <1>13 DEF ProbeFails, ProbeAnswered, WorkerStarts, ChunkRead, Sweep, FilesUnchanged
<1>14. ASSUME NEW t \in Transfer, JobOpens(t) PROVE HandleSound'
  <2>1. Open(t, job[t].fresh) /\ job[t].fresh \in BOOLEAN /\ iso' = iso
    BY <1>14 DEF JobOpens, TypeOK, Job
  <2> QED
    BY <2>1, OpenSound
<1>15. ASSUME NEW t \in Transfer, JobWrites(t) PROVE HandleSound'
  <2>1. <<Mirror, job[t].next>> \in Chunk /\ job[t].fresh \in BOOLEAN
    BY DEF Bounds, TypeOK, Job, Chunk
  <2> QED
    BY <1>15, <2>1, WriteTypes DEF JobWrites
<1>16. ASSUME NEW t \in Transfer, FetchCompletes(t) PROVE HandleSound'
  BY <1>2, <1>10, <1>16 DEF FetchCompletes, IsImage
<1>17. ASSUME NEW t \in Transfer, FetchBreaks(t) \/ FetchStops(t) \/ Cancel(t) PROVE HandleSound'
  BY <1>2, <1>17 DEF FetchBreaks, FetchStops, Cancel
<1>18. ASSUME SweepRemoves PROVE HandleSound'
  BY <1>2, <1>18 DEF SweepRemoves
<1>19. ASSUME Restart PROVE HandleSound'
  BY <1>19 DEF Restart
<1> QED
  BY ONLY Next, <1>3, <1>4, <1>5, <1>6, <1>7, <1>8, <1>9, <1>11, <1>12, <1>13, <1>14, <1>15,
     <1>16, <1>17, <1>18, <1>19 DEF Next, Request, Fetch, FinishStep

\* Every step keeps the types.
LEMMA TypeStep ==
  ASSUME Inv, Next
  PROVE  TypeOK'
<1>0. TypeOK
  BY DEF Inv
<1>1. ASSUME NEW t \in Transfer, NEW sha \in BOOLEAN, UploadInit(t, sha) PROVE TypeOK'
  <2>1. state' \in [Transfer -> State]
    BY <1>1, <1>0 DEF UploadInit, TypeOK, State
  <2>2. about' \in [Transfer -> Kind]
    BY <1>1, <1>0 DEF UploadInit, TypeOK, Kind
  <2>3. part' \in File /\ handle' \in [Writer -> Handle]
    BY <1>1, <1>0, MovedTypes, Blank DEF UploadInit, File, Handle
  <2> QED
    BY <1>1, <1>0, <2>1, <2>2, <2>3 DEF UploadInit, TypeOK
<1>2. ASSUME NEW t \in Transfer, NEW sha \in BOOLEAN, StartFetch(t, sha) PROVE TypeOK'
  <2>1. state' \in [Transfer -> State]
    BY <1>2, <1>0 DEF StartFetch, TypeOK, State
  <2>2. about' \in [Transfer -> Kind]
    BY <1>2, <1>0 DEF StartFetch, TypeOK, Kind
  <2>3. Size(part) \in Nat
    BY <1>2, <1>0 DEF Size, TypeOK, File
  <2>4. [NoWorker EXCEPT !.at = "probe", !.have = Size(part)] \in Worker
    BY <1>2, <1>0, <2>3, Blank DEF Worker, NoWorker
  <2>5. worker' \in [Transfer -> Worker]
    BY <1>2, <1>0, <2>4 DEF StartFetch, TypeOK
  <2> QED
    BY <1>2, <1>0, <2>1, <2>2, <2>3, <2>4, <2>5 DEF StartFetch, FilesUnchanged, TypeOK
<1>3. ASSUME NEW c \in Caller, NEW t \in Transfer, ChunkAdmitted(c, t) PROVE TypeOK'
  <2>1. call' \in [Caller -> Call]
    BY <1>3, <1>0 DEF ChunkAdmitted, TypeOK, Call
  <2> QED
    BY <1>3, <1>0, <2>1 DEF ChunkAdmitted, FilesUnchanged, TypeOK
<1>4. ASSUME NEW c \in Caller, NEW t \in Transfer, FinishBegins(c, t) PROVE TypeOK'
  <2>1. call' \in [Caller -> Call]
    BY <1>4, <1>0 DEF FinishBegins, TypeOK, Call
  <2> QED
    BY <1>4, <1>0, <2>1 DEF FinishBegins, FilesUnchanged, TypeOK
<1>5. ASSUME NEW c \in Caller, ChunkOpens(c) PROVE TypeOK'
  <2>1. call' \in [Caller -> Call]
    BY <1>5, <1>0, GotoKeeps DEF ChunkOpens
  <2>2. part' \in File /\ handle' \in [Writer -> Handle]
    BY <1>5, <1>0, OpenTypes DEF ChunkOpens
  <2> QED
    BY <1>5, <1>0, <2>1, <2>2 DEF ChunkOpens, TypeOK
<1>6. ASSUME NEW c \in Caller, ChunkWritten(c) PROVE TypeOK'
  <2>1. call' \in [Caller -> Call]
    BY <1>6, <1>0, GotoKeeps DEF ChunkWritten
  <2>2. <<call[c].of, call[c].offset + 1>> \in Chunk
    BY <1>6, <1>0 DEF ChunkWritten, Inv, Bounds, TypeOK, Call, Chunk
  <2>3. part' \in File /\ iso' \in File /\ handle' \in [Writer -> Handle]
    BY <1>6, <1>0, <2>2, WriteTypes DEF ChunkWritten, Inv
  <2> QED
    BY <1>6, <1>0, <2>1, <2>2, <2>3 DEF ChunkWritten, TypeOK
<1>7. ASSUME NEW c \in Caller, ChunkWriteFails(c) PROVE TypeOK'
  <2>1. call' \in [Caller -> Call]
    BY <1>7, <1>0, ReturnKeeps DEF ChunkWriteFails
  <2>2. <<call[c].of, 0>> \in Chunk
    BY <1>7, <1>0 DEF TypeOK, Call, Chunk
  <2>3. part' \in File /\ iso' \in File /\ handle' \in [Writer -> Handle]
    BY <1>7, <1>0, <2>2, WriteTypes DEF ChunkWriteFails, Inv, TypeOK, Handle
  <2> QED
    BY <1>7, <1>0, <2>1, <2>2, <2>3 DEF ChunkWriteFails, TypeOK
<1>8. ASSUME NEW c \in Caller, ChunkCommitted(c) PROVE TypeOK'
  <2>1. call' \in [Caller -> Call]
    BY <1>8, <1>0, ReturnKeeps DEF ChunkCommitted
  <2>2. call[c].of \in Transfer /\ call[c].offset \in 0..(Blocks - 1)
    BY <1>8, <1>0 DEF ChunkCommitted, Inv, Bounds, Owners, TypeOK, Call
  <2>3. received[call[c].of] \in 0..Blocks
    BY <1>8, <1>0, <2>2 DEF TypeOK
  <2>4. received' = received \/ (received[call[c].of] = call[c].offset /\
          received' = [received EXCEPT ![call[c].of] = call[c].offset + 1])
    BY <1>8, <1>0, <2>2 DEF ChunkCommitted
  <2>5. call[c].offset + 1 \in 0..Blocks
    BY <2>2
  <2>6. received' \in [Transfer -> 0..Blocks]
    BY <1>0, <2>2, <2>4, <2>5, ZenonT(40) DEF TypeOK
  <2>7. part' \in File
    BY <1>8, <1>0, <2>3, CutTypes DEF ChunkCommitted, TypeOK
  <2> QED
    BY <1>8, <1>0, <2>1, <2>6, <2>7 DEF ChunkCommitted, TypeOK
<1>9. ASSUME NEW c \in Caller, FinishStep(c) PROVE TypeOK'
  <2>1. Finishing(c) /\ TypeOK
    BY <1>9, FinishSteps DEF Inv
  <2>2. state' \in [Transfer -> State]
    BY <2>1, SettleOnce DEF Finishing, TypeOK, State, Settle
  <2>3. UNCHANGED <<sweeping, restarted>>
    BY <1>9 DEF FinishStep, FinishSize, FinishVerify, FinishPublish
  <2>4. received' = received \/ received' = [received EXCEPT ![call[c].of] = Blocks]
    BY <1>9 DEF FinishStep, FinishSize, FinishVerify, FinishPublish
  <2>5. received' \in [Transfer -> 0..Blocks]
    BY <2>1, <2>4, Blocks \in 0..Blocks, ZenonT(40) DEF TypeOK
  <2>6. FilesUnchanged \/ Rename(call[c].of)
    BY <1>9 DEF FinishStep, FinishSize, FinishVerify, FinishPublish
  <2>7. /\ part' \in File /\ iso' \in File /\ publisher' \in Transfer \cup {0}
        /\ handle' \in [Writer -> Handle]
    BY <2>1, <2>6, RenameTypes DEF FilesUnchanged, TypeOK, Finishing
  <2> QED
    BY <2>1, <2>2, <2>3, <2>5, <2>7 DEF Finishing, TypeOK
<1>10. ASSUME NEW c \in Caller, FinishDiscards(c) PROVE TypeOK'
  <2>1. call' \in [Caller -> Call]
    BY <1>10, <1>0, ReturnKeeps DEF FinishDiscards
  <2>2. part' \in File /\ handle' \in [Writer -> Handle]
    BY <1>10, <1>0, RemoveTypes DEF FinishDiscards
  <2> QED
    BY <1>10, <1>0, <2>1, <2>2 DEF FinishDiscards, TypeOK
<1>11. ASSUME NEW t \in Transfer, ProbeFails(t) PROVE TypeOK'
  <2>1. state' \in [Transfer -> State]
    BY <1>11, <1>0, SettleOnce DEF ProbeFails, State
  <2>2. worker' \in [Transfer -> Worker]
    BY <1>11, <1>0 DEF ProbeFails, TypeOK, Worker, NoWorker
  <2> QED
    BY <1>11, <1>0, <2>1, <2>2 DEF ProbeFails, FilesUnchanged, TypeOK
<1>12. ASSUME NEW t \in Transfer, ProbeAnswered(t) PROVE TypeOK'
  <2>1. TypeOK /\ worker[t] \in Worker
    BY DEF Inv, TypeOK
  <2>2. PICK r \in BOOLEAN :
          worker' = [worker EXCEPT ![t].at = "start", ![t].resumed = r,
                                   ![t].next = IF r THEN worker[t].have + 1 ELSE 1]
    BY <1>12 DEF ProbeAnswered
  <2>3. (IF r THEN worker[t].have + 1 ELSE 1) \in Nat
    BY <2>1 DEF Worker
  <2>4. \A n \in Nat : [worker[t] EXCEPT !.at = "start", !.resumed = r, !.next = n] \in Worker
    BY <2>1 DEF Worker
  <2>5. worker' \in [Transfer -> Worker]
    BY <2>1, <2>2, <2>3, <2>4 DEF TypeOK
  <2> QED
    BY <1>12, <2>1, <2>5, HeadersKeep DEF ProbeAnswered, FilesUnchanged, TypeOK
<1>13. ASSUME NEW t \in Transfer, WorkerStarts(t) PROVE TypeOK'
  <2>1. part # NoFile => part \in Seq(Chunk)
    BY <1>13, <1>0 DEF TypeOK, File
  <2>2. <<>> \in Seq(Chunk)
    BY Blank
  <2>3. worker[t] \in Worker
    BY <1>13, <1>0 DEF TypeOK
  <2>4. \A r \in BOOLEAN, h \in Seq(Chunk) :
          [worker[t] EXCEPT !.at = "read", !.resumed = r, !.hashed = h] \in Worker
    BY <1>13, <1>0, <2>3 DEF Worker
  <2>5. worker[t].resumed \in BOOLEAN
    BY <1>13, <1>0, <2>3 DEF Worker
  <2>6. worker' \in [Transfer -> Worker]
    BY <1>13, <1>0, <2>1, <2>2, <2>4, <2>5 DEF WorkerStarts, TypeOK
  <2> QED
    BY <1>13, <1>0, <2>1, <2>2, <2>3, <2>4, <2>5, <2>6 DEF WorkerStarts, FilesUnchanged, TypeOK
<1>14. ASSUME NEW t \in Transfer, ChunkRead(t) PROVE TypeOK'
  <2>1. worker[t] \in Worker
    BY <1>14, <1>0 DEF TypeOK
  <2>2. [worker[t] EXCEPT !.at = "append", !.resumed = TRUE] \in Worker
    BY <1>14, <1>0, <2>1 DEF Worker
  <2>3. worker' \in [Transfer -> Worker]
    BY <1>14, <1>0, <2>2 DEF ChunkRead, TypeOK
  <2>4. job' \in [Transfer -> Job]
    BY <1>14, <1>0 DEF ChunkRead, TypeOK, Worker, Job
  <2> QED
    BY <1>14, <1>0, <2>1, <2>2, <2>3, <2>4 DEF ChunkRead, FilesUnchanged, TypeOK
<1>15. ASSUME NEW t \in Transfer, JobOpens(t) PROVE TypeOK'
  <2>1. job' \in [Transfer -> Job]
    BY <1>15, <1>0, SMTT(30) DEF JobOpens, TypeOK, Job
  <2>2. part' \in File /\ handle' \in [Writer -> Handle]
    BY <1>15, <1>0, OpenTypes, ZenonT(40) DEF JobOpens, TypeOK, Job
  <2> QED
    BY <1>15, <1>0, <2>1, <2>2 DEF JobOpens, TypeOK
<1>16. ASSUME NEW t \in Transfer, JobWrites(t) PROVE TypeOK'
  <2>1. job' \in [Transfer -> Job]
    BY <1>16, <1>0 DEF JobWrites, TypeOK, Job, NoJob
  <2>2. <<Mirror, job[t].next>> \in Chunk /\ job[t].fresh \in BOOLEAN
    BY <1>16, <1>0 DEF Inv, Bounds, TypeOK, Job, Chunk
  <2>3. part' \in File /\ iso' \in File /\ handle' \in [Writer -> Handle]
    BY <1>16, <1>0, <2>2, WriteTypes DEF JobWrites, Inv
  <2>4. worker[t].hashed \in Seq(Chunk) /\ worker[t].next \in Nat
    BY <1>16, <1>0 DEF TypeOK, Worker
  <2>5. Append(worker[t].hashed, <<Mirror, job[t].next>>) \in Seq(Chunk)
    BY <1>16, <1>0, <2>2, <2>4
  <2>6. worker[t] \in Worker
    BY <1>16, <1>0 DEF TypeOK
  <2>7. worker[t].next + 1 \in Nat
    BY <1>16, <1>0, <2>4
  <2>8. [worker[t] EXCEPT !.at = "read", !.next = worker[t].next + 1,
            !.hashed = Append(worker[t].hashed, <<Mirror, job[t].next>>)] \in Worker
    BY <1>16, <1>0, <2>4, <2>5, <2>6, <2>7 DEF Worker
  <2>9. worker' \in [Transfer -> Worker]
    BY <1>16, <1>0, <2>8 DEF JobWrites, TypeOK
  <2> QED
    BY <1>16, <1>0, <2>1, <2>2, <2>3, <2>4, <2>5, <2>6, <2>7, <2>8, <2>9 DEF JobWrites, TypeOK
<1>17. ASSUME NEW t \in Transfer, FetchCompletes(t) PROVE TypeOK'
  <2>1. state' \in [Transfer -> State]
    BY <1>17, <1>0, SettleOnce DEF FetchCompletes, State
  <2>2. worker' \in [Transfer -> Worker]
    BY <1>17, <1>0, SMTT(30) DEF FetchCompletes, TypeOK, Worker, NoWorker
  <2>3. part' \in File /\ iso' \in File /\ publisher' \in Transfer \cup {0}
        /\ handle' \in [Writer -> Handle]
    BY <1>17, <1>0, RenameTypes, RemoveTypes DEF FetchCompletes, TypeOK
  <2> QED
    BY <1>17, <1>0, <2>1, <2>2, <2>3 DEF FetchCompletes, TypeOK
<1>18. ASSUME NEW t \in Transfer, FetchBreaks(t) PROVE TypeOK'
  <2>1. state' \in [Transfer -> State]
    BY <1>18, <1>0, SettleOnce DEF FetchBreaks, State
  <2>2. worker' \in [Transfer -> Worker]
    BY <1>18, <1>0, SMTT(30) DEF FetchBreaks, TypeOK, Worker, NoWorker
  <2>3. part' \in File /\ handle' \in [Writer -> Handle]
    BY <1>18, <1>0, RemoveTypes DEF FetchBreaks
  <2> QED
    BY <1>18, <1>0, <2>1, <2>2, <2>3 DEF FetchBreaks, TypeOK
<1>19. ASSUME NEW t \in Transfer, FetchStops(t) PROVE TypeOK'
  <2>1. state' \in [Transfer -> State]
    BY <1>19, <1>0, SettleOnce DEF FetchStops, State
  <2>2. worker' \in [Transfer -> Worker]
    BY <1>19, <1>0, SMTT(30) DEF FetchStops, TypeOK, Worker, NoWorker
  <2>3. part' \in File /\ handle' \in [Writer -> Handle]
    BY <1>19, <1>0, RemoveTypes DEF FetchStops
  <2> QED
    BY <1>19, <1>0, <2>1, <2>2, <2>3 DEF FetchStops, TypeOK
<1>20. ASSUME NEW t \in Transfer, Cancel(t) PROVE TypeOK'
  <2>1. state' \in [Transfer -> State]
    BY <1>20, <1>0, SettleOnce DEF Cancel, State
  <2>2. worker' \in [Transfer -> Worker]
    BY <1>20, <1>0, CancelTypes DEF Cancel
  <2>3. part' \in File /\ handle' \in [Writer -> Handle]
    BY <1>20, <1>0, RemoveTypes DEF Cancel
  <2> QED
    BY <1>20, <1>0, <2>1, <2>2, <2>3 DEF Cancel, TypeOK
<1>21. ASSUME NEW t \in Transfer, Sweep(t) PROVE TypeOK'
  <2>1. state' \in [Transfer -> State]
    BY <1>21, <1>0, SettleOnce DEF Sweep, State
  <2> QED
    BY <1>21, <1>0, <2>1 DEF Sweep, FilesUnchanged, TypeOK
<1>22. ASSUME SweepRemoves PROVE TypeOK'
  <2>1. part' \in File /\ handle' \in [Writer -> Handle]
    BY <1>22, <1>0, RemoveTypes DEF SweepRemoves
  <2> QED
    BY <1>22, <1>0, <2>1 DEF SweepRemoves, TypeOK
<1>23. ASSUME Restart PROVE TypeOK'
  <2>1. state' \in [Transfer -> State]
    BY <1>23, <1>0 DEF Restart, TypeOK, State
  <2>2. call' \in [Caller -> Call]
    BY <1>23, <1>0 DEF Restart, NoCall, Call
  <2>3. worker' \in [Transfer -> Worker] /\ job' \in [Transfer -> Job]
    BY <1>23, <1>0 DEF Restart, NoWorker, NoJob, Worker, Job
  <2>4. handle' \in [Writer -> Handle]
    BY <1>23, <1>0 DEF Restart, Handle
  <2> QED
    BY <1>23, <1>0, <2>1, <2>2, <2>3, <2>4 DEF Restart, TypeOK
<1> QED
  BY ONLY Next, <1>1, <1>2, <1>3, <1>4, <1>5, <1>6, <1>7, <1>8, <1>9, <1>10, <1>11, <1>12,
     <1>13, <1>14, <1>15, <1>16, <1>17, <1>18, <1>19, <1>20, <1>21, <1>22, <1>23
  DEF Next, Request, Fetch, FinishStep

\* The invariant is inductive: it holds at the start and no step breaks it.
LEMMA InvInductive ==
  /\ Init => Inv
  /\ Inv /\ [Next]_vars => Inv'
<1>1. ASSUME Init PROVE Inv
  <2>1. NoWorker \in Worker /\ NoJob \in Job /\ NoCall \in Call
    BY Blank DEF NoWorker, NoJob, NoCall, Worker, Job, Call
  <2>2. TypeOK
    <3>1. /\ call \in [Caller -> Call] /\ worker \in [Transfer -> Worker]
          /\ job \in [Transfer -> Job]
      BY <1>1, <2>1 DEF Init
    <3>2. state \in [Transfer -> State] /\ about \in [Transfer -> Kind]
      BY <1>1 DEF Init, State, Kind
    <3>3. part \in File /\ iso \in File /\ handle \in [Writer -> Handle]
      BY <1>1 DEF Init, File, Handle
    <3>4. received \in [Transfer -> 0..Blocks]
      BY <1>1 DEF Init
    <3> QED
      BY <1>1, <3>1, <3>2, <3>3, <3>4 DEF Init, TypeOK
  <2>3. Bounds /\ Owners /\ HandleSound
    BY <1>1 DEF Init, Bounds, Owners, HandleSound, NoCall, NoWorker, NoJob
  <2> QED
    BY <2>2, <2>3 DEF Inv
<1>2. ASSUME Inv, Next PROVE Inv'
  BY <1>2, TypeStep, BoundsStep, OwnersStep, HandleStep DEF Inv
<1>3. ASSUME Inv, UNCHANGED vars PROVE Inv'
  BY <1>3 DEF vars, Inv, TypeOK, Bounds, Owners, HandleSound
<1> QED
  BY <1>1, <1>2, <1>3

\* The invariant holds in every state.
LEMMA InvHolds == Spec => []Inv
BY InvInductive, PTL DEF Spec

-----------------------------------------------------------------------------
(* Theorems *)

\* The registry, the files and everybody at work on them keep their types.
THEOREM TypeCorrect == Spec => []TypeOK
<1>1. Inv => TypeOK
  BY DEF Inv
<1> QED
  BY <1>1, InvHolds, PTL

\* What a step does to the registry: a transfer begins, the transfers that run
\* end, or one of them is settled (upload_init, start_fetch, a restart, _settle).
Registers ==
  \/ state' = state
  \/ \E t \in Transfer : state[t] = "none" /\ state' = [state EXCEPT ![t] = "running"]
  \/ \E t \in Transfer, s \in {"done", "failed", "canceled"} : Settle(t, s)
  \/ \A t \in Transfer : state'[t] = IF state[t] = "running" THEN "lost" ELSE state[t]

\* No other change of the registry exists.
LEMMA RegisterSteps ==
  ASSUME Inv, Next
  PROVE  Registers
<1>1. ASSUME NEW t \in Transfer, NEW sha \in BOOLEAN, UploadInit(t, sha) \/ StartFetch(t, sha)
      PROVE  Registers
  BY <1>1 DEF UploadInit, StartFetch, Free, Registers
<1>2. ASSUME NEW c \in Caller, NEW t \in Transfer, ChunkAdmitted(c, t) \/ FinishBegins(c, t)
      PROVE  Registers
  BY <1>2 DEF ChunkAdmitted, FinishBegins, Registers
<1>3. ASSUME NEW c \in Caller, ChunkOpens(c) \/ ChunkWritten(c) \/ ChunkWriteFails(c)
      PROVE  Registers
  BY <1>3 DEF ChunkOpens, ChunkWritten, ChunkWriteFails, Registers
<1>4. ASSUME NEW c \in Caller, ChunkCommitted(c) \/ FinishDiscards(c) PROVE Registers
  BY <1>4 DEF ChunkCommitted, FinishDiscards, Registers
<1>5. ASSUME NEW c \in Caller, FinishStep(c) PROVE Registers
  <2>1. Finishing(c)
    BY <1>5, FinishSteps
  <2> QED
    BY <2>1 DEF Finishing, Registers
<1>6. ASSUME NEW t \in Transfer, ProbeAnswered(t) \/ WorkerStarts(t) \/ ChunkRead(t)
      PROVE  Registers
  BY <1>6 DEF ProbeAnswered, WorkerStarts, ChunkRead, Registers
<1>7. ASSUME NEW t \in Transfer, JobOpens(t) \/ JobWrites(t) PROVE Registers
  BY <1>7 DEF JobOpens, JobWrites, Registers
<1>8. ASSUME NEW t \in Transfer, ProbeFails(t) \/ FetchCompletes(t) \/ FetchBreaks(t)
      PROVE  Registers
  BY <1>8 DEF ProbeFails, FetchCompletes, FetchBreaks, Registers
<1>9. ASSUME NEW t \in Transfer, FetchStops(t) \/ Cancel(t) \/ Sweep(t) PROVE Registers
  BY <1>9 DEF FetchStops, Cancel, Sweep, Registers
<1>10. ASSUME SweepRemoves PROVE Registers
  BY <1>10 DEF SweepRemoves, Registers
<1>11. ASSUME Restart PROVE Registers
  BY <1>11 DEF Restart, Registers
<1> QED
  BY <1>1, <1>2, <1>3, <1>4, <1>5, <1>6, <1>7, <1>8, <1>9, <1>10, <1>11
  DEF Next, Request, Fetch, FinishStep

\* None of these changes takes back a verdict (_settle).
LEMMA VerdictStep ==
  ASSUME Inv, Next, NEW t \in Transfer, state[t] \in {"done", "failed", "canceled"}
  PROVE  state'[t] = state[t]
<1>1. state \in [Transfer -> State]
  BY DEF Inv, TypeOK
<1>2. Registers
  BY RegisterSteps
<1> QED
  BY <1>1, <1>2 DEF Registers, Settle

\* A verdict the user has seen never changes, however cancels, sweeps, workers
\* and finishes meet (_settle).
THEOREM VerdictIsFinal == Spec => VerdictFinal
<1>1. Inv /\ [Next]_vars =>
        [\A t \in Transfer : state[t] \in {"done", "failed", "canceled"} => state'[t] = state[t]]_vars
  BY VerdictStep
<1> QED
  BY <1>1, InvHolds, PTL DEF Spec, VerdictFinal

-----------------------------------------------------------------------------
(* Only what is done is published *)

\* What a step does to the final name: nothing, or a transfer that runs renames
\* its part and is done.
Publishes ==
  \/ publisher' = publisher
  \/ \E t \in Transfer : publisher' = t /\ state[t] = "running" /\ Settle(t, "done")

\* No other change of the final name exists (upload_finish, _fetch_worker).
LEMMA PublishSteps ==
  ASSUME Inv, Next
  PROVE  Publishes
<1>1. ASSUME NEW t \in Transfer, NEW sha \in BOOLEAN, UploadInit(t, sha) \/ StartFetch(t, sha)
      PROVE  Publishes
  BY <1>1 DEF UploadInit, StartFetch, FilesUnchanged, Publishes
<1>2. ASSUME NEW c \in Caller, NEW t \in Transfer, ChunkAdmitted(c, t) \/ FinishBegins(c, t)
      PROVE  Publishes
  BY <1>2 DEF ChunkAdmitted, FinishBegins, FilesUnchanged, Publishes
<1>3. ASSUME NEW c \in Caller, ChunkOpens(c) \/ ChunkWritten(c) \/ ChunkWriteFails(c)
      PROVE  Publishes
  BY <1>3 DEF ChunkOpens, ChunkWritten, ChunkWriteFails, Publishes
<1>4. ASSUME NEW c \in Caller, ChunkCommitted(c) \/ FinishDiscards(c) PROVE Publishes
  BY <1>4 DEF ChunkCommitted, FinishDiscards, Publishes
<1>5. ASSUME NEW c \in Caller, FinishStep(c) PROVE Publishes
  <2>1. call[c].of \in Transfer
    BY <1>5, FinishSteps DEF Finishing
  <2> QED
    BY <1>5, <2>1 DEF FinishStep, FinishSize, FinishVerify, FinishPublish, FilesUnchanged, Rename,
                      Publishes
<1>6. ASSUME NEW t \in Transfer, ProbeAnswered(t) \/ WorkerStarts(t) \/ ChunkRead(t)
      PROVE  Publishes
  BY <1>6 DEF ProbeAnswered, WorkerStarts, ChunkRead, FilesUnchanged, Publishes
<1>7. ASSUME NEW t \in Transfer, JobOpens(t) \/ JobWrites(t) PROVE Publishes
  BY <1>7 DEF JobOpens, JobWrites, Publishes
<1>8. ASSUME NEW t \in Transfer, ProbeFails(t) \/ FetchCompletes(t) \/ FetchBreaks(t)
      PROVE  Publishes
  <2>1. CASE FetchCompletes(t)
    <3>1. state[t] = "running"
      BY <2>1 DEF FetchCompletes, Inv, Owners
    <3> QED
      BY <2>1, <3>1 DEF FetchCompletes, Rename, Publishes
  <2> QED
    BY <1>8, <2>1 DEF ProbeFails, FetchBreaks, FilesUnchanged, Publishes
<1>9. ASSUME NEW t \in Transfer, FetchStops(t) \/ Cancel(t) \/ Sweep(t) PROVE Publishes
  BY <1>9 DEF FetchStops, Cancel, Sweep, FilesUnchanged, Publishes
<1>10. ASSUME SweepRemoves PROVE Publishes
  BY <1>10 DEF SweepRemoves, Publishes
<1>11. ASSUME Restart PROVE Publishes
  BY <1>11 DEF Restart, Publishes
<1> QED
  BY <1>1, <1>2, <1>3, <1>4, <1>5, <1>6, <1>7, <1>8, <1>9, <1>10, <1>11
  DEF Next, Request, Fetch, FinishStep

\* A cancelled or failed transfer is never what the final name shows: a finish
\* that was verifying it looks at the state again (upload_finish), and a worker
\* at work has not failed (Owners).
THEOREM PublishedIsDone == Spec => []OnlyDoneIsPublished
<1>1. Init => OnlyDoneIsPublished
  BY DEF Init, OnlyDoneIsPublished
<1>2. ASSUME Inv, OnlyDoneIsPublished, Next PROVE OnlyDoneIsPublished'
  <2>1. state \in [Transfer -> State] /\ publisher \in Transfer \cup {0}
    BY <1>2 DEF Inv, TypeOK
  <2>2. Publishes
    BY <1>2, PublishSteps
  <2>3. CASE publisher' = publisher
    <3>1. CASE publisher = 0
      BY <2>3, <3>1 DEF OnlyDoneIsPublished
    <3>2. CASE publisher # 0
      BY <1>2, <2>1, <2>3, <3>2, VerdictStep DEF OnlyDoneIsPublished
    <3> QED
      BY <3>1, <3>2
  <2>4. ASSUME NEW t \in Transfer, publisher' = t, state[t] = "running", Settle(t, "done")
        PROVE  OnlyDoneIsPublished'
    BY <2>1, <2>4 DEF Settle, OnlyDoneIsPublished
  <2> QED
    BY <2>2, <2>3, <2>4 DEF Publishes
<1>3. Inv /\ OnlyDoneIsPublished /\ [Next]_vars => OnlyDoneIsPublished'
  <2>1. UNCHANGED vars /\ OnlyDoneIsPublished => OnlyDoneIsPublished'
    BY DEF vars, OnlyDoneIsPublished
  <2> QED
    BY <1>2, <2>1
<1> QED
  BY <1>1, <1>3, InvHolds, PTL DEF Spec

-----------------------------------------------------------------------------
(* Orderly use: who works for whom *)

HIDE DEF Transfer, Mirror

\* Nothing unusual meets: see Meetings.
Orderly == Allowed = {}

\* Whatever is at work in the program, it works for transfer o.
WorksFor(o) ==
  /\ \A t \in Transfer : state[t] = "running" => t = o
  /\ \A c \in Caller : call[c].at # "idle" => call[c].of = o
  /\ \A t \in Transfer : worker[t].at # "idle" \/ job[t].at # "idle" => t = o
  /\ sweeping # 0 => sweeping = o

\* One transfer is at work at most, and one request.
Single ==
  /\ \E o \in Transfer \cup {0} : WorksFor(o)
  /\ \A c, d \in Caller : call[c].at # "idle" /\ call[d].at # "idle" => c = d

\* Who has opened the part holds it under its own name until its write is done; nobody
\* else holds a file.
OpenFiles ==
  /\ \A c \in Caller : handle[c] = IF call[c].at = "write" THEN "part" ELSE "none"
  /\ \A t \in Transfer : handle[t] = IF job[t].at = "write" THEN "part" ELSE "none"

\* A chunk is sent while its upload runs, for the offset that comes next; a finish follows
\* the last chunk, and what it discards no longer runs.
Requested ==
  \A c \in Caller :
    /\ call[c].at \in {"open", "write", "commit"} =>
         state[call[c].of] = "running" /\ call[c].offset = received[call[c].of]
    /\ call[c].at \in {"size", "verify", "publish", "discard"} =>
         received[call[c].of] = Blocks
    /\ call[c].at = "discard" => state[call[c].of] # "running"

\* A fetch that waits for a write has its thread, and nobody else has one.
Handed ==
  /\ \A t \in Transfer : job[t].at # "idle" =>
       /\ worker[t].at = "append"
       /\ state[t] = "running"
       /\ job[t].next = worker[t].next
       /\ worker[t].resumed
  /\ \A t \in Transfer : worker[t].at = "append" => job[t].at # "idle"

\* The sweeper cleans up after a transfer it has cancelled.
Swept == sweeping # 0 => state[sweeping] = "canceled"

\* A transfer that has not begun has received nothing.
Unused == \A t \in Transfer : state[t] = "none" => received[t] = 0

\* Who works for whom, when nothing unusual meets.
Order == Single /\ OpenFiles /\ Requested /\ Handed /\ Swept /\ Unused

\* Nothing that was at rest is at work after the step, a new sweep apart.
NoNewWork ==
  /\ \A t \in Transfer : state'[t] = "running" => state[t] = "running"
  /\ \A c \in Caller : call'[c].at # "idle" => call[c].at # "idle" /\ call'[c].of = call[c].of
  /\ \A t \in Transfer : worker'[t].at # "idle" \/ job'[t].at # "idle" =>
       worker[t].at # "idle" \/ job[t].at # "idle"
  /\ sweeping' \in Transfer \cup {0}
  /\ sweeping' # 0 => sweeping' = sweeping \/ state[sweeping'] = "running"

\* A step that begins nothing keeps one transfer at work (_busy_transfer).
LEMMA StaysSingle ==
  ASSUME Single, NoNewWork
  PROVE  Single'
<1>1. PICK o \in Transfer \cup {0} : WorksFor(o)
  BY DEF Single
<1>2. WorksFor(o)'
  BY <1>1 DEF NoNewWork, WorksFor
<1>3. \A c, d \in Caller : call'[c].at # "idle" /\ call'[d].at # "idle" => c = d
  BY DEF NoNewWork, Single
<1> QED
  BY <1>2, <1>3 DEF Single

\* A step that opens and writes nothing keeps the open files.
LEMMA StayOpen ==
  ASSUME OpenFiles,
         \A w \in Writer : handle'[w] = handle[w],
         \A c \in Caller : call'[c].at = "write" <=> call[c].at = "write",
         \A t \in Transfer : job'[t].at = "write" <=> job[t].at = "write"
  PROVE  OpenFiles'
BY DEF OpenFiles

\* Removing or renaming a part nobody has open changes no handle (os.replace, _silent_remove).
LEMMA NothingOpen ==
  ASSUME TypeOK, OpenFiles,
         \A c \in Caller : call[c].at # "write",
         \A t \in Transfer : job[t].at # "write",
         RemovePart \/ \E t \in Transfer : Rename(t)
  PROVE  \A w \in Writer : handle'[w] = handle[w]
<1>1. \A w \in Writer : handle[w] = "none"
  BY DEF OpenFiles
<1> QED
  BY <1>1 DEF RemovePart, Moved, Rename

\* Every step keeps the order: the slot is taken by one transfer at a time, and what is at
\* work belongs to it (upload_init, start_fetch, the two locked sections of upload_chunk,
\* upload_finish, _fetch_worker).
LEMMA OrderStep ==
  ASSUME Orderly, Inv, Order, Next
  PROVE  Order'
<1>1. ASSUME NEW t \in Transfer, NEW sha \in BOOLEAN, UploadInit(t, sha) PROVE Order'
  <2>1. WorksFor(t)'
    BY <1>1 DEF Inv, Owners, TypeOK, WorksFor, Orderly, Only, UploadInit, Free, Running, Patient,
       OtherwiseAtRest, Probing, Moved
  <2>2. Single'
    BY <1>1, <2>1 DEF Order, Single, UploadInit
  <2>3. \A w \in Writer : handle[w] = "none"
    BY <1>1 DEF Order, OpenFiles, UploadInit, Patient, OtherwiseAtRest, Orderly, Only
  <2>4. OpenFiles'
    BY <1>1, <2>3, StayOpen DEF Order, UploadInit, Moved, TypeOK
  <2>5. Requested'
    BY <1>1 DEF Inv, Owners, TypeOK, Order, Single, WorksFor, Requested, Orderly, Only,
       UploadInit, Free, Running, Patient, OtherwiseAtRest, Probing
  <2>6. Handed'
    BY <1>1 DEF Inv, Owners, TypeOK, Order, Handed, Orderly, Only, UploadInit, Free, Running,
       Patient, OtherwiseAtRest, Probing
  <2>7. Swept'
    BY <1>1 DEF Inv, TypeOK, Order, Single, WorksFor, Swept, UploadInit, Free, Running, Patient,
       OtherwiseAtRest, Probing
  <2>8. Unused'
    BY <1>1 DEF Inv, Owners, TypeOK, Order, Unused, UploadInit, Free, Running, Patient,
       OtherwiseAtRest, Probing
  <2> QED
    BY <2>2, <2>4, <2>5, <2>6, <2>7, <2>8 DEF Order
<1>2. ASSUME NEW t \in Transfer, NEW sha \in BOOLEAN, StartFetch(t, sha) PROVE Order'
  <2>1. WorksFor(t)'
    BY <1>2 DEF Inv, Owners, TypeOK, Worker, WorksFor, Orderly, Only, StartFetch, Free, Running,
       Patient, OtherwiseAtRest, Probing
  <2>2. Single'
    BY <1>2, <2>1 DEF Order, Single, StartFetch
  <2>3. OpenFiles'
    BY <1>2, StayOpen DEF Order, Inv, TypeOK, FilesUnchanged, StartFetch, Free, Running, Patient,
       OtherwiseAtRest, Probing
  <2>4. Requested'
    BY <1>2 DEF Inv, Owners, TypeOK, Order, Single, WorksFor, Requested, Orderly, Only,
       StartFetch, Free, Running, Patient, OtherwiseAtRest, Probing
  <2>5. Handed'
    BY <1>2 DEF Inv, Owners, TypeOK, Order, Handed, Orderly, Only, NoWorker, Worker, StartFetch,
       Free, Running, Patient, OtherwiseAtRest, Probing
  <2>6. Swept'
    BY <1>2 DEF Inv, TypeOK, Order, Single, WorksFor, Swept, StartFetch, Free, Running, Patient,
       OtherwiseAtRest, Probing
  <2>7. Unused'
    BY <1>2 DEF Inv, Owners, TypeOK, Order, Unused, StartFetch, Free, Running, Patient,
       OtherwiseAtRest, Probing
  <2> QED
    BY <2>2, <2>3, <2>4, <2>5, <2>6, <2>7 DEF Order
<1>3. ASSUME NEW c \in Caller, NEW t \in Transfer, ChunkAdmitted(c, t) PROVE Order'
  <2>1. PICK o \in Transfer \cup {0} : WorksFor(o)
    BY DEF Order, Single
  <2>2. t = o /\ Calls(t) = {} /\ UNCHANGED <<state, worker, job, sweeping>>
    BY <1>3, <2>1 DEF WorksFor, ChunkAdmitted, Orderly, Only
  <2>3. \A d \in Caller : call[d].at = "idle"
    BY <2>1, <2>2 DEF WorksFor, Calls
  <2>4. /\ \A d \in Caller \ {c} : call'[d] = call[d]
        /\ call'[c].of = t
    BY <1>3 DEF ChunkAdmitted, Inv, TypeOK
  <2>5. WorksFor(o)'
    BY <2>1, <2>2, <2>3, <2>4 DEF WorksFor
  <2>6. Single'
    BY <2>3, <2>4, <2>5 DEF Single
  <2>7. OpenFiles'
    BY <1>3, StayOpen DEF Order, Inv, TypeOK, Call, FilesUnchanged, ChunkAdmitted, Calls
  <2>8. Requested'
    BY <1>3 DEF Inv, Owners, TypeOK, Order, Single, WorksFor, Requested, Orderly, Only, Call,
       ChunkAdmitted, Calls
  <2>9. Handed'
    BY <1>3 DEF Order, ChunkAdmitted, Handed, FilesUnchanged
  <2>10. Swept'
    BY <1>3 DEF Order, ChunkAdmitted, Swept, FilesUnchanged
  <2>11. Unused'
    BY <1>3 DEF Order, ChunkAdmitted, Unused, FilesUnchanged
  <2> QED
    BY <2>6, <2>7, <2>8, <2>9, <2>10, <2>11 DEF Order
<1>4. ASSUME NEW c \in Caller, NEW t \in Transfer, FinishBegins(c, t) PROVE Order'
  <2>1. PICK o \in Transfer \cup {0} : WorksFor(o)
    BY DEF Order, Single
  <2>2. t = o /\ Calls(t) = {} /\ UNCHANGED <<state, worker, job, sweeping>>
    BY <1>4, <2>1 DEF WorksFor, FinishBegins, Orderly, Only
  <2>3. \A d \in Caller : call[d].at = "idle"
    BY <2>1, <2>2 DEF WorksFor, Calls
  <2>4. /\ \A d \in Caller \ {c} : call'[d] = call[d]
        /\ call'[c].of = t
    BY <1>4 DEF FinishBegins, Inv, TypeOK
  <2>5. WorksFor(o)'
    BY <2>1, <2>2, <2>3, <2>4 DEF WorksFor
  <2>6. Single'
    BY <2>3, <2>4, <2>5 DEF Single
  <2>7. OpenFiles'
    BY <1>4, StayOpen DEF Order, Inv, TypeOK, Call, FilesUnchanged, FinishBegins, Calls
  <2>8. Requested'
    BY <1>4 DEF Inv, Owners, TypeOK, Order, Single, WorksFor, Requested, Orderly, Only, Call,
       FinishBegins, Calls
  <2>9. Handed'
    BY <1>4 DEF Order, FinishBegins, Handed, FilesUnchanged
  <2>10. Swept'
    BY <1>4 DEF Order, FinishBegins, Swept, FilesUnchanged
  <2>11. Unused'
    BY <1>4 DEF Order, FinishBegins, Unused, FilesUnchanged
  <2> QED
    BY <2>6, <2>7, <2>8, <2>9, <2>10, <2>11 DEF Order
<1>5. ASSUME NEW c \in Caller, ChunkOpens(c) PROVE Order'
  <2>1. NoNewWork
    BY <1>5 DEF Inv, TypeOK, Call, NoNewWork, ChunkOpens, Goto
  <2>2. Single'
    BY <2>1, StaysSingle DEF Order
  <2>3. handle'[c] = "part" /\ \A v \in Writer \ {c} : handle'[v] = handle[v]
    BY <1>5 DEF Inv, TypeOK, ChunkOpens, Open, Goto
  <2>4. /\ call'[c].at = "write" /\ \A v \in Caller \ {c} : call'[v] = call[v]
        /\ job' = job
    BY <1>5 DEF Inv, TypeOK, Call, NoCall, NoJob, ChunkOpens, Open, Goto
  <2>5. OpenFiles'
    BY <2>3, <2>4 DEF Order, OpenFiles
  <2>6. Requested'
    BY <1>5 DEF Inv, Owners, TypeOK, Order, Single, WorksFor, Requested, Call, ChunkOpens, Goto
  <2>7. Handed'
    BY <1>5 DEF Order, ChunkOpens, Handed, FilesUnchanged
  <2>8. Swept'
    BY <1>5 DEF Order, ChunkOpens, Swept, FilesUnchanged
  <2>9. Unused'
    BY <1>5 DEF Order, ChunkOpens, Unused, FilesUnchanged
  <2> QED
    BY <2>2, <2>5, <2>6, <2>7, <2>8, <2>9 DEF Order
<1>6. ASSUME NEW c \in Caller, ChunkWritten(c) PROVE Order'
  <2>1. NoNewWork
    BY <1>6 DEF Inv, TypeOK, Call, NoNewWork, ChunkWritten, Goto
  <2>2. Single'
    BY <2>1, StaysSingle DEF Order
  <2>3. handle'[c] = "none" /\ \A v \in Writer \ {c} : handle'[v] = handle[v]
    BY <1>6 DEF Inv, TypeOK, ChunkWritten, Write, Goto
  <2>4. /\ call'[c].at = "commit" /\ \A v \in Caller \ {c} : call'[v] = call[v]
        /\ job' = job
    BY <1>6 DEF Inv, TypeOK, Call, NoCall, NoJob, ChunkWritten, Write, Goto
  <2>5. OpenFiles'
    BY <2>3, <2>4 DEF Order, OpenFiles
  <2>6. Requested'
    BY <1>6 DEF Inv, Owners, TypeOK, Order, Single, WorksFor, Requested, Call, ChunkWritten, Goto
  <2>7. Handed'
    BY <1>6 DEF Order, ChunkWritten, Handed, FilesUnchanged
  <2>8. Swept'
    BY <1>6 DEF Order, ChunkWritten, Swept, FilesUnchanged
  <2>9. Unused'
    BY <1>6 DEF Order, ChunkWritten, Unused, FilesUnchanged
  <2> QED
    BY <2>2, <2>5, <2>6, <2>7, <2>8, <2>9 DEF Order
<1>7. ASSUME NEW c \in Caller, ChunkWriteFails(c) PROVE Order'
  <2>1. NoNewWork
    BY <1>7 DEF Inv, TypeOK, Call, NoNewWork, NoCall, ChunkWriteFails, Return
  <2>2. Single'
    BY <2>1, StaysSingle DEF Order
  <2>3. handle'[c] = "none" /\ \A v \in Writer \ {c} : handle'[v] = handle[v]
    BY <1>7 DEF Inv, TypeOK, ChunkWriteFails, Write, Return
  <2>4. /\ call'[c].at = "idle" /\ \A v \in Caller \ {c} : call'[v] = call[v]
        /\ job' = job
    BY <1>7 DEF Inv, TypeOK, Call, NoCall, NoJob, ChunkWriteFails, Write, Return
  <2>5. OpenFiles'
    BY <2>3, <2>4 DEF Order, OpenFiles
  <2>6. Requested'
    BY <1>7 DEF Inv, Owners, TypeOK, Order, Single, WorksFor, Requested, NoCall, Call,
       ChunkWriteFails, Return
  <2>7. Handed'
    BY <1>7 DEF Order, ChunkWriteFails, Handed, FilesUnchanged
  <2>8. Swept'
    BY <1>7 DEF Order, ChunkWriteFails, Swept, FilesUnchanged
  <2>9. Unused'
    BY <1>7 DEF Order, ChunkWriteFails, Unused, FilesUnchanged
  <2> QED
    BY <2>2, <2>5, <2>6, <2>7, <2>8, <2>9 DEF Order
<1>8. ASSUME NEW c \in Caller, ChunkCommitted(c) PROVE Order'
  <2>1. NoNewWork
    BY <1>8 DEF Inv, TypeOK, Call, NoNewWork, NoCall, ChunkCommitted, Return
  <2>2. Single'
    BY <2>1, StaysSingle DEF Order
  <2>3. OpenFiles'
    BY <1>8, StayOpen DEF Order, Inv, TypeOK, Call, NoCall, FilesUnchanged, ChunkCommitted, Return
  <2>4. Requested'
    BY <1>8, SMTT(30) DEF Inv, Owners, TypeOK, Order, Single, WorksFor, Requested, NoCall, Call,
       ChunkCommitted, Return
  <2>5. Handed'
    BY <1>8 DEF Order, ChunkCommitted, Handed, FilesUnchanged
  <2>6. Swept'
    BY <1>8 DEF Order, ChunkCommitted, Swept, FilesUnchanged
  <2>7. Unused'
    BY <1>8 DEF Inv, Owners, TypeOK, Order, Unused, NoCall, ChunkCommitted, Return
  <2> QED
    BY <2>2, <2>3, <2>4, <2>5, <2>6, <2>7 DEF Order
<1>9. ASSUME NEW c \in Caller, FinishStep(c) PROVE Order'
  <2>1. Finishing(c)
    BY <1>9, FinishSteps
  <2>2. /\ call[c].at \in {"size", "verify", "publish"}
        /\ UNCHANGED sweeping
        /\ received' = received \/ received' = [received EXCEPT ![call[c].of] = Blocks]
    BY <1>9 DEF FinishStep, FinishSize, FinishVerify, FinishPublish, FilesUnchanged
  <2>3. \A t \in Transfer : state'[t] = state[t] \/ (t = call[c].of /\ state[t] = "running" /\ state'[t] \in {"done", "failed"})
    BY <2>1 DEF Finishing, Settle, Inv, TypeOK
  <2>4. \A t \in Transfer : received'[t] = received[t]
    BY <2>1, <2>2 DEF Finishing, Inv, TypeOK, Order, Requested
  <2>5. call'[c].at = "discard" => state'[call[c].of] # "running"
    <3>1. CASE Return(c)
      BY <3>1, ReturnKeeps DEF Inv, NoCall
    <3>2. CASE FinishFails(c)
      BY <3>2, <2>1 DEF FinishFails, Settle, Inv, TypeOK, Finishing
    <3>3. ASSUME NEW at \in {"verify", "publish"}, Goto(c, at)
          PROVE  call'[c].at # "discard"
      <4>1. call'[c] = [at |-> at, of |-> call[c].of, offset |-> call[c].offset]
        BY <3>3, GotoKeeps DEF Inv
      <4> QED
        BY <4>1
    <3> QED
      BY <1>9, <3>1, <3>2, <3>3 DEF FinishStep, FinishSize, FinishVerify, FinishPublish
  <2>6. NoNewWork
    BY <2>1, <2>2, <2>3 DEF NoNewWork, Finishing, Inv, TypeOK
  <2>7. Single'
    BY <2>6, StaysSingle DEF Order
  <2>8. \A d \in Caller \ {c} : call[d].at = "idle" /\ call'[d].at = "idle"
    BY <2>1, <2>2 DEF Finishing, Order, Single
  <2>9. \A w \in Writer : handle[w] = "none" /\ handle'[w] = "none"
    <3>1. \A t \in Transfer : job[t].at = "idle"
      BY <2>1, <2>2 DEF Finishing, Order, Single, WorksFor, Handed, Inv, Owners
    <3>2. \A w \in Writer : handle[w] = "none"
      BY <2>2, <2>8, <3>1 DEF Order, OpenFiles
    <3>3. FilesUnchanged \/ \E t \in Transfer : Rename(t)
      BY <1>9, <2>1 DEF FinishStep, FinishSize, FinishVerify, FinishPublish, FilesUnchanged,
         Finishing
    <3> QED
      BY <3>2, <3>3 DEF FilesUnchanged, Rename
  <2>10. OpenFiles'
    BY <2>1, <2>2, <2>8, <2>9 DEF OpenFiles, Finishing, Order
  <2>11. Requested'
    BY <2>1, <2>2, <2>4, <2>5, <2>8 DEF Requested, Finishing, Order
  <2>12. Handed'
    BY <2>1, <2>3 DEF Handed, Finishing, Order, Inv, Owners
  <2>13. Swept' /\ Unused'
    BY <2>2, <2>3, <2>4 DEF Swept, Unused, Order, Inv, TypeOK
  <2> QED
    BY <2>7, <2>10, <2>11, <2>12, <2>13 DEF Order
<1>10. ASSUME NEW c \in Caller, FinishDiscards(c) PROVE Order'
  <2>1. NoNewWork
    BY <1>10 DEF Inv, TypeOK, Call, NoNewWork, NoCall, FinishDiscards, Return
  <2>2. Single'
    BY <2>1, StaysSingle DEF Order
  <2>3. /\ \A d \in Caller : call[d].at # "write"
        /\ \A u \in Transfer : job[u].at # "write"
    BY <1>10 DEF Inv, Owners, Order, Single, WorksFor, Requested, Handed, Swept, Orderly, Only,
       FinishDiscards
  <2>4. RemovePart \/ (\E u \in Transfer : Rename(u)) \/ \A w \in Writer : handle'[w] = handle[w]
    BY <1>10 DEF Inv, Owners, FinishDiscards, FilesUnchanged
  <2>5. \A w \in Writer : handle'[w] = handle[w]
    BY <2>3, <2>4, NothingOpen DEF Inv, Order
  <2>6. OpenFiles'
    BY <1>10, <2>3, <2>5, StayOpen DEF Order, Inv, TypeOK, Call, NoCall, FilesUnchanged,
       FinishDiscards, RemovePart, Moved, Return
  <2>7. Requested'
    BY <1>10 DEF Inv, Owners, TypeOK, Order, Single, WorksFor, Requested, NoCall, Call,
       FinishDiscards, Return
  <2>8. Handed'
    BY <1>10 DEF Order, FinishDiscards, Handed, FilesUnchanged
  <2>9. Swept'
    BY <1>10 DEF Order, FinishDiscards, Swept, FilesUnchanged
  <2>10. Unused'
    BY <1>10 DEF Order, FinishDiscards, Unused, FilesUnchanged
  <2> QED
    BY <2>2, <2>6, <2>7, <2>8, <2>9, <2>10 DEF Order
<1>11. ASSUME NEW t \in Transfer, ProbeFails(t) PROVE Order'
  <2>1. NoNewWork
    BY <1>11 DEF Inv, TypeOK, Worker, NoNewWork, NoWorker, ProbeFails, Settle
  <2>2. Single'
    BY <2>1, StaysSingle DEF Order
  <2>3. OpenFiles'
    BY <1>11, StayOpen DEF Order, Inv, TypeOK, FilesUnchanged, ProbeFails, Settle
  <2>4. /\ \A u \in Transfer \ {t} : state'[u] = state[u]
        /\ \A c \in Caller : call[c].at # "idle" => call[c].of \in Transfer \ {t}
        /\ UNCHANGED <<call, received>>
    BY <1>11 DEF Inv, Owners, TypeOK, ProbeFails, Settle, Order, Single, WorksFor
  <2>5. Requested'
    BY <2>4 DEF Order, Requested
  <2>6. Handed'
    BY <1>11, SMTT(30) DEF Inv, Owners, TypeOK, Order, Handed, NoWorker, Worker, ProbeFails, Settle
  <2>7. Swept'
    BY <1>11 DEF Inv, TypeOK, Order, Single, WorksFor, Swept, ProbeFails, Settle
  <2>8. Unused'
    BY <1>11 DEF Inv, Owners, TypeOK, Order, Unused, ProbeFails, Settle
  <2> QED
    BY <2>2, <2>3, <2>4, <2>5, <2>6, <2>7, <2>8 DEF Order
<1>12. ASSUME NEW t \in Transfer, ProbeAnswered(t) PROVE Order'
  <2>1. NoNewWork
    BY <1>12 DEF Inv, TypeOK, Worker, NoNewWork, NoWorker, ProbeAnswered
  <2>2. Single'
    BY <2>1, StaysSingle DEF Order
  <2>3. OpenFiles'
    BY <1>12, StayOpen DEF Order, Inv, TypeOK, FilesUnchanged, ProbeAnswered
  <2>4. Requested'
    BY <1>12 DEF Order, ProbeAnswered, Requested, FilesUnchanged
  <2>5. Handed'
    <3>1. /\ worker[t].at = "probe" /\ worker'[t].at = "start" /\ UNCHANGED <<state, job>>
          /\ \A u \in Transfer : u # t => worker'[u] = worker[u]
      BY <1>12 DEF Inv, TypeOK, Worker, ProbeAnswered
    <3> QED
      BY <3>1 DEF Order, Handed
  <2>6. Swept'
    BY <1>12 DEF Order, ProbeAnswered, Swept, FilesUnchanged
  <2>7. Unused'
    BY <1>12 DEF Order, ProbeAnswered, Unused, FilesUnchanged
  <2> QED
    BY <2>2, <2>3, <2>4, <2>5, <2>6, <2>7 DEF Order
<1>13. ASSUME NEW t \in Transfer, WorkerStarts(t) PROVE Order'
  <2>1. NoNewWork
    BY <1>13 DEF Inv, TypeOK, Worker, NoNewWork, NoWorker, WorkerStarts
  <2>2. Single'
    BY <2>1, StaysSingle DEF Order
  <2>3. OpenFiles'
    BY <1>13, StayOpen DEF Order, Inv, TypeOK, FilesUnchanged, WorkerStarts
  <2>4. Requested'
    BY <1>13 DEF Order, WorkerStarts, Requested, FilesUnchanged
  <2>5. Handed'
    BY <1>13, SMTT(30) DEF Inv, Owners, TypeOK, Order, Single, WorksFor, Handed, NoWorker, Worker,
       WorkerStarts
  <2>6. Swept'
    BY <1>13 DEF Order, WorkerStarts, Swept, FilesUnchanged
  <2>7. Unused'
    BY <1>13 DEF Order, WorkerStarts, Unused, FilesUnchanged
  <2> QED
    BY <2>2, <2>3, <2>4, <2>5, <2>6, <2>7 DEF Order
<1>14. ASSUME NEW t \in Transfer, ChunkRead(t) PROVE Order'
  <2>1. NoNewWork
    BY <1>14 DEF Inv, TypeOK, Worker, Job, NoNewWork, NoWorker, NoJob, ChunkRead
  <2>2. Single'
    BY <2>1, StaysSingle DEF Order
  <2>3. OpenFiles'
    BY <1>14, StayOpen DEF Order, Inv, TypeOK, Job, NoJob, FilesUnchanged, ChunkRead
  <2>4. Requested'
    BY <1>14 DEF Order, ChunkRead, Requested, FilesUnchanged
  <2>5. /\ job'[t].at = "open" /\ worker'[t].at = "append" /\ worker'[t].resumed
        /\ job'[t].next = worker'[t].next
        /\ state'[t] = "running"
        /\ \A u \in Transfer \ {t} : job'[u] = job[u] /\ worker'[u] = worker[u] /\ state'[u] = state[u]
    BY <1>14, SMTT(30) DEF Inv, Owners, TypeOK, Worker, Job, ChunkRead
  <2>6. Handed'
    BY <2>5 DEF Order, Handed
  <2>7. Swept'
    BY <1>14 DEF Order, ChunkRead, Swept, FilesUnchanged
  <2>8. Unused'
    BY <1>14 DEF Order, ChunkRead, Unused, FilesUnchanged
  <2> QED
    BY <2>2, <2>3, <2>4, <2>5, <2>6, <2>7, <2>8 DEF Order
<1>15. ASSUME NEW t \in Transfer, JobOpens(t) PROVE Order'
  <2>1. NoNewWork
    BY <1>15 DEF Inv, TypeOK, Job, NoNewWork, NoJob, JobOpens
  <2>2. Single'
    BY <2>1, StaysSingle DEF Order
  <2>3. handle'[t] = "part" /\ \A v \in Writer \ {t} : handle'[v] = handle[v]
    BY <1>15 DEF Inv, TypeOK, JobOpens, Open
  <2>4. /\ job'[t].at = "write" /\ \A v \in Transfer \ {t} : job'[v] = job[v]
        /\ call' = call
    BY <1>15 DEF Inv, TypeOK, Job, NoCall, NoJob, JobOpens, Open
  <2>5. OpenFiles'
    BY <2>3, <2>4 DEF Order, OpenFiles
  <2>6. Requested'
    BY <1>15 DEF Order, JobOpens, Requested, FilesUnchanged
  <2>7. Handed'
    BY <1>15 DEF Inv, Owners, TypeOK, Order, Handed, NoJob, Job, JobOpens
  <2>8. Swept'
    BY <1>15 DEF Order, JobOpens, Swept, FilesUnchanged
  <2>9. Unused'
    BY <1>15 DEF Order, JobOpens, Unused, FilesUnchanged
  <2> QED
    BY <2>2, <2>5, <2>6, <2>7, <2>8, <2>9 DEF Order
<1>16. ASSUME NEW t \in Transfer, JobWrites(t) PROVE Order'
  <2>1. NoNewWork
    BY <1>16 DEF Inv, TypeOK, Job, Worker, NoNewWork, NoWorker, NoJob, JobWrites
  <2>2. Single'
    BY <2>1, StaysSingle DEF Order
  <2>3. handle'[t] = "none" /\ \A v \in Writer \ {t} : handle'[v] = handle[v]
    BY <1>16 DEF Inv, TypeOK, JobWrites, Write
  <2>4. /\ job'[t].at = "idle" /\ \A v \in Transfer \ {t} : job'[v] = job[v]
        /\ call' = call
    BY <1>16 DEF Inv, TypeOK, Job, NoCall, NoJob, JobWrites, Write
  <2>5. OpenFiles'
    BY <2>3, <2>4 DEF Order, OpenFiles
  <2>6. Requested'
    BY <1>16 DEF Order, JobWrites, Requested, FilesUnchanged
  <2>7. Handed'
    BY <1>16, SMTT(30) DEF Inv, Owners, TypeOK, Order, Single, WorksFor, Handed, NoWorker, NoJob, Job,
       Worker, JobWrites
  <2>8. Swept'
    BY <1>16 DEF Order, JobWrites, Swept, FilesUnchanged
  <2>9. Unused'
    BY <1>16 DEF Order, JobWrites, Unused, FilesUnchanged
  <2> QED
    BY <2>2, <2>5, <2>6, <2>7, <2>8, <2>9 DEF Order
<1>17. ASSUME NEW t \in Transfer, FetchCompletes(t) PROVE Order'
  <2>1. NoNewWork
    BY <1>17 DEF Inv, TypeOK, Worker, NoNewWork, NoWorker, FetchCompletes, Settle
  <2>2. Single'
    BY <2>1, StaysSingle DEF Order
  <2>3. /\ \A d \in Caller : call[d].at # "write"
        /\ \A u \in Transfer : job[u].at # "write"
    BY <1>17 DEF Inv, Owners, Order, Single, WorksFor, Requested, Handed, Swept, Orderly, Only,
       FetchCompletes
  <2>4. RemovePart \/ (\E u \in Transfer : Rename(u)) \/ \A w \in Writer : handle'[w] = handle[w]
    BY <1>17 DEF Inv, Owners, FetchCompletes, FilesUnchanged
  <2>5. \A w \in Writer : handle'[w] = handle[w]
    BY <2>3, <2>4, NothingOpen DEF Inv, Order
  <2>6. OpenFiles'
    BY <1>17, <2>3, <2>5, StayOpen DEF Order, Inv, TypeOK, FilesUnchanged, FetchCompletes, Settle,
       Rename, RemovePart, Moved
  <2>7. /\ \A u \in Transfer \ {t} : state'[u] = state[u]
        /\ \A c \in Caller : call[c].at # "idle" => call[c].of \in Transfer \ {t}
        /\ UNCHANGED <<call, received>>
    BY <1>17, ZenonT(40) DEF Inv, Owners, TypeOK, FetchCompletes, Settle, Order, Single, WorksFor
  <2>8. Requested'
    BY <2>7 DEF Order, Requested
  <2>9. Handed'
    BY <1>17, SMTT(30) DEF Inv, Owners, TypeOK, Order, Handed, NoWorker, Worker, FetchCompletes, Settle
  <2>10. Swept'
    BY <1>17 DEF Inv, TypeOK, Order, Single, WorksFor, Swept, FetchCompletes, Settle
  <2>11. Unused'
    BY <1>17 DEF Inv, Owners, TypeOK, Order, Unused, FetchCompletes, Settle
  <2> QED
    BY <2>2, <2>6, <2>7, <2>8, <2>9, <2>10, <2>11 DEF Order
<1>18. ASSUME NEW t \in Transfer, FetchBreaks(t) PROVE Order'
  <2>1. NoNewWork
    BY <1>18 DEF Inv, TypeOK, Worker, NoNewWork, NoWorker, FetchBreaks, Settle
  <2>2. Single'
    BY <2>1, StaysSingle DEF Order
  <2>3. /\ \A d \in Caller : call[d].at # "write"
        /\ \A u \in Transfer : job[u].at # "write"
    BY <1>18 DEF Inv, Owners, Order, Single, WorksFor, Requested, Handed, Swept, Orderly, Only,
       FetchBreaks
  <2>4. RemovePart \/ (\E u \in Transfer : Rename(u)) \/ \A w \in Writer : handle'[w] = handle[w]
    BY <1>18 DEF Inv, Owners, FetchBreaks, FilesUnchanged
  <2>5. \A w \in Writer : handle'[w] = handle[w]
    BY <2>3, <2>4, NothingOpen DEF Inv, Order
  <2>6. OpenFiles'
    BY <1>18, <2>3, <2>5, StayOpen DEF Order, Inv, TypeOK, FilesUnchanged, FetchBreaks, Settle,
       RemovePart, Moved
  <2>7. /\ \A u \in Transfer \ {t} : state'[u] = state[u]
        /\ \A c \in Caller : call[c].at # "idle" => call[c].of \in Transfer \ {t}
        /\ UNCHANGED <<call, received>>
    BY <1>18 DEF Inv, Owners, TypeOK, FetchBreaks, Settle, Order, Single, WorksFor
  <2>8. Requested'
    BY <2>7 DEF Order, Requested
  <2>9. Handed'
    BY <1>18, SMTT(30) DEF Inv, Owners, TypeOK, Order, Handed, NoWorker, Worker, FetchBreaks, Settle
  <2>10. Swept'
    BY <1>18 DEF Inv, TypeOK, Order, Single, WorksFor, Swept, FetchBreaks, Settle
  <2>11. Unused'
    BY <1>18 DEF Inv, Owners, TypeOK, Order, Unused, FetchBreaks, Settle
  <2> QED
    BY <2>2, <2>6, <2>7, <2>8, <2>9, <2>10, <2>11 DEF Order
<1>19. ASSUME NEW t \in Transfer, FetchStops(t) PROVE Order'
  <2>1. NoNewWork
    BY <1>19 DEF Inv, TypeOK, Worker, NoNewWork, NoWorker, FetchStops, Settle
  <2>2. Single'
    BY <2>1, StaysSingle DEF Order
  <2>3. /\ \A d \in Caller : call[d].at # "write"
        /\ \A u \in Transfer : job[u].at # "write"
    BY <1>19 DEF Inv, Owners, Order, Single, WorksFor, Requested, Handed, Swept, Orderly, Only,
       FetchStops
  <2>4. RemovePart \/ (\E u \in Transfer : Rename(u)) \/ \A w \in Writer : handle'[w] = handle[w]
    BY <1>19 DEF Inv, Owners, FetchStops, FilesUnchanged
  <2>5. \A w \in Writer : handle'[w] = handle[w]
    BY <2>3, <2>4, NothingOpen DEF Inv, Order
  <2>6. OpenFiles'
    BY <1>19, <2>3, <2>5, StayOpen DEF Order, Inv, TypeOK, FilesUnchanged, FetchStops, Settle,
       RemovePart, Moved
  <2>7. /\ \A u \in Transfer \ {t} : state'[u] = state[u]
        /\ \A c \in Caller : call[c].at # "idle" => call[c].of \in Transfer \ {t}
        /\ UNCHANGED <<call, received>>
    BY <1>19 DEF Inv, Owners, TypeOK, FetchStops, Settle, Order, Single, WorksFor
  <2>8. Requested'
    BY <2>7 DEF Order, Requested
  <2>9. Handed'
    BY <1>19, SMTT(30) DEF Inv, Owners, TypeOK, Order, Handed, NoWorker, Worker, FetchStops, Settle
  <2>10. Swept'
    BY <1>19 DEF Inv, TypeOK, Order, Single, WorksFor, Swept, FetchStops, Settle
  <2>11. Unused'
    BY <1>19 DEF Inv, Owners, TypeOK, Order, Unused, FetchStops, Settle
  <2> QED
    BY <2>2, <2>6, <2>7, <2>8, <2>9, <2>10, <2>11 DEF Order
<1>20. ASSUME NEW t \in Transfer, Cancel(t) PROVE Order'
  <2>1. NoNewWork
    BY <1>20 DEF Inv, TypeOK, Worker, NoNewWork, NoWorker, Cancel, Settle, TaskCancelled,
       ChunkCalls, Calls
  <2>2. Single'
    BY <2>1, StaysSingle DEF Order
  <2>3. /\ \A d \in Caller : call[d].at # "write"
        /\ \A u \in Transfer : job[u].at # "write"
    BY <1>20 DEF Inv, Owners, Order, Single, WorksFor, Requested, Handed, Swept, Orderly, Only,
       Cancel, ChunkCalls, Calls
  <2>4. RemovePart \/ (\E u \in Transfer : Rename(u)) \/ \A w \in Writer : handle'[w] = handle[w]
    BY <1>20 DEF Inv, Owners, Cancel, FilesUnchanged
  <2>5. \A w \in Writer : handle'[w] = handle[w]
    BY <2>3, <2>4, NothingOpen DEF Inv, Order
  <2>6. OpenFiles'
    BY <1>20, <2>3, <2>5, StayOpen DEF Order, Inv, TypeOK, FilesUnchanged, Cancel, Settle,
       RemovePart, Moved, TaskCancelled, ChunkCalls, Calls
  <2>7. Requested'
    BY <1>20 DEF Inv, Owners, TypeOK, Order, Single, WorksFor, Requested, Orderly, Only, Cancel,
       Settle, TaskCancelled, ChunkCalls, Calls
  <2>8. Handed'
    BY <1>20, SMTT(30) DEF Inv, Owners, TypeOK, Order, Handed, Orderly, Only, NoWorker, Worker, Cancel,
       Settle, TaskCancelled
  <2>9. Swept'
    BY <1>20 DEF Inv, TypeOK, Order, Single, WorksFor, Swept, Cancel, Settle, TaskCancelled,
       ChunkCalls, Calls
  <2>10. Unused'
    BY <1>20 DEF Inv, Owners, TypeOK, Order, Unused, Cancel, Settle, TaskCancelled, ChunkCalls,
       Calls
  <2> QED
    BY <2>2, <2>6, <2>7, <2>8, <2>9, <2>10 DEF Order
<1>21. ASSUME NEW t \in Transfer, Sweep(t) PROVE Order'
  <2>1. NoNewWork
    BY <1>21 DEF Inv, TypeOK, NoNewWork, Sweep, Settle, ChunkCalls, Calls
  <2>2. Single'
    BY <2>1, StaysSingle DEF Order
  <2>3. OpenFiles'
    BY <1>21, StayOpen DEF Order, FilesUnchanged, Sweep, Settle, ChunkCalls, Calls
  <2>4. Requested'
    BY <1>21 DEF Inv, Owners, TypeOK, Order, Single, WorksFor, Requested, Orderly, Only, Sweep,
       Settle, ChunkCalls, Calls
  <2>5. Handed'
    BY <1>21 DEF Inv, Owners, TypeOK, Order, Handed, Orderly, Only, Sweep, Settle, ChunkCalls,
       Calls
  <2>6. Swept'
    BY <1>21 DEF Inv, TypeOK, Order, Single, WorksFor, Swept, Sweep, Settle, ChunkCalls, Calls
  <2>7. Unused'
    BY <1>21 DEF Inv, Owners, TypeOK, Order, Unused, Sweep, Settle, ChunkCalls, Calls
  <2> QED
    BY <2>2, <2>3, <2>4, <2>5, <2>6, <2>7 DEF Order
<1>22. ASSUME SweepRemoves PROVE Order'
  <2>1. NoNewWork
    BY <1>22 DEF Inv, TypeOK, NoNewWork, SweepRemoves
  <2>2. Single'
    BY <2>1, StaysSingle DEF Order
  <2>3. /\ \A d \in Caller : call[d].at # "write"
        /\ \A u \in Transfer : job[u].at # "write"
    BY <1>22 DEF Inv, Owners, Order, Single, WorksFor, Requested, Handed, Swept, Orderly, Only,
       SweepRemoves
  <2>4. RemovePart \/ (\E u \in Transfer : Rename(u)) \/ \A w \in Writer : handle'[w] = handle[w]
    BY <1>22 DEF Inv, Owners, SweepRemoves, FilesUnchanged
  <2>5. \A w \in Writer : handle'[w] = handle[w]
    BY <2>3, <2>4, NothingOpen DEF Inv, Order
  <2>6. OpenFiles'
    BY <1>22, <2>3, <2>5, StayOpen DEF Order, FilesUnchanged, SweepRemoves, RemovePart, Moved
  <2>7. Requested'
    BY <1>22 DEF Order, SweepRemoves, Requested, FilesUnchanged
  <2>8. Handed'
    BY <1>22 DEF Order, SweepRemoves, Handed, FilesUnchanged
  <2>9. Swept'
    BY <1>22 DEF Inv, TypeOK, Order, Single, WorksFor, Swept, SweepRemoves
  <2>10. Unused'
    BY <1>22 DEF Order, SweepRemoves, Unused, FilesUnchanged
  <2> QED
    BY <2>2, <2>6, <2>7, <2>8, <2>9, <2>10 DEF Order
<1>23. ASSUME Restart PROVE Order'
  <2>1. NoNewWork
    BY <1>23 DEF Inv, TypeOK, Call, Worker, Job, NoNewWork, NoCall, NoWorker, NoJob, Restart
  <2>2. Single'
    BY <2>1, StaysSingle DEF Order
  <2>3. OpenFiles'
    BY <1>23 DEF OpenFiles, Restart, NoCall, NoJob
  <2>4. Requested'
    BY <1>23 DEF Inv, Owners, TypeOK, Order, Single, WorksFor, Requested, NoCall, NoWorker, NoJob,
       Call, Restart
  <2>5. Handed'
    BY <1>23 DEF Inv, Owners, TypeOK, Order, Handed, NoCall, NoWorker, NoJob, Job, Worker, Restart
  <2>6. Swept'
    BY <1>23 DEF Inv, TypeOK, Order, Single, WorksFor, Swept, NoCall, NoWorker, NoJob, Restart
  <2>7. Unused'
    BY <1>23 DEF Inv, Owners, TypeOK, Order, Unused, NoCall, NoWorker, NoJob, Restart
  <2> QED
    BY <2>2, <2>3, <2>4, <2>5, <2>6, <2>7 DEF Order
<1> QED
  BY ONLY Next, <1>1, <1>2, <1>3, <1>4, <1>5, <1>6, <1>7, <1>8, <1>9, <1>10, <1>11, <1>12, <1>13,
     <1>14, <1>15, <1>16, <1>17, <1>18, <1>19, <1>20, <1>21, <1>22, <1>23 DEF Next, Request,
     Fetch, FinishStep

-----------------------------------------------------------------------------
(* Orderly use: what is in the part *)

\* The first n chunks of the image that comes from s.
FirstChunks(s, n) == [i \in 1..n |-> <<s, i>>]

\* How many chunks of an upload are in its part, as far as they were written whole.
Sent(t) == IF \E c \in Caller : call[c].at = "commit" /\ call[c].of = t
           THEN received[t] + 1 ELSE received[t]

\* A finish that has compared sizes and still runs has a part of that size.
Measured ==
  \A c \in Caller :
    call[c].at \in {"verify", "publish"} /\ state[call[c].of] = "running" => WholeSize(part)

\* The part of a running upload holds what was written of its image, one chunk after the
\* other; only a torn chunk, which a failed write left, disturbs that.
Uploaded ==
  \A t \in Running : about[t].kind = "upload" =>
    /\ part # NoFile
    /\ Len(part) >= Sent(t)
    /\ Torn(part) = {} => part = FirstChunks(t, Sent(t))

\* What a fetch knows of the part is true: its size while the mirror is asked, its chunks
\* once they are hashed; in the program's first life it starts from nothing.
FetchedBy(t) ==
  LET w == worker[t] IN
    /\ w.at \in {"probe", "start"} /\ ~restarted => part = NoFile
    /\ w.at = "read" /\ ~w.resumed /\ ~restarted => part = NoFile
    /\ w.at = "probe" => w.have = Size(part)
    /\ w.at = "start" =>
         IF w.resumed THEN w.next = Size(part) + 1 /\ part # NoFile ELSE w.next = 1
    /\ w.at \in {"start", "read"} => w.next <= Blocks + 1
    /\ w.at \in {"read", "append"} =>
         /\ w.next = Len(w.hashed) + 1
         /\ ~restarted => w.hashed = FirstChunks(Mirror, w.next - 1)
    /\ w.at = "read" => IF w.resumed THEN part = w.hashed ELSE w.hashed = <<>>
    /\ job[t].at = "open" => IF job[t].fresh THEN w.hashed = <<>> ELSE part = w.hashed
    /\ job[t].at = "write" => part = w.hashed /\ (job[t].fresh => part = <<>>)

\* All of it for the fetch that runs.
Fetched == \A t \in Running : FetchedBy(t)

\* In the program's first life a part belongs to somebody who will rename or remove it.
Left ==
  ~restarted /\ part # NoFile =>
    \/ Running # {}
    \/ sweeping # 0
    \/ \E c \in Caller : call[c].at = "discard"

\* What is in the part.
Content == Measured /\ Uploaded /\ Fetched /\ Left

\* One chunk more (_append_chunk).
LEMMA FirstGrows ==
  ASSUME NEW s, NEW n \in Nat, NEW f \in Seq(Chunk), f = FirstChunks(s, n)
  PROVE  /\ Len(f) = n
         /\ Append(f, <<s, n + 1>>) = FirstChunks(s, n + 1)
<1>1. Len(f) = n
  BY DEF FirstChunks
<1>2. Append(f, <<s, n + 1>>) = [i \in 1..(n + 1) |-> IF i = n + 1 THEN <<s, n + 1>> ELSE f[i]]
  BY <1>1
<1>3. \A i \in 1..n : f[i] = <<s, i>>
  BY DEF FirstChunks
<1>4. \A i \in 1..(n + 1) : (IF i = n + 1 THEN <<s, n + 1>> ELSE f[i]) = <<s, i>>
  BY <1>3
<1> QED
  BY <1>1, <1>2, <1>4 DEF FirstChunks

\* A torn chunk stays in the file, whatever is appended (_append_chunk).
LEMMA TornStays ==
  ASSUME NEW f \in Seq(Chunk), NEW b \in Chunk, Torn(Append(f, b)) = {}
  PROVE  Torn(f) = {} /\ b[2] # 0
<1>1. <<>> # NoFile /\ Append(f, b) # NoFile /\ f # NoFile
  <2>1. f # NoFile
    OBVIOUS
  <2>2. Append(f, b) \in Seq(Chunk)
    OBVIOUS
  <2> QED
    BY <2>1, <2>2, Blank
<1>2. \A i \in DOMAIN Append(f, b) : Append(f, b)[i][2] # 0
  BY <1>1 DEF Torn
<1>3. \A i \in 1..Len(f) : f[i][2] # 0
  <2>1. \A i \in 1..Len(f) : i \in DOMAIN Append(f, b) /\ Append(f, b)[i] = f[i]
    OBVIOUS
  <2> QED
    BY <1>2, <2>1
<1>4. b[2] # 0
  <2>1. Len(f) + 1 \in DOMAIN Append(f, b) /\ Append(f, b)[Len(f) + 1] = b
    OBVIOUS
  <2> QED
    BY <1>2, <2>1
<1>5. DOMAIN f = 1..Len(f)
  OBVIOUS
<1> QED
  BY <1>1, <1>3, <1>4, <1>5 DEF Torn

\* The empty file holds the first zero chunks.
LEMMA EmptyIsFirst == \A s : <<>> = FirstChunks(s, 0)
BY DEF FirstChunks

\* After the step no transfer runs.
NoneRuns == \A t \in Transfer : state'[t] # "running"

\* When no transfer runs, nothing is to be said of the part but what is left.
LEMMA AtRestContent ==
  ASSUME NoneRuns, \A c \in Caller : call'[c].at # "idle" => call'[c].of \in Transfer
  PROVE  Measured' /\ Uploaded' /\ Fetched'
BY DEF NoneRuns, Measured, Uploaded, Fetched, Running

\* A step that leaves the part, the counts and the requests keeps what was uploaded.
LEMMA UploadsQuiet ==
  ASSUME Uploaded, part' = part, received' = received,
         \A t \in Transfer : about'[t].kind = about[t].kind,
         \A t \in Transfer : state'[t] = "running" => state[t] = "running",
         \A c \in Caller, t \in Transfer :
           call'[c].at = "commit" /\ call'[c].of = t <=> call[c].at = "commit" /\ call[c].of = t
  PROVE  Uploaded'
<1>1. \A t \in Transfer : Sent(t)' = Sent(t)
  BY DEF Sent
<1> QED
  BY <1>1 DEF Uploaded, Running, Torn

\* When no upload runs, nothing is to be said of one.
LEMMA NoUploads ==
  ASSUME \A t \in Transfer : state'[t] = "running" => about'[t].kind # "upload"
  PROVE  Uploaded'
BY DEF Uploaded, Running

\* A step that leaves the part and the workers keeps what was fetched.
LEMMA FetchesQuiet ==
  ASSUME Fetched, UNCHANGED <<part, worker, job, restarted>>,
         \A t \in Transfer : state'[t] = "running" => state[t] = "running"
  PROVE  Fetched'
BY DEF Fetched, FetchedBy, Running, Size

\* When no fetch runs, nothing is to be said of one.
LEMMA NoFetches ==
  ASSUME \A t \in Transfer : state'[t] = "running" => worker'[t].at = "idle" /\ job'[t].at = "idle"
  PROVE  Fetched'
BY DEF Fetched, FetchedBy, Running

\* A step that leaves the part and begins no verification keeps what was measured.
LEMMA MeasuredQuiet ==
  ASSUME Measured, part' = part,
         \A c \in Caller : call'[c].at \in {"verify", "publish"} =>
           call[c].at = call'[c].at /\ call'[c].of = call[c].of,
         \A t \in Transfer : state'[t] = "running" => state[t] = "running",
         \A c \in Caller : call'[c].at # "idle" => call'[c].of \in Transfer
  PROVE  Measured'
BY DEF Measured, WholeSize, Size, Torn

\* A part may be there while a transfer runs.
LEMMA LeftIfRunning ==
  ASSUME NEW t \in Transfer, state'[t] = "running"
  PROVE  Left'
BY DEF Left, Running

\* A part that is removed is not left.
LEMMA LeftIfGone ==
  ASSUME part' = NoFile
  PROVE  Left'
BY DEF Left

\* A step that ends nobody's work leaves nothing.
LEMMA LeftQuiet ==
  ASSUME Left, part' = part \/ part' = NoFile, state' = state, sweeping' = sweeping, restarted' = restarted,
         \A c \in Caller : call[c].at = "discard" => call'[c].at = "discard"
  PROVE  Left'
BY DEF Left, Running

\* What must be true of the final file f that transfer t has published, in the program's
\* first life and later ones.
Intact(f, t) ==
  /\ about[t].kind = "upload" \/ about[t].sha \/ (about[t].sized /\ ~restarted) => f = Image(t)
  /\ ~restarted => Beginning(f, t)

\* A step that leaves the final file keeps it intact.
LEMMA IntactQuiet ==
  ASSUME PublishedIntact, OnlyDoneIsPublished, iso' = iso, publisher' = publisher,
         \A t \in Transfer : state[t] = "done" => about'[t] = about[t],
         restarted => restarted'
  PROVE  PublishedIntact'
<1>1. ASSUME NEW t \in Transfer, publisher' = t PROVE Intact(iso, t)'
  <2>1. publisher # 0 /\ publisher = t
    BY <1>1 DEF Transfer
  <2>2. state[t] = "done" /\ about'[t] = about[t]
    BY <2>1 DEF OnlyDoneIsPublished
  <2>3. Intact(iso, t)
    BY <2>1, <2>2 DEF PublishedIntact, Intact
  <2>4. Image(t)' = Image(t)
    BY <2>2 DEF Image, Source
  <2>5. Beginning(iso, t)' = Beginning(iso, t)
    BY <2>4 DEF Beginning
  <2> QED
    BY <2>2, <2>3, <2>4, <2>5 DEF Intact
<1> QED
  BY <1>1 DEF PublishedIntact, Intact

\* The whole image is its own beginning.
LEMMA WholeBegins ==
  ASSUME NEW t \in Transfer
  PROVE  Beginning(Image(t), t)
<1>1. Image(t) # NoFile /\ Len(Image(t)) = Blocks
  <2>1. Source(t) \in Transfer \cup {Mirror}
    BY DEF Source
  <2>2. Image(t) \in Seq(Chunk) /\ Len(Image(t)) = Blocks
    BY <2>1 DEF Image, Chunk
  <2> QED
    BY <2>2
<1> QED
  BY <1>1 DEF Beginning

\* A part that is renamed is an intact final file if it is an intact part (os.replace).
LEMMA IntactRenamed ==
  ASSUME NEW t \in Transfer, Rename(t), about' = about, restarted' = restarted, Intact(part, t)
  PROVE  PublishedIntact'
BY DEF PublishedIntact, Rename, Image, Source, Intact, Beginning

\* Every step keeps what is in the part (upload_chunk, upload_finish, _fetch_worker,
\* cancel_transfer, sweep_stale_sessions).
LEMMA ContentStep ==
  ASSUME Orderly, Inv, Order, Content, Next
  PROVE  Content'
<1> USE DEF Content
<1>0. Inv' /\ Order' /\ \A c \in Caller : call'[c].at # "idle" => call'[c].of \in Transfer
  BY InvInductive, OrderStep DEF Inv, Owners
<1>a. \A f \in File : f # NoFile => f \in Seq(Chunk)
  BY ONLY Zenon DEF File
<1>b. part # NoFile => part \in Seq(Chunk)
  BY <1>a DEF Inv, TypeOK
<1>1. ASSUME NEW t \in Transfer, NEW sha \in BOOLEAN, UploadInit(t, sha) PROVE Content'
  <2>1. /\ \A u \in Transfer : state'[u] = "running" <=> u = t
        /\ worker'[t].at = "idle" /\ job'[t].at = "idle"
        /\ \A c \in Caller : call'[c].at = "idle"
        /\ received'[t] = 0 /\ part' = <<>>
    BY <1>1 DEF UploadInit, Free, Running, Patient, OtherwiseAtRest, Probing, Orderly, Only, Inv,
       TypeOK,
                Owners, Order, Unused
  <2>2. Measured' /\ Fetched' /\ Left'
    BY <2>1, LeftIfRunning, NoFetches DEF Measured
  <2>3. Sent(t)' = 0
    BY <2>1 DEF Sent
  <2>4. part' # NoFile /\ Len(part') = 0 /\ part' = FirstChunks(t, 0)
    BY <2>1, Blank, EmptyIsFirst
  <2>5. Uploaded'
    BY <2>1, <2>3, <2>4 DEF Uploaded, Running
  <2> QED
    BY <2>2, <2>5 DEF Content
<1>2. ASSUME NEW t \in Transfer, NEW sha \in BOOLEAN, StartFetch(t, sha) PROVE Content'
  <2>1. /\ \A u \in Transfer : state'[u] = "running" <=> u = t
        /\ about'[t].kind = "fetch"
        /\ worker'[t].at = "probe" /\ worker'[t].have = Size(part)
        /\ job'[t].at = "idle"
        /\ \A c \in Caller : call[c].at = "idle" /\ call'[c].at = "idle"
        /\ sweeping = 0 /\ Running = {}
        /\ part' = part /\ restarted' = restarted
    BY <1>2 DEF StartFetch, Free, Running, Patient, OtherwiseAtRest, Probing, Orderly, Only, Inv,
       TypeOK,
                Owners, NoWorker, Worker, FilesUnchanged
  <2>2. Measured' /\ Uploaded' /\ Left'
    BY <2>1, LeftIfRunning, NoUploads DEF Measured
  <2>3. ~restarted => part = NoFile
    BY <2>1 DEF Left
  <2>4. FetchedBy(t)'
    BY <2>1, <2>3 DEF FetchedBy, Size
  <2>5. Fetched'
    BY <2>1, <2>4 DEF Fetched, Running
  <2> QED
    BY <2>2, <2>5 DEF Content
<1>3. ASSUME NEW c \in Caller, NEW t \in Transfer, ChunkAdmitted(c, t) \/ FinishBegins(c, t)
      PROVE  Content'
  <2>1. /\ call'[c].at \in {"open", "size"} /\ call[c].at = "idle"
        /\ \A d \in Caller \ {c} : call'[d] = call[d]
        /\ state[t] = "running"
        /\ UNCHANGED <<state, part, worker, job, restarted, received, about, sweeping>>
    BY <1>3 DEF ChunkAdmitted, FinishBegins, Inv, TypeOK, FilesUnchanged
  <2>2. Uploaded'
    BY <2>1, UploadsQuiet
  <2>3. Measured' /\ Fetched' /\ Left'
    BY <1>0, <2>1, MeasuredQuiet, FetchesQuiet, LeftIfRunning
  <2> QED
    BY <2>2, <2>3 DEF Content
<1>4. ASSUME NEW c \in Caller, call[c].at \in {"open", "write", "commit"}
      PROVE  /\ state[call[c].of] = "running" /\ call[c].of \in Transfer
             /\ about[call[c].of].kind = "upload"
             /\ call[c].offset = received[call[c].of]
             /\ \A u \in Transfer : state[u] = "running" => u = call[c].of
             /\ \A d \in Caller \ {c} : call[d].at = "idle"
             /\ \A u \in Transfer : worker[u].at = "idle" /\ job[u].at = "idle"
             /\ part \in Seq(Chunk)
             /\ Len(part) >= Sent(call[c].of)
             /\ Torn(part) = {} => part = FirstChunks(call[c].of, Sent(call[c].of))
  <2>1. state[call[c].of] = "running" /\ call[c].of \in Transfer
        /\ about[call[c].of].kind = "upload" /\ call[c].offset = received[call[c].of]
    BY <1>4 DEF Inv, Owners, Order, Requested
  <2>2. /\ \A u \in Transfer : state[u] = "running" => u = call[c].of
        /\ \A d \in Caller \ {c} : call[d].at = "idle"
        /\ \A u \in Transfer : worker[u].at = "idle" /\ job[u].at = "idle"
    BY <1>4, <2>1 DEF Order, Single, WorksFor, Inv, Owners, Handed
  <2>3. /\ part # NoFile
        /\ Len(part) >= Sent(call[c].of)
        /\ Torn(part) = {} => part = FirstChunks(call[c].of, Sent(call[c].of))
    BY <2>1 DEF Uploaded, Running
  <2> QED
    BY <1>b, <2>1, <2>2, <2>3
<1>5. ASSUME NEW c \in Caller, ChunkOpens(c) PROVE Content'
  <2>1. /\ call[c].at = "open" /\ call'[c].at = "write"
        /\ \A d \in Caller \ {c} : call'[d] = call[d]
        /\ UNCHANGED <<state, worker, job, restarted, received, about, sweeping>>
    BY <1>5 DEF ChunkOpens, Goto, Inv, TypeOK, Call
  <2>2. part' = part
    BY <1>4, <1>5, <2>1 DEF ChunkOpens, Open
  <2>3. Uploaded'
    BY <2>1, <2>2, UploadsQuiet
  <2>4. Measured' /\ Fetched'
    BY <1>0, <2>1, <2>2, MeasuredQuiet, FetchesQuiet
  <2>5. Left'
    BY <1>4, <2>1, LeftIfRunning
  <2> QED
    BY <2>3, <2>4, <2>5 DEF Content
<1>6. ASSUME NEW c \in Caller, ChunkWritten(c) PROVE Content'
  <2>0. PICK t \in Transfer : t = call[c].of
    BY <1>4, <1>6 DEF ChunkWritten
  <2> DEFINE b == <<t, received[t] + 1>>
  <2>1. /\ call[c].at = "write" /\ call'[c].at = "commit" /\ call'[c].of = t
        /\ \A d \in Caller \ {c} : call'[d] = call[d]
        /\ UNCHANGED <<state, worker, job, restarted, received, about, sweeping>>
    BY <2>0, <1>6 DEF ChunkWritten, Goto, Inv, TypeOK, Call
  <2>2. b \in Chunk /\ b[2] # 0 /\ received[t] \in Nat
    <3>1. call[c].offset < Blocks /\ call[c].offset = received[t] /\ received[t] \in 0..Blocks
      BY <1>4, <2>0, <2>1 DEF Inv, TypeOK, Bounds
    <3> QED
      BY <3>1 DEF Chunk
  <2>3. part' = Append(part, b)
    BY <2>0, <1>4, <1>6, <2>1 DEF ChunkWritten, Write, Written, Order, OpenFiles
  <2>4. Sent(t) = received[t] /\ Sent(t)' = received[t] + 1
    BY <2>0, <1>4, <2>1 DEF Sent
  <2>5. part' # NoFile /\ Len(part') = Len(part) + 1
    <3>1. part \in Seq(Chunk)
      BY <1>4, <2>1
    <3>2. Append(part, b) \in Seq(Chunk) /\ Len(Append(part, b)) = Len(part) + 1
      BY <2>2, <3>1
    <3> QED
      BY <2>3, <3>2
  <2>6. ASSUME Torn(part') = {} PROVE part' = FirstChunks(t, received[t] + 1)
    <3>1. Torn(part) = {}
      BY <2>0, <1>4, <2>1, <2>2, <2>3, <2>6, TornStays
    <3>2. part = FirstChunks(t, received[t])
      BY <2>0, <1>4, <2>1, <2>4, <3>1
    <3> QED
      <4>1. part \in Seq(Chunk)
        BY <1>4, <2>1
      <4> QED
        BY <2>2, <2>3, <3>2, <4>1, FirstGrows
  <2>7. \A u \in Transfer : state'[u] = "running" => u = t
    BY <2>0, <1>4, <2>1
  <2>8. Len(part) >= received[t] /\ Len(part) \in Nat
    BY <2>0, <1>4, <2>1, <2>4
  <2>9. Len(part') >= Sent(t)' /\ (Torn(part)' = {} => part' = FirstChunks(t, Sent(t))')
    BY <2>0, <2>2, <2>4, <2>5, <2>6, <2>8 DEF Torn, FirstChunks
  <2>10. Uploaded'
    BY <2>0, <2>5, <2>7, <2>9 DEF Uploaded, Running
  <2>11. Fetched'
    BY <2>0, <1>4, <2>1, NoFetches
  <2>12. Measured' /\ Left'
    BY <2>0, <1>4, <2>1, LeftIfRunning DEF Measured
  <2> QED
    BY <2>10, <2>11, <2>12 DEF Content
<1>7. ASSUME NEW c \in Caller, ChunkWriteFails(c) PROVE Content'
  <2>0. PICK t \in Transfer : t = call[c].of
    BY <1>4, <1>7 DEF ChunkWriteFails
  <2>1. /\ call[c].at = "write" /\ call'[c].at = "idle"
        /\ \A d \in Caller \ {c} : call'[d] = call[d]
        /\ UNCHANGED <<state, worker, job, restarted, received, about, sweeping>>
    BY <2>0, <1>7 DEF ChunkWriteFails, Return, NoCall, Inv, TypeOK
  <2>2. part' = part \/ part' = Append(part, <<t, 0>>)
    BY <2>0, <1>4, <1>7, <2>1 DEF ChunkWriteFails, Write, Written, Order, OpenFiles
  <2>3. /\ Measured' /\ Fetched' /\ Left'
    BY <2>0, <1>4, <2>1, LeftIfRunning, NoFetches DEF Measured
  <2>4. CASE part' = part
    <3>1. Uploaded'
      BY <2>0, <2>1, <2>4, UploadsQuiet
    <3> QED
      BY <2>0, <2>3, <3>1 DEF Content
  <2>5. CASE part' = Append(part, <<t, 0>>)
    <3>1. <<t, 0>> \in Chunk /\ <<t, 0>>[2] = 0 /\ received[t] \in Nat
      BY <2>0, <1>4, <2>1 DEF Inv, TypeOK, Chunk
    <3>2. Sent(t) = received[t] /\ Sent(t)' = received[t]
      BY <2>0, <1>4, <2>1 DEF Sent
    <3>3. part' # NoFile /\ Len(part') = Len(part) + 1 /\ Len(part) \in Nat /\ Len(part) >= received[t]
      <4>1. part \in Seq(Chunk) /\ Len(part) >= Sent(t)
        BY <2>0, <1>4, <2>1
      <4>2. Append(part, <<t, 0>>) \in Seq(Chunk) /\ Len(Append(part, <<t, 0>>)) = Len(part) + 1
        BY <3>1, <4>1
      <4>3. Len(part) \in Nat
        BY <4>1
      <4>4. part' \in Seq(Chunk) /\ Len(part') = Len(part) + 1
        BY <2>5, <4>2
      <4> QED
        BY <3>2, <4>1, <4>3, <4>4
    <3>4. Torn(part') # {}
      BY <2>0, <1>4, <2>1, <2>5, <3>1, TornStays, SMTT(30)
    <3>5. \A u \in Transfer : state'[u] = "running" => u = t
      BY <2>0, <1>4, <2>1
    <3>6. Len(part') >= Sent(t)' /\ Torn(part)' # {}
      BY <2>0, <3>1, <3>2, <3>3, <3>4 DEF Torn
    <3>7. Uploaded'
      BY <2>0, <3>3, <3>5, <3>6 DEF Uploaded, Running
    <3> QED
      BY <2>0, <2>3, <3>7 DEF Content
  <2> QED
    BY <2>0, <2>2, <2>4, <2>5
<1>8. ASSUME NEW c \in Caller, ChunkCommitted(c) PROVE Content'
  <2>0. PICK t \in Transfer : t = call[c].of
    BY <1>4, <1>8 DEF ChunkCommitted
  <2>1. /\ call[c].at = "commit" /\ call'[c].at = "idle"
        /\ \A d \in Caller \ {c} : call'[d] = call[d]
        /\ UNCHANGED <<state, worker, job, restarted, about, sweeping>>
    BY <2>0, <1>8 DEF ChunkCommitted, Return, NoCall, Inv, TypeOK
  <2>2. part' = part /\ received'[t] = received[t] + 1
    BY <2>0, <1>4, <1>8, <2>1 DEF ChunkCommitted, Inv, TypeOK
  <2>3. Measured' /\ Fetched' /\ Left'
    BY <2>0, <1>4, <2>1, LeftIfRunning, NoFetches DEF Measured
  <2>4. Sent(t)' = Sent(t)
    BY <2>0, <1>4, <2>1, <2>2 DEF Sent
  <2>5. \A u \in Transfer : state'[u] = "running" => u = t
    BY <2>0, <1>4, <2>1
  <2>6. Uploaded'
    BY <2>0, <1>4, <2>1, <2>2, <2>4, <2>5 DEF Uploaded, Running, Torn
  <2> QED
    BY <2>0, <2>3, <2>6 DEF Content
<1>9. ASSUME NEW c \in Caller, FinishStep(c) PROVE Content'
  <2>1. Finishing(c)
    BY <1>9, FinishSteps
  <2>0. PICK t \in Transfer : t = call[c].of
    BY <2>1 DEF Finishing
  <2>2. /\ call[c].at \in {"size", "verify", "publish"} /\ t \in Transfer
        /\ \A d \in Caller \ {c} : call[d].at = "idle" /\ call'[d].at = "idle"
        /\ \A u \in Transfer : worker[u].at = "idle" /\ job[u].at = "idle"
        /\ \A u \in Transfer : state[u] = "running" => u = t
        /\ UNCHANGED <<worker, job, sweeping, restarted, about>>
        /\ \A u \in Transfer : received'[u] = received[u]
    <3>1. call[c].at \in {"size", "verify", "publish"} /\ t \in Transfer
      BY <2>0, <1>9, <2>1 DEF FinishStep, FinishSize, FinishVerify, FinishPublish, Finishing
    <3>2. UNCHANGED <<worker, job, sweeping, restarted, about>>
      BY <2>0, <1>9 DEF FinishStep, FinishSize, FinishVerify, FinishPublish
    <3>3. received' = received \/ received' = [received EXCEPT ![t] = Blocks]
      BY <2>0, <1>9 DEF FinishStep, FinishSize, FinishVerify, FinishPublish
    <3>4. \A u \in Transfer : received'[u] = received[u]
      BY <2>0, <3>1, <3>3 DEF Inv, TypeOK, Order, Requested
    <3>5. \A d \in Caller \ {c} : call[d].at = "idle" /\ call'[d].at = "idle"
      BY <2>0, <2>1, <3>1 DEF Order, Single, Finishing
    <3>6. /\ \A u \in Transfer : worker[u].at = "idle" /\ job[u].at = "idle"
          /\ \A u \in Transfer : state[u] = "running" => u = t
      BY <2>0, <3>1 DEF Order, Single, WorksFor, Inv, Owners, Handed
    <3> QED
      BY <2>0, <3>1, <3>2, <3>4, <3>5, <3>6
  <2>3. \A u \in Transfer : state'[u] = "running" => state[u] = "running"
    BY <2>0, <2>1, <2>2 DEF Finishing, Settle, Inv, TypeOK
  <2>4. Fetched'
    BY <2>0, <2>2, NoFetches
  <2>5. CASE state'[t] = "running"
    <3>1. part' = part
      BY <2>0, <1>9, <2>1, <2>2, <2>5 DEF FinishStep, FinishSize, FinishVerify, FinishPublish,
         FilesUnchanged,
            FinishFails, Settle, Inv, TypeOK
    <3>2. Left'
      BY <2>0, <2>2, <2>5, LeftIfRunning
    <3>3. call'[c].at # "commit"
      BY <2>0, <2>1 DEF Finishing
    <3>4. Sent(t)' = Sent(t)
      BY <2>0, <2>2, <3>3 DEF Sent
    <3>5. Uploaded'
      BY <2>0, <2>2, <2>3, <3>1, <3>4 DEF Uploaded, Running, Torn
    <3>6. Measured'
      <4>1. CASE call'[c].at \in {"verify", "publish"}
        <5>1. WholeSize(part)
          <6>1. CASE call[c].at = "size"
            BY <2>0, <1>9, <2>2, <2>5, <4>1, <6>1 DEF FinishStep, FinishSize, FinishVerify,
               FinishPublish,
                  FinishFails, Goto, Inv, TypeOK, Call
          <6>2. CASE call[c].at \in {"verify", "publish"}
            BY <2>0, <2>2, <2>3, <2>5, <6>2 DEF Measured
          <6> QED
            BY <2>0, <2>2, <6>1, <6>2
        <5> QED
          BY <2>0, <2>2, <3>1, <5>1 DEF Measured, WholeSize, Size, Torn
      <4>2. CASE call'[c].at \notin {"verify", "publish"}
        BY <2>0, <2>2, <4>2 DEF Measured
      <4> QED
        BY <2>0, <4>1, <4>2
    <3> QED
      BY <2>0, <2>4, <3>2, <3>5, <3>6 DEF Content
  <2>6. CASE state'[t] # "running"
    <3>1. NoneRuns
      BY <2>0, <2>2, <2>3, <2>6 DEF NoneRuns
    <3>2. Measured' /\ Uploaded' /\ Fetched'
      BY <2>0, <1>0, <3>1, AtRestContent
    <3>3. CASE Rename(t)
      BY <2>0, <3>2, <3>3, LeftIfGone DEF Rename, Content
    <3>4. CASE FinishFails(c)
      <4>1. call'[c] = [at |-> "discard", of |-> call[c].of, offset |-> call[c].offset]
        BY <3>4, GotoKeeps DEF FinishFails, Inv
      <4> QED
        BY <3>2, <4>1 DEF Left, Content
    <3>5. CASE state' = state /\ part' = part
      BY <2>0, <2>2, <3>2, <3>5, LeftQuiet DEF Content
    <3> QED
      BY <2>0, <1>9, <3>3, <3>4, <3>5 DEF FinishStep, FinishSize, FinishVerify, FinishPublish,
         FilesUnchanged
  <2> QED
    BY <2>0, <2>5, <2>6
<1>10. ASSUME NEW c \in Caller, FinishDiscards(c) PROVE Content'
  <2>1. NoneRuns
    BY <1>10 DEF FinishDiscards, Order, Single, WorksFor, Requested, Inv, Owners, NoneRuns
  <2> QED
    BY <1>0, <1>10, <2>1, AtRestContent, LeftIfGone DEF FinishDiscards, RemovePart, Content
<1>11. ASSUME NEW t \in Transfer, worker[t].at # "idle"
       PROVE  /\ \A u \in Transfer : state[u] = "running" => u = t
              /\ about[t].kind = "fetch" /\ state[t] \in {"running", "canceled"}
              /\ \A c \in Caller : call[c].at = "idle"
  BY <1>11 DEF Order, Single, WorksFor, Inv, Owners
<1>12. ASSUME NEW t \in Transfer, ProbeFails(t) PROVE Content'
  <2>1. NoneRuns
    BY <1>11, <1>12 DEF ProbeFails, Settle, NoneRuns, Inv, TypeOK
  <2>2. Measured' /\ Uploaded' /\ Fetched'
    BY <1>0, <2>1, AtRestContent
  <2>3. UNCHANGED <<part, sweeping, restarted, call>>
    BY <1>12 DEF ProbeFails, FilesUnchanged
  <2>4. CASE state[t] = "running"
    <3>1. ~restarted => part = NoFile
      BY <1>12, <2>4 DEF ProbeFails, Fetched, FetchedBy, Running
    <3> QED
      BY <2>2, <2>3, <3>1 DEF Left, Content
  <2>5. CASE state[t] # "running"
    <3>1. state' = state
      BY <1>12, <2>5 DEF ProbeFails, Settle
    <3> QED
      BY <2>2, <2>3, <3>1, LeftQuiet DEF Content
  <2> QED
    BY <2>4, <2>5
<1>13. ASSUME NEW t \in Transfer, FetchCompletes(t) \/ FetchBreaks(t) \/ FetchStops(t)
       PROVE  Content'
  <2>1. NoneRuns
    <3>1. worker[t].at # "idle" /\ \E s \in {"done", "failed", "canceled"} : Settle(t, s)
      BY <1>13 DEF FetchCompletes, FetchBreaks, FetchStops
    <3> QED
      BY <1>11, <3>1 DEF Settle, NoneRuns, Inv, TypeOK
  <2>2. part' = NoFile
    BY <1>13 DEF FetchCompletes, FetchBreaks, FetchStops, RemovePart, Rename
  <2> QED
    BY <1>0, <2>1, <2>2, AtRestContent, LeftIfGone DEF Content
<1>14. ASSUME NEW t \in Transfer, Cancel(t) PROVE Content'
  <2>1. NoneRuns
    BY <1>14 DEF Cancel, Settle, NoneRuns, Inv, TypeOK, Order, Single, WorksFor
  <2>2. part' = NoFile
    BY <1>14 DEF Cancel, RemovePart
  <2> QED
    BY <1>0, <2>1, <2>2, AtRestContent, LeftIfGone DEF Content
<1>15. ASSUME NEW t \in Transfer, Sweep(t) PROVE Content'
  <2>1. NoneRuns
    BY <1>15 DEF Sweep, Settle, NoneRuns, Inv, TypeOK, Order, Single, WorksFor
  <2>2. sweeping' # 0
    BY <1>15 DEF Sweep, Transfer
  <2> QED
    BY <1>0, <2>1, <2>2, AtRestContent DEF Left, Content
<1>16. ASSUME SweepRemoves PROVE Content'
  <2>1. NoneRuns
    BY <1>16 DEF SweepRemoves, NoneRuns, Inv, TypeOK, Order, Single, WorksFor, Swept
  <2>2. part' = NoFile
    BY <1>16 DEF SweepRemoves, RemovePart
  <2> QED
    BY <1>0, <2>1, <2>2, AtRestContent, LeftIfGone DEF Content
<1>17. ASSUME Restart PROVE Content'
  <2>1. NoneRuns
    BY <1>17 DEF Restart, NoneRuns
  <2> QED
    BY <1>0, <1>17, <2>1, AtRestContent DEF Restart, Left, Content
<1>18. ASSUME NEW t \in Transfer, worker[t].at # "idle", state[t] = "running"
       PROVE  FetchedBy(t)
  BY <1>18 DEF Fetched, Running
<1>19. ASSUME NEW t \in Transfer, worker[t].at # "idle", FetchedBy(t)' \/ state'[t] # "running",
              \A u \in Transfer : about'[u].kind = about[u].kind, call' = call, state' = state
       PROVE  Measured' /\ Uploaded' /\ Fetched'
  <2>1. \A u \in Transfer : state'[u] = "running" => u = t
    BY <1>11, <1>19
  <2>2. Fetched'
    BY <1>19, <2>1 DEF Fetched, Running
  <2>3. Uploaded'
    BY <1>11, <1>19, <2>1, NoUploads
  <2>4. Measured'
    BY <1>11, <1>19 DEF Measured
  <2> QED
    BY <2>2, <2>3, <2>4
<1>20. ASSUME NEW t \in Transfer, ProbeAnswered(t) \/ WorkerStarts(t) \/ ChunkRead(t)
       PROVE  /\ Left' /\ UNCHANGED <<part, state, call, restarted>>
              /\ \A u \in Transfer : about'[u].kind = about[u].kind
  BY <1>20, LeftQuiet, HeadersKeep DEF ProbeAnswered, WorkerStarts, ChunkRead, FilesUnchanged
<1>21. ASSUME NEW t \in Transfer, ProbeAnswered(t) PROVE Content'
  <2>1. worker[t].at = "probe" /\ worker[t] \in Worker /\ job[t].at = "idle"
    BY <1>21 DEF ProbeAnswered, Inv, TypeOK, Order, Handed
  <2>2. PICK r \in BOOLEAN :
          /\ r => worker[t].have \in 1..(Blocks - 1)
          /\ worker' = [worker EXCEPT ![t].at = "start", ![t].resumed = r,
                                      ![t].next = IF r THEN worker[t].have + 1 ELSE 1]
    BY <1>21 DEF ProbeAnswered
  <2>3. /\ worker'[t].at = "start" /\ worker'[t].resumed = r
        /\ worker'[t].next = IF r THEN worker[t].have + 1 ELSE 1
        /\ job' = job
    BY <1>21, <2>1, <2>2 DEF ProbeAnswered, Inv, TypeOK, Worker
  <2>4. CASE state[t] = "running"
    <3>1. FetchedBy(t)
      BY <1>18, <2>1, <2>4
    <3>2. r => part # NoFile
      BY <2>1, <2>2, <3>1 DEF FetchedBy, Size
    <3>3. FetchedBy(t)'
      BY <1>20, <1>21, <2>1, <2>2, <2>3, <3>1, <3>2 DEF FetchedBy, Size
    <3> QED
      BY <1>19, <1>20, <1>21, <2>1, <3>3 DEF Content
  <2>5. CASE state[t] # "running"
    BY <1>19, <1>20, <1>21, <2>1, <2>5 DEF Content
  <2> QED
    BY <2>4, <2>5
<1>22. ASSUME NEW t \in Transfer, WorkerStarts(t) PROVE Content'
  <2> DEFINE exists == worker[t].resumed /\ part # NoFile
  <2>1. worker[t].at = "start" /\ worker[t] \in Worker /\ job[t].at = "idle"
    BY <1>22 DEF WorkerStarts, Inv, TypeOK, Order, Handed
  <2>2. /\ worker'[t].at = "read" /\ worker'[t].resumed = exists
        /\ worker'[t].hashed = IF exists THEN part ELSE <<>>
        /\ worker'[t].next = worker[t].next
        /\ job' = job
    BY <1>22, <2>1 DEF WorkerStarts, Inv, TypeOK, Worker
  <2>3. CASE state[t] = "running"
    <3>1. FetchedBy(t)
      BY <1>18, <2>1, <2>3
    <3>2. worker'[t].next = Len(worker'[t].hashed) + 1 /\ worker'[t].next <= Blocks + 1
      BY <2>1, <2>2, <3>1 DEF FetchedBy, Size
    <3>3. ~restarted => worker'[t].hashed = <<>> /\ worker'[t].next = 1
      BY <2>1, <2>2, <3>1, <3>2 DEF FetchedBy
    <3>4. ~restarted => worker'[t].hashed = FirstChunks(Mirror, worker'[t].next - 1)
      BY <3>3, EmptyIsFirst
    <3>5. ~restarted' => part' = NoFile
      BY <1>20, <1>22, <2>1, <3>1 DEF FetchedBy
    <3>6. FetchedBy(t)'
      BY <1>20, <1>22, <2>1, <2>2, <3>2, <3>4, <3>5 DEF FetchedBy, FirstChunks
    <3> QED
      BY <1>19, <1>20, <1>22, <2>1, <3>6 DEF Content
  <2>4. CASE state[t] # "running"
    BY <1>19, <1>20, <1>22, <2>1, <2>4 DEF Content
  <2> QED
    BY <2>3, <2>4
<1>23. ASSUME NEW t \in Transfer, ChunkRead(t) PROVE Content'
  <2>1. /\ worker[t].at = "read" /\ state[t] = "running" /\ worker[t] \in Worker
        /\ job[t].at = "idle"
    BY <1>11, <1>23 DEF ChunkRead, Inv, TypeOK
  <2>2. /\ worker'[t].at = "append" /\ worker'[t].hashed = worker[t].hashed
        /\ worker'[t].next = worker[t].next
        /\ job'[t].at = "open" /\ job'[t].fresh = ~worker[t].resumed
    BY <1>23, <2>1 DEF ChunkRead, Inv, TypeOK, Worker
  <2>3. FetchedBy(t)
    BY <1>18, <2>1
  <2>4. FetchedBy(t)'
    BY <1>20, <1>23, <2>1, <2>2, <2>3 DEF FetchedBy, FirstChunks, Worker
  <2> QED
    BY <1>19, <1>20, <1>23, <2>1, <2>4 DEF Content
<1>24. ASSUME NEW t \in Transfer, JobOpens(t) PROVE Content'
  <2>1. /\ worker[t].at = "append" /\ state[t] = "running" /\ worker[t] \in Worker
        /\ job[t] \in Job /\ job[t].at = "open"
    BY <1>24 DEF JobOpens, Inv, TypeOK, Order, Handed
  <2>2. FetchedBy(t)
    BY <1>18, <2>1
  <2>3. /\ job'[t].at = "write" /\ job'[t].fresh = job[t].fresh
        /\ UNCHANGED <<worker, state, about, call, restarted>>
    BY <1>24, <2>1 DEF JobOpens, Inv, TypeOK, Job
  <2>4. ~job[t].fresh => part # NoFile
    <3>1. worker[t].hashed # NoFile
      BY <2>1 DEF Worker
    <3> QED
      BY <2>1, <2>2, <3>1 DEF FetchedBy
  <2>5. part' = worker[t].hashed /\ (job[t].fresh => part' = <<>>)
    BY <1>24, <2>1, <2>2, <2>4 DEF JobOpens, Open, FetchedBy
  <2>6. FetchedBy(t)'
    BY <2>1, <2>2, <2>3, <2>5 DEF FetchedBy, FirstChunks
  <2> QED
    BY <1>19, <2>1, <2>3, <2>6, LeftIfRunning DEF Content
<1>25. ASSUME NEW t \in Transfer, JobWrites(t) PROVE Content'
  <2> DEFINE b == <<Mirror, job[t].next>>
  <2>1. /\ worker[t].at = "append" /\ state[t] = "running" /\ worker[t] \in Worker
        /\ job[t] \in Job /\ job[t].at = "write" /\ job[t].next = worker[t].next
        /\ worker[t].resumed
        /\ job[t].next <= Blocks
    BY <1>25 DEF JobWrites, Inv, TypeOK, Order, Handed, Bounds
  <2>2. FetchedBy(t)
    BY <1>18, <2>1
  <2>3. /\ job'[t].at = "idle"
        /\ worker'[t].at = "read" /\ worker'[t].next = worker[t].next + 1
        /\ worker'[t].hashed = Append(worker[t].hashed, b) /\ worker'[t].resumed
        /\ UNCHANGED <<state, about, call, restarted>>
    BY <1>25, <2>1 DEF JobWrites, Inv, TypeOK, Worker, NoJob
  <2>4. part' = Append(part, b)
    BY <1>25, <2>1, <2>2 DEF JobWrites, Write, Written, Order, OpenFiles, FetchedBy
  <2>5. b \in Chunk /\ worker[t].next \in Nat /\ worker[t].hashed \in Seq(Chunk)
    BY <2>1 DEF Chunk, Job, Worker
  <2>6. /\ part = worker[t].hashed /\ worker[t].next = Len(worker[t].hashed) + 1
        /\ ~restarted => worker[t].hashed = FirstChunks(Mirror, worker[t].next - 1)
    BY <2>1, <2>2 DEF FetchedBy
  <2>7. Len(worker'[t].hashed) = Len(worker[t].hashed) + 1
    BY <2>3, <2>5
  <2>8. ~restarted => worker'[t].hashed = FirstChunks(Mirror, worker[t].next)
    <3>1. worker[t].next - 1 \in Nat /\ (worker[t].next - 1) + 1 = worker[t].next
      BY <2>5, <2>6
    <3> QED
      BY <2>1, <2>3, <2>5, <2>6, <3>1, FirstGrows, SMTT(30)
  <2>9. worker'[t].next - 1 = worker[t].next
    BY <2>3, <2>5
  <2>10. FetchedBy(t)'
    <3>1. worker'[t].next = Len(worker'[t].hashed) + 1 /\ worker'[t].next <= Blocks + 1
      BY <2>1, <2>3, <2>5, <2>6, <2>7
    <3>2. ~restarted' => worker'[t].hashed = FirstChunks(Mirror, worker'[t].next - 1)
      BY <2>3, <2>8, <2>9
    <3>3. part' = worker'[t].hashed
      BY <2>3, <2>4, <2>6
    <3> QED
      BY <2>3, <3>1, <3>2, <3>3 DEF FetchedBy, FirstChunks
  <2> QED
    BY <1>19, <2>1, <2>3, <2>10, LeftIfRunning DEF Content
<1> QED
  BY ONLY Next, <1>1, <1>2, <1>3, <1>5, <1>6, <1>7, <1>8, <1>9, <1>10, <1>12, <1>13, <1>14, <1>15,
     <1>16, <1>17, <1>21, <1>22, <1>23, <1>24, <1>25
  DEF Next, Request, Fetch, FinishStep

\* Every step keeps the final file intact: a finish renames a part of full size without a
\* torn chunk, a fetch one that it has hashed or begun itself.
LEMMA IntactStep ==
  ASSUME Orderly, Inv, Order, Content, OnlyDoneIsPublished, PublishedIntact, Next
  PROVE  PublishedIntact'
<1>1. ASSUME UNCHANGED <<iso, publisher, about>>, restarted => restarted' PROVE PublishedIntact'
  BY <1>1, IntactQuiet
<1>2. ASSUME NEW t \in Transfer, NEW sha \in BOOLEAN, UploadInit(t, sha) \/ StartFetch(t, sha)
      PROVE  PublishedIntact'
  <2>1. \A u \in Transfer : state[u] = "done" => about'[u] = about[u]
    BY <1>2 DEF UploadInit, StartFetch, Free, Inv, TypeOK
  <2> QED
    BY <1>2, <2>1, IntactQuiet DEF UploadInit, StartFetch, FilesUnchanged
<1>3. ASSUME NEW c \in Caller, ChunkWritten(c) \/ ChunkWriteFails(c) PROVE PublishedIntact'
  <2>1. handle[c] = "part"
    BY <1>3 DEF ChunkWritten, ChunkWriteFails, Order, OpenFiles
  <2> QED
    BY <1>1, <1>3, <2>1 DEF ChunkWritten, ChunkWriteFails, Write
<1>4. ASSUME NEW t \in Transfer, JobWrites(t) PROVE PublishedIntact'
  <2>1. handle[t] = "part"
    BY <1>4 DEF JobWrites, Order, OpenFiles
  <2> QED
    BY <1>1, <1>4, <2>1 DEF JobWrites, Write
<1>5. ASSUME NEW c \in Caller, FinishPublish(c) PROVE PublishedIntact'
  <2>1. PICK t \in Transfer : t = call[c].of
    BY <1>5 DEF FinishPublish, Inv, Owners
  <2>2. CASE state[t] = "running" /\ Rename(t)
    <3>1. WholeSize(part) /\ about[t].kind = "upload" /\ received[t] = Blocks
      BY <1>5, <2>1, <2>2 DEF FinishPublish, Inv, Owners, Content, Measured, Order, Requested
    <3>2. \A d \in Caller : call[d].at # "commit"
      BY <1>5 DEF FinishPublish, Order, Single
    <3>3. Sent(t) = Blocks
      BY <3>1, <3>2 DEF Sent
    <3>4. part = FirstChunks(t, Blocks)
      BY <2>2, <3>1, <3>3 DEF Content, Uploaded, Running, WholeSize
    <3>5. part = Image(t)
      BY <3>1, <3>4 DEF Image, Source, FirstChunks
    <3> QED
      BY <1>5, <2>2, <3>5, IntactRenamed, WholeBegins DEF FinishPublish, Intact
  <2>3. CASE FilesUnchanged
    BY <1>1, <1>5, <2>3 DEF FinishPublish, FilesUnchanged
  <2> QED
    BY <1>5, <2>1, <2>2, <2>3 DEF FinishPublish
<1>6. ASSUME NEW t \in Transfer, FetchCompletes(t) PROVE PublishedIntact'
  <2>1. CASE IsImage(part) /\ Rename(t) /\ (about[t].sha => worker[t].hashed = Image(t))
    <3>1. /\ state[t] = "running" /\ worker[t].at = "read"
          /\ about[t].sized => worker[t].next > Blocks
          /\ about[t].kind = "fetch" /\ worker[t] \in Worker /\ about[t] \in Kind
      BY <1>6 DEF FetchCompletes, Inv, Owners, TypeOK
    <3>2. FetchedBy(t)
      BY <3>1 DEF Content, Fetched, Running
    <3>3. worker[t].next \in 1..(Blocks + 1) /\ Len(worker[t].hashed) = worker[t].next - 1
      BY <3>1, <3>2 DEF FetchedBy, Worker
    <3>4. Image(t) = FirstChunks(Mirror, Blocks)
      BY <3>1 DEF Image, Source, FirstChunks
    <3>5. ASSUME worker[t].resumed PROVE Intact(part, t)
      <4>1. part = worker[t].hashed
        BY <3>1, <3>2, <3>5 DEF FetchedBy
      <4>2. ~restarted => part = FirstChunks(Mirror, worker[t].next - 1)
        BY <3>1, <3>2, <4>1 DEF FetchedBy
      <4>3. about[t].sized => worker[t].next - 1 = Blocks
        BY <3>1, <3>3
      <4>4. about[t].sha \/ (about[t].sized /\ ~restarted) => part = Image(t)
        BY <2>1, <3>4, <4>1, <4>2, <4>3
      <4>5. part # NoFile /\ Len(part) \in 1..Blocks
        <5>1. part # NoFile /\ Len(part) > 0
          BY <2>1 DEF IsImage
        <5>2. Len(part) = worker[t].next - 1
          BY <3>3, <4>1
        <5> QED
          BY <3>3, <5>1, <5>2
      <4>6. ~restarted => Beginning(part, t)
        <5>1. Len(part) = worker[t].next - 1
          BY <3>3, <4>1
        <5>2. \A i \in 1..Len(part) : FirstChunks(Mirror, worker[t].next - 1)[i] = Image(t)[i]
          BY <3>3, <3>4, <4>5, <5>1 DEF FirstChunks
        <5> QED
          BY <4>2, <4>5, <5>2 DEF Beginning
      <4> QED
        BY <3>1, <4>4, <4>6 DEF Intact
    <3>6. ASSUME ~worker[t].resumed PROVE Intact(part, t)
      <4>1. worker[t].hashed = <<>> /\ worker[t].next = 1
        BY <3>1, <3>2, <3>3, <3>6 DEF FetchedBy
      <4>2. ~about[t].sized
        BY <3>1, <4>1
      <4>3. Len(Image(t)) = Blocks
        BY DEF Image
      <4>4. ~about[t].sha
        BY <2>1, <4>1, <4>3
      <4>5. ~restarted => part = NoFile
        BY <3>1, <3>2, <3>6 DEF FetchedBy
      <4>6. restarted
        BY <2>1, <4>5 DEF IsImage
      <4> QED
        BY <3>1, <4>2, <4>4, <4>6 DEF Intact
    <3>7. Intact(part, t)
      BY <3>5, <3>6
    <3> QED
      BY <1>6, <2>1, <3>7, IntactRenamed DEF FetchCompletes
  <2>2. CASE UNCHANGED <<iso, publisher>>
    BY <1>1, <1>6, <2>2 DEF FetchCompletes
  <2> QED
    BY <1>6, <2>1, <2>2 DEF FetchCompletes
<1>7. ASSUME NEW c \in Caller, NEW t \in Transfer, ChunkAdmitted(c, t) \/ FinishBegins(c, t)
      PROVE  PublishedIntact'
  BY <1>1, <1>7 DEF ChunkAdmitted, FinishBegins, FilesUnchanged
<1>8. ASSUME NEW c \in Caller,
             ChunkOpens(c) \/ ChunkCommitted(c) \/ FinishSize(c) \/ FinishVerify(c) \/ FinishDiscards(c)
      PROVE  PublishedIntact'
  BY <1>1, <1>8 DEF ChunkOpens, ChunkCommitted, FinishSize, FinishVerify, FinishDiscards,
     FilesUnchanged
<1>9. ASSUME NEW t \in Transfer, ProbeFails(t) \/ WorkerStarts(t) \/ ChunkRead(t)
      PROVE  PublishedIntact'
  BY <1>1, <1>9 DEF ProbeFails, WorkerStarts, ChunkRead, FilesUnchanged
<1>13. ASSUME NEW t \in Transfer, ProbeAnswered(t) PROVE PublishedIntact'
  <2>1. state[t] # "done" /\ UNCHANGED <<iso, publisher, restarted>>
    BY <1>13 DEF ProbeAnswered, FilesUnchanged, Inv, Owners
  <2> QED
    BY <1>13, <2>1, HeadersKeep, IntactQuiet
<1>10. ASSUME NEW t \in Transfer, JobOpens(t) \/ FetchBreaks(t) \/ FetchStops(t) PROVE PublishedIntact'
  BY <1>1, <1>10 DEF JobOpens, FetchBreaks, FetchStops
<1>11. ASSUME NEW t \in Transfer, Cancel(t) \/ Sweep(t) PROVE PublishedIntact'
  BY <1>1, <1>11 DEF Cancel, Sweep, FilesUnchanged
<1>12. ASSUME SweepRemoves \/ Restart PROVE PublishedIntact'
  BY <1>1, <1>12 DEF SweepRemoves, Restart
<1> QED
  BY ONLY Next, <1>2, <1>3, <1>4, <1>5, <1>6, <1>7, <1>8, <1>9, <1>10, <1>11, <1>12, <1>13
  DEF Next, Request, Fetch

\* The inductive invariant of orderly use.
OrderlyInv == Inv /\ Order /\ Content /\ OnlyDoneIsPublished /\ PublishedIntact

\* The invariant holds at the start and no step breaks it; that the publisher is done is
\* known already.
LEMMA OrderlyInductive ==
  ASSUME Orderly
  PROVE  /\ Init => OrderlyInv
         /\ OrderlyInv /\ [Next]_vars /\ OnlyDoneIsPublished' => OrderlyInv'
<1>1. ASSUME Init PROVE OrderlyInv
  <2>1. Inv
    BY <1>1, InvInductive
  <2>2. WorksFor(0)
    BY <1>1 DEF Init, WorksFor, NoCall, NoWorker, NoJob
  <2>3. Order
    BY <1>1, <2>2 DEF Init, Order, Single, OpenFiles, Requested, Handed, Swept, Unused, NoCall,
       NoWorker, NoJob
  <2>4. Content
    BY <1>1 DEF Init, Content, Measured, Uploaded, Fetched, Left, Running, NoCall
  <2>5. OnlyDoneIsPublished /\ PublishedIntact
    BY <1>1 DEF Init, OnlyDoneIsPublished, PublishedIntact
  <2> QED
    BY <2>1, <2>3, <2>4, <2>5 DEF OrderlyInv
<1>2. ASSUME OrderlyInv, Next, OnlyDoneIsPublished' PROVE OrderlyInv'
  BY <1>2, InvInductive, OrderStep, ContentStep, IntactStep DEF OrderlyInv
<1>3. ASSUME OrderlyInv, UNCHANGED vars PROVE OrderlyInv'
  <2>1. Inv' /\ Order'
    BY <1>3, InvInductive DEF vars, OrderlyInv, Order, Single, WorksFor, OpenFiles, Requested,
       Handed, Swept, Unused
  <2>2. Measured' /\ Left'
    BY <1>3 DEF vars, OrderlyInv, Content, Measured, Left, WholeSize, Size, Torn, Running
  <2>3. Uploaded'
    BY <1>3 DEF vars, OrderlyInv, Content, Uploaded, Sent, Torn, Running
  <2>4. Fetched'
    BY <1>3 DEF vars, OrderlyInv, Content, Fetched, FetchedBy, Size, Running
  <2>5. OnlyDoneIsPublished' /\ PublishedIntact'
    <3>1. UNCHANGED <<iso, publisher, about, restarted>> /\ OnlyDoneIsPublished /\ PublishedIntact
      BY <1>3 DEF vars, OrderlyInv
    <3>2. OnlyDoneIsPublished'
      BY <1>3 DEF vars, OrderlyInv, OnlyDoneIsPublished
    <3> QED
      BY <3>1, <3>2, IntactQuiet
  <2> QED
    BY <2>1, <2>2, <2>3, <2>4, <2>5 DEF OrderlyInv, Content
<1> QED
  BY <1>1, <1>2, <1>3

\* The invariant holds in every state of orderly use.
LEMMA OrderlyHolds == ASSUME Orderly PROVE Spec => []OrderlyInv
<1>1. /\ Init => OrderlyInv
      /\ OrderlyInv /\ [Next]_vars /\ OnlyDoneIsPublished' => OrderlyInv'
  BY OrderlyInductive
<1> QED
  BY <1>1, PublishedIsDone, PTL DEF Spec

\* What an upload, or a fetch with a sha256, has put under the final name is the whole image,
\* also over what the program's last life left; a fetch without one needs a mirror that says how
\* long the file is, and otherwise publishes at worst the beginning of the image and nothing else
\* (upload_finish, _fetch_worker), in orderly use.
THEOREM PublishedIsIntact == ASSUME Orderly PROVE Spec => []PublishedIntact
<1>1. OrderlyInv => PublishedIntact
  BY DEF OrderlyInv
<1> QED
  BY <1>1, OrderlyHolds, PTL

\* However its transfers ended, the program leaves no part behind while it runs
\* (cancel_transfer, _fail, the worker's finally), in orderly use.
THEOREM NothingIsLeft == ASSUME Orderly PROVE Spec => []NoLeftover
<1>1. OrderlyInv => NoLeftover
  BY DEF OrderlyInv, Content, Left, NoLeftover, AtRest, OtherwiseAtRest
<1> QED
  BY <1>1, OrderlyHolds, PTL

\* Chunks an upload has acknowledged are in its part until it ends: nobody removes or cuts it
\* (upload_chunk, upload_init), in orderly use.
THEOREM AcknowledgedIsKept == ASSUME Orderly PROVE Spec => []AcknowledgedKept
<1>1. OrderlyInv => AcknowledgedKept
  <2> SUFFICES ASSUME OrderlyInv, NEW t \in Running, about[t].kind = "upload"
               PROVE  part # NoFile /\ Len(part) >= received[t]
    BY DEF AcknowledgedKept
  <2>1. part # NoFile /\ Len(part) >= Sent(t)
    BY DEF OrderlyInv, Content, Uploaded
  <2>2. received[t] \in Nat /\ part \in File
    BY DEF OrderlyInv, Inv, TypeOK, Running
  <2>3. part \in Seq(Chunk)
    BY <2>1, <2>2, Zenon DEF File
  <2>4. Len(part) \in Nat
    BY <2>3
  <2> QED
    BY <2>1, <2>2, <2>4 DEF Sent
<1> QED
  BY <1>1, OrderlyHolds, PTL
=============================================================================
