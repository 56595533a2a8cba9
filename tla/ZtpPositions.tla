---------------------------- MODULE ZtpPositions ----------------------------
(***************************************************************************)
(* The register of ZTP positions: api/ztp.py 215-564 and                   *)
(* ct/ztp/positions.py.  A position is a place in a rack with the address  *)
(* planned for it; the device that turns up there is claimed by its MAC.   *)
(* A handler reads the register of a template, checks, and writes in one   *)
(* transaction.  SQLite lets one writer in at a time, and its unique       *)
(* indexes have the last word (core/models.py 307-315).                    *)
(***************************************************************************)
EXTENDS Naturals, FiniteSets, SequencesExt

CONSTANTS
  Place,     \* codes of positions
  Addr,      \* addresses for management
  Mac,       \* devices
  ZtpRequests,  \* how many requests
  MaxRows,   \* how many rows there ever are
  MaxLines   \* how many lines and forms are sent in all

NoMac == ""      \* not claimed
BadMac == "bad"  \* a cell that is not empty and no MAC

ASSUME ZtpPositionsAssumption ==
  /\ ZtpRequests \in Nat /\ MaxRows \in Nat /\ MaxLines \in Nat
  /\ {NoMac, BadMac} \cap Mac = {}

VARIABLES
  rows,      \* the table ztp_positions of one template, by id
  handler,   \* the handlers
  outdated   \* history: rows written on the strength of a reading that was out of date

ztpVars == <<rows, handler, outdated>>

ZtpRequest == 1..ZtpRequests

\* claimed stands for claimed_at.
Position == [here : BOOLEAN, place : Place, ip : Addr, mac : Mac \cup {NoMac},
        claimed : BOOLEAN, source : {"manual", "claim"}]

\* A line of a file, and the body of a form.
Line == [place : Place, ip : Addr, mac : Mac \cup {NoMac, BadMac}]

Form == [place : Place, ip : Addr, mac : Mac \cup {NoMac}]

\* A handler: what it was asked, the register as it read it, whether somebody has
\* written since, and its answer.
Handler == [at : {"new", "read", "ok", "refused", "failed"},
            kind : {"create", "update", "delete", "claim", "import", "replace"},
            row : 0..MaxRows, lines : UNION {[1..n -> Line] : n \in 0..MaxLines},
            late : BOOLEAN, skipped : 0..MaxLines]

Present(table) == {i \in DOMAIN table : table[i].here}

\* The unique constraints: place, address, and MAC when there is one.
Unique(table) ==
  \A i, j \in Present(table) : i # j =>
    /\ table[i].place # table[j].place
    /\ table[i].ip # table[j].ip
    /\ table[i].mac # NoMac => table[i].mac # table[j].mac

ZtpTypeOK ==
  /\ rows \in Seq(Position) /\ Len(rows) <= MaxRows /\ Unique(rows)
  /\ \A r \in ZtpRequest :
       /\ [f \in DOMAIN handler[r] \ {"seen"} |-> handler[r][f]] \in Handler
       /\ handler[r].seen \in Seq(Position) /\ Len(handler[r].seen) <= Len(rows)
  /\ outdated \subseteq DOMAIN rows

Fresh(l, source) ==
  [here |-> TRUE, place |-> l.place, ip |-> l.ip, mac |-> l.mac,
   claimed |-> l.mac # NoMac, source |-> source]

\* A register that earlier requests have filled, one after the other.
ZtpInit ==
  /\ \E n \in 0..MaxRows - MaxLines :
       \E forms \in [1..n -> Form] :
         /\ rows = [i \in 1..n |-> Fresh(forms[i], IF forms[i].mac = NoMac THEN "manual" ELSE "claim")]
         /\ Unique(rows)
  /\ handler = [r \in ZtpRequest |-> [at |-> "new", kind |-> "create", row |-> 0, lines |-> <<>>,
                               late |-> FALSE, skipped |-> 0, seen |-> <<>>]]
  /\ outdated = {}

-----------------------------------------------------------------------------
(* Reading and checking. *)

\* _dup_conflicts: what a form for row i (0 for a new one) may not share with another.
Conflicts(table, f, i) ==
  \E j \in Present(table) \ {i} :
    \/ table[j].place = f.place
    \/ table[j].ip = f.ip
    \/ f.mac # NoMac /\ table[j].mac = f.mac

\* A request comes in, of n lines or forms.
Comes(r, n) ==
  /\ handler[r].at = "new" /\ \A q \in 1..r - 1 : handler[q].at # "new"
  /\ n + FoldFunctionOnSet(LAMBDA h, k : Len(h.lines) + k, 0, handler, ZtpRequest) <= MaxLines

\* Its handler reads the register, and stops there if it does not like what it sees.
Read(r, kind, i, lines, fine) ==
  /\ handler' = [handler EXCEPT ![r] = [@ EXCEPT !.at = IF fine THEN "read" ELSE "refused",
                                !.kind = kind, !.row = i, !.lines = lines, !.seen = rows]]
  /\ UNCHANGED <<rows, outdated>>

\* create_position
ReadCreate(r) ==
  Comes(r, 1) /\ \E f \in Form : Read(r, "create", 0, <<f>>, ~Conflicts(rows, f, 0))

\* update_position
ReadUpdate(r) ==
  /\ Comes(r, 1)
  /\ \E i \in Present(rows), f \in Form : Read(r, "update", i, <<f>>, ~Conflicts(rows, f, i))

\* delete_position
ReadDelete(r) == Comes(r, 0) /\ \E i \in Present(rows) : Read(r, "delete", i, <<>>, TRUE)

\* Mutant of ReadClaim: only the other positions are looked at.
ReadClaimTakesOver(r) ==
  /\ Comes(r, 1)
  /\ \E i \in Present(rows), m \in Mac :
       Read(r, "claim", i, <<[place |-> rows[i].place, ip |-> rows[i].ip, mac |-> m]>>,
            \A j \in Present(rows) \ {i} : rows[j].mac # m)

\* claim_position: another position must not have the MAC, nor this one another MAC.
ReadClaim(r) ==
  /\ Comes(r, 1)
  /\ \E i \in Present(rows), m \in Mac :
       Read(r, "claim", i, <<[place |-> rows[i].place, ip |-> rows[i].ip, mac |-> m]>>,
            /\ \A j \in Present(rows) \ {i} : rows[j].mac # m
            /\ rows[i].mac \in {NoMac, m})

\* import_positions, with at least one line that parse_positions_csv lets through.
ReadImport(r) ==
  \E n \in 1..MaxLines :
    /\ Comes(r, n)
    /\ \E kind \in {"import", "replace"}, lines \in [1..n -> Line] : Read(r, kind, 0, lines, TRUE)

-----------------------------------------------------------------------------
(* What an import plans to do, given the register it read. *)

\* The lines by place: a later line takes the place of an earlier one, in its order.
\* Lines with a bad MAC are skipped.
ByPlace(lines) ==
  FoldLeft(LAMBDA plan, l :
             IF l.mac = BadMac THEN plan
             ELSE IF \E k \in DOMAIN plan : plan[k].place = l.place
               THEN [k \in DOMAIN plan |-> IF plan[k].place = l.place THEN l ELSE plan[k]]
               ELSE Append(plan, l),
           <<>>, lines)

\* Of two that share an address or a MAC the later one is dropped.
Apart(plan) ==
  FoldLeft(LAMBDA kept, l :
             IF \E k \in Range(kept) : k.ip = l.ip \/ (l.mac # NoMac /\ k.mac = l.mac)
             THEN kept ELSE Append(kept, l),
           <<>>, plan)

\* Mutant of Against: also rows that are to change are in the way as they are now.
AgainstAll(kept, acc, row) ==
  LET dropped == {l \in kept : /\ l.place # row.place
                               /\ l.ip = row.ip \/ (row.mac # NoMac /\ l.mac = row.mac)}
  IN [acc EXCEPT !.plan = @ \ dropped]

\* One row of the register that no line is about, against the lines.  The line that
\* wants its address is dropped, and the line that wants its MAC; the place is
\* forgotten in the first case only, and a line already dropped is looked up there
\* (a KeyError).
Against(kept, acc, row) ==
  LET ipOwners == {l \in kept : l.ip = row.ip}
      macOwners == {l \in kept : row.mac # NoMac /\ l.mac = row.mac}
  IN IF row.place \in acc.places \/ acc.broken THEN acc
     ELSE [plan |-> acc.plan \ (ipOwners \cup macOwners),
           places |-> acc.places \ {l.place : l \in ipOwners},
           broken |-> ~(ipOwners \subseteq acc.plan)]

Planned(lines, table) ==
  LET kept == Range(Apart(ByPlace(lines)))
  IN FoldLeft(LAMBDA acc, row : IF row.here THEN Against(kept, acc, row) ELSE acc,
              [plan |-> kept, places |-> {l.place : l \in kept}, broken |-> FALSE], table)

Skipped(lines, table) ==
  Cardinality({k \in DOMAIN lines : lines[k].mac = BadMac}) + Len(ByPlace(lines))
    - Cardinality(Planned(lines, table).plan)

\* The rows that change are first moved out of the way, which takes their MAC; then
\* they get the address and, if the line has one, the MAC of the line.
Moves(l, row) == row.ip # l.ip \/ (l.mac # NoMac /\ row.mac # l.mac)

\* Mutant of Written: the device is entered without the time of the claim.
WrittenUnclaimed(now, seen, l) ==
  IF ~Moves(l, seen) THEN now
  ELSE [now EXCEPT !.ip = l.ip, !.mac = IF l.mac # NoMac THEN l.mac ELSE seen.mac]

Written(now, seen, l) ==
  IF ~Moves(l, seen) THEN now
  ELSE [now EXCEPT !.ip = l.ip,
                   !.mac = IF l.mac # NoMac THEN l.mac
                           ELSE IF seen.mac # NoMac THEN NoMac ELSE @,
                   !.claimed = @ \/ (l.mac # NoMac /\ ~seen.claimed)]

\* The register after an import that read the table seen.
Imported(table, seen, plan) ==
  LET line(i) == {l \in plan : i \in Present(seen) /\ l.place = seen[i].place}
      new == SetToSeq({l \in plan : \A i \in Present(seen) : seen[i].place # l.place})
  IN [i \in DOMAIN table |->
        IF i > Len(seen) THEN table[i]
        ELSE IF line(i) = {} THEN table[i]
        ELSE Written(table[i], seen[i], CHOOSE l \in line(i) : TRUE)]
     \o [k \in DOMAIN new |-> Fresh(new[k], "manual")]

\* A row that another request has removed cannot be moved.
Missing(table, seen, plan) ==
  \E i \in Present(seen), l \in plan :
    l.place = seen[i].place /\ Moves(l, seen[i]) /\ ~table[i].here

-----------------------------------------------------------------------------
(* Writing. *)

Reading(r, kinds) == handler[r].at = "read" /\ handler[r].kind \in kinds

End(r, answer, skipped) ==
  [q \in ZtpRequest |-> IF q = r THEN [handler[r] EXCEPT !.at = answer, !.skipped = skipped, !.seen = <<>>]
                     ELSE IF handler[q].at = "read" /\ answer = "ok" THEN [handler[q] EXCEPT !.late = TRUE]
                     ELSE handler[q]]

\* A transaction: it goes through if the indexes allow it.
Commit(r, table, skipped, otherwise) ==
  LET fine == Unique(table)
      touched == {i \in DOMAIN table : i > Len(rows) \/ table[i] # rows[i]}
  IN /\ Len(table) <= MaxRows
     /\ rows' = IF fine THEN table ELSE rows
     /\ handler' = End(r, IF fine THEN "ok" ELSE otherwise, IF fine THEN skipped ELSE 0)
     /\ outdated' = IF fine /\ handler[r].late THEN outdated \cup touched ELSE outdated

\* The handler ends in an exception, and the transaction with it.
Fail(r) == handler' = End(r, "failed", 0) /\ UNCHANGED <<rows, outdated>>

\* create_position: a breach of an index is answered with 409.
CommitCreate(r) ==
  /\ Reading(r, {"create"})
  /\ Commit(r, Append(rows, Fresh(handler[r].lines[1], "manual")), 0, "refused")

\* update_position writes what is not as it was read, and the MAC only then.
Updated(now, seen, f) ==
  LET moved == [now EXCEPT !.place = IF f.place = seen.place THEN @ ELSE f.place,
                           !.ip = IF f.ip = seen.ip THEN @ ELSE f.ip]
  IN IF f.mac = seen.mac THEN moved
     ELSE [moved EXCEPT !.mac = f.mac, !.claimed = f.mac # NoMac, !.source = "manual"]

CommitUpdate(r) ==
  LET i == handler[r].row
  IN /\ Reading(r, {"update"}) /\ rows[i].here
     /\ Commit(r, [rows EXCEPT ![i] = Updated(@, handler[r].seen[i], handler[r].lines[1])], 0, "refused")

\* claim_position: the column mac is written if it is not as read.
Claimed(now, seen, m) ==
  [now EXCEPT !.mac = IF seen.mac = m THEN @ ELSE m, !.claimed = TRUE,
              !.source = IF seen.source = "claim" THEN @ ELSE "claim"]

CommitClaim(r) ==
  LET i == handler[r].row
  IN /\ Reading(r, {"claim"}) /\ rows[i].here
     /\ Commit(r, [rows EXCEPT ![i] = Claimed(@, handler[r].seen[i], handler[r].lines[1].mac)], 0, "refused")

\* The row to be changed is gone: StaleDataError, which nobody catches.
CommitNothing(r) ==
  /\ Reading(r, {"update", "claim"}) /\ ~rows[handler[r].row].here
  /\ Fail(r)

\* delete_position
CommitDelete(r) ==
  /\ Reading(r, {"delete"})
  /\ Commit(r, [rows EXCEPT ![handler[r].row].here = FALSE], 0, "refused")

\* import_positions: what is planned are lines of the file.  With replace the rows it
\* read are deleted first, and what is left is the register it works on.
Cleared(r) ==
  [i \in DOMAIN rows |->
     IF i <= Len(handler[r].seen) THEN [rows[i] EXCEPT !.here = @ /\ ~handler[r].seen[i].here] ELSE rows[i]]

ImportFrom(r, table, seen) ==
  LET p == Planned(handler[r].lines, seen)
      plan == p.plan \cap Range(handler[r].lines)
  IN IF p.broken \/ Missing(table, seen, plan) THEN Fail(r)
     ELSE Commit(r, Imported(table, seen, plan), Skipped(handler[r].lines, seen), "failed")

CommitImport(r) == Reading(r, {"import"}) /\ ImportFrom(r, rows, handler[r].seen)

CommitReplace(r) == Reading(r, {"replace"}) /\ ImportFrom(r, Cleared(r), Cleared(r))

ZtpNext ==
  \E r \in ZtpRequest :
    \/ ReadCreate(r) \/ ReadUpdate(r) \/ ReadDelete(r) \/ ReadClaim(r) \/ ReadImport(r)
    \/ CommitCreate(r) \/ CommitUpdate(r) \/ CommitClaim(r) \/ CommitNothing(r)
    \/ CommitDelete(r) \/ CommitImport(r) \/ CommitReplace(r)

ZtpSpec == ZtpInit /\ [][ZtpNext]_ztpVars

-----------------------------------------------------------------------------
(* Properties. *)

\* Request r has just been answered with success.
Succeeds(r) == handler[r].at = "read" /\ handler'[r].at = "ok"

\* A position that has a device counts as claimed (models.py 303-304), if no two
\* handlers were at it at once: an import never leaves a device on a position that
\* the list shows as waiting.
DeviceIsClaimed ==
  \A i \in Present(rows) \ outdated : rows[i].mac # NoMac => rows[i].claimed

\* A claim never takes a position from the device that has it (ztp.py 542-553), and an
\* import does so only by a line with the new MAC: the old device would fall back
\* to the default configuration without a word.  Requests that read an old register
\* are left out; two claims of one position at once do just that.
OwnerChangesOpenly ==
  [][\A r \in ZtpRequest, i \in Present(rows) :
       Succeeds(r) /\ ~handler[r].late /\ rows'[i].here
         /\ rows[i].mac # NoMac /\ rows'[i].mac \notin {NoMac, rows[i].mac} =>
         /\ handler[r].kind \in {"update", "import"}
         /\ \E l \in Range(handler[r].lines) : l.mac = rows'[i].mac]_ztpVars

\* The register as a file wants it: the rows it names with their new address and, if
\* given, their new MAC, beside all others.
Wanted(lines) ==
  LET last(p) == lines[CHOOSE k \in DOMAIN lines :
                         lines[k].place = p /\ \A j \in DOMAIN lines : lines[j].place = p => j <= k]
      named == {l.place : l \in Range(lines)}
      old == {rows[i] : i \in Present(rows)}
      had(p) == {row \in old : row.place = p /\ row.mac # NoMac}
  IN {[place |-> row.place, ip |-> row.ip, mac |-> row.mac] : row \in {o \in old : o.place \notin named}}
     \cup {[place |-> p, ip |-> last(p).ip,
            mac |-> IF last(p).mac # NoMac \/ had(p) = {} THEN last(p).mac
                    ELSE (CHOOSE row \in had(p) : TRUE).mac] : p \in named}

Consistent(forms) ==
  \A f, g \in forms : f # g => /\ f.place # g.place /\ f.ip # g.ip
                               /\ f.mac # NoMac => f.mac # g.mac

Clean(lines) == \A l \in Range(lines) : l.mac # BadMac

\* What counts is the final state (ztp.py 402-405): a file whose outcome is free of
\* conflicts is taken whole, whatever it swaps and in whatever order.
FinalStateDecides ==
  [][\A r \in ZtpRequest :
       Reading(r, {"import"}) /\ handler'[r].at # "read" /\ ~handler[r].late
         /\ Clean(handler[r].lines) /\ Consistent(Wanted(handler[r].lines)) =>
       /\ handler'[r].at = "ok" /\ handler'[r].skipped = 0
       /\ {[place |-> rows'[i].place, ip |-> rows'[i].ip] : i \in Present(rows')}
            = {[place |-> w.place, ip |-> w.ip] : w \in Wanted(handler[r].lines)}]_ztpVars

\* An empty MAC in a file leaves the claim alone (ztp.py 476).  It does not when the
\* address changes.
EmptyCellKeepsClaim ==
  [][\A r \in ZtpRequest :
       Succeeds(r) /\ ~handler[r].late /\ handler[r].kind = "import" =>
         \A i \in Present(rows) :
           (\A l \in Range(handler[r].lines) : l.place = rows[i].place => l.mac = NoMac)
             => rows'[i].mac = rows[i].mac]_ztpVars

\* An import that has no line to use removes nothing (ztp.py 378-381).  It empties the
\* register if every line has a MAC that cannot be read.
NothingUsableNothingRemoved ==
  [][\A r \in ZtpRequest :
       Succeeds(r) /\ handler[r].kind = "replace" /\ Present(rows) # {} => Present(rows') # {}]_ztpVars

=============================================================================
