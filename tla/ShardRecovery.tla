---------------------------- MODULE ShardRecovery ----------------------------
(***************************************************************************)
(* A shard: the rows of the database that belong to it and the file that   *)
(* repeats them, one line for each save, from which they can be rebuilt    *)
(* (internal/storage/shard.go, recovery.go, persistWithShard of sqlite.go). *)
(* A record keeps its shard for life, so shards do not meet.               *)
(*                                                                         *)
(* A save commits, then appends to the file, and ignores whether that      *)
(* worked.  Rows and lines are identified by the number of the save they   *)
(* come from.  A row has two parts: replay renews the "head" (state,       *)
(* version and links) of a row that is there and leaves its "body" alone.  *)
(* No two records share a unique number (session_no, request_no).          *)
(*                                                                         *)
(* The shard's row in shard_meta holds the checksum the last rebuild took  *)
(* of the file, which Certify compares with the file as it is.  Checksums  *)
(* are told apart as their contents are.                                   *)
(***************************************************************************)
EXTENDS Nothing, Naturals, Sequences, FiniteSetsExt

CONSTANTS
  Records,   \* ids of the shard's records
  KindOf,    \* id -> kind
  Writers,   \* goroutines that save: bounds how many are at it at once
  MaxSaves,  \* id -> bound on its saves
  Overlap    \* may two saves of one record overlap?

Kinds == {"session", "handshake", "mitigation", "telemetry"}

ASSUME KindsKnown == KindOf \in [Records -> Kinds]
ASSUME SavesBounded == MaxSaves \in [Records -> Nat]
ASSUME OverlapKnown == Overlap \in BOOLEAN
ASSUME NoneIsNoRecord == None \notin Records

VARIABLES
  row,    \* the tables: id -> the saves its head and body come from, 0 for no row
  saves,  \* id -> how many saves were committed
  file,   \* the lines of the shard's file
  open,   \* is the last line without its newline?
  exists, \* has the file been created, if only as an empty one?
  write,  \* writer -> the line it has committed and not appended yet
  replay, \* what RecoverFromShards has read and not replayed yet
  meta    \* the checksum in the shard's row of shard_meta

vars == <<row, saves, file, open, exists, write, replay, meta>>

Line(id, n) == [id |-> id, save |-> n]

\* What does not parse.
Garbage == Line(None, 0)

Lines == [id : Records, save : Nat \ {0}] \cup {Garbage}

NoLine == Line(None, 0)

Rows == [head : Nat, body : Nat]

NoRow == [head |-> 0, body |-> 0]

NotReading == [reading |-> FALSE, data |-> <<>>, open |-> FALSE]

\* What a checksum is of: the lines, and whether the last one is finished.
Content(lines, unfinished) == [of |-> "file", lines |-> lines, open |-> unfinished]

Checksums == [of : {"no row", "nothing", "file"}, lines : Seq(Lines), open : BOOLEAN]

\* The shard has no row yet, or its row has the checksum ''.
NoMeta == [of |-> "no row", lines |-> <<>>, open |-> FALSE]
Unchecked == [of |-> "nothing", lines |-> <<>>, open |-> FALSE]

\* Every state is well typed: a row holds a save that was made, a line one that
\* was appended, and what a rebuild read is a file (persistWithShard, recoverShard).
TypeOK ==
  /\ row \in [Records -> Rows]
  /\ saves \in [Records -> Nat]
  /\ file \in Seq(Lines)
  /\ open \in BOOLEAN
  /\ write \in [Writers -> Lines]
  /\ replay \in [reading : BOOLEAN, data : Seq(Lines), open : BOOLEAN]
  /\ exists \in BOOLEAN
  /\ meta \in Checksums

Init ==
  /\ row = [id \in Records |-> NoRow]
  /\ saves = [id \in Records |-> 0]
  /\ file = <<>>
  /\ open = FALSE /\ exists = FALSE
  /\ write = [w \in Writers |-> NoLine]
  /\ replay = NotReading
  /\ meta = NoMeta

-----------------------------------------------------------------------------
(***************************************************************************)
(* Saving.  Services save new records and those they have read; telemetry  *)
(* is only ever inserted, a mitigation first by Submit.                    *)
(***************************************************************************)
Savable(id) ==
  /\ saves[id] < MaxSaves[id]
  /\ saves[id] = 0 \/ (row[id] # NoRow /\ KindOf[id] # "telemetry")
  /\ Overlap \/ \A w \in Writers : write[w].id # id

\* Submit saves a new mitigation within its own transaction.
ByServiceTx(id) == KindOf[id] = "mitigation" /\ saves[id] = 0

\* Defect: an off-by-one of the version.
Committed_Early(id) ==
  /\ saves' = [saves EXCEPT ![id] = @ + 1]
  /\ row' = [row EXCEPT ![id] = [head |-> saves[id] - 1, body |-> saves[id] - 1]]

Committed(id) ==
  /\ saves' = [saves EXCEPT ![id] = @ + 1]
  /\ row' = [row EXCEPT ![id] = [head |-> saves[id] + 1, body |-> saves[id] + 1]]

\* ensureShardMetaTx, in the transaction of a save: a row that is there keeps
\* the checksum it has.  Telemetry is saved without it.
MetaEnsured(id) ==
  meta' = IF meta = NoMeta /\ KindOf[id] # "telemetry" THEN Unchecked ELSE meta

Commit(w, id) ==
  /\ write[w] = NoLine /\ Savable(id) /\ ~ByServiceTx(id)
  /\ Committed(id) /\ MetaEnsured(id)
  /\ write' = [write EXCEPT ![w] = Line(id, saves[id] + 1)]
  /\ UNCHANGED <<file, open, exists, replay>>

\* Nothing is appended for what a service saved within its transaction.
SubmitTx(id) ==
  /\ ByServiceTx(id) /\ Savable(id)
  /\ Committed(id) /\ MetaEnsured(id)
  /\ UNCHANGED <<file, open, exists, write, replay>>

\* A line that is appended to one without a newline makes one that does not parse.
Appended(line) ==
  IF open THEN [file EXCEPT ![Len(file)] = Garbage] ELSE Append(file, line)

\* Defect: the file is written from its start.
AppendLine_Overwrites(w) ==
  /\ write[w] # NoLine
  /\ file' = IF file = <<>> THEN <<write[w]>> ELSE [file EXCEPT ![1] = write[w]]
  /\ open' = FALSE /\ exists' = TRUE
  /\ write' = [write EXCEPT ![w] = NoLine]
  /\ UNCHANGED <<row, saves, replay, meta>>

AppendLine(w) ==
  /\ write[w] # NoLine
  /\ file' = Appended(write[w])
  /\ open' = FALSE /\ exists' = TRUE
  /\ write' = [write EXCEPT ![w] = NoLine]
  /\ UNCHANGED <<row, saves, replay, meta>>

\* The file cannot be opened, or is opened, which creates it, and not written:
\* nobody is told.
Skip(w) ==
  /\ write[w] # NoLine
  /\ exists' \in {exists, TRUE}
  /\ write' = [write EXCEPT ![w] = NoLine]
  /\ UNCHANGED <<row, saves, file, open, replay, meta>>

\* The write ends early: within the line, or just before its newline.
Tear(w, written) ==
  /\ write[w] # NoLine
  /\ file' = Appended(written)
  /\ open' = TRUE /\ exists' = TRUE
  /\ write' = [write EXCEPT ![w] = NoLine]
  /\ UNCHANGED <<row, saves, replay, meta>>

-----------------------------------------------------------------------------
(***************************************************************************)
(* Recovery reads the file, then replays it in one transaction, which also *)
(* stores the checksum of what was read.                                   *)
(***************************************************************************)
ReadShard ==
  /\ ~replay.reading /\ exists
  /\ replay' = [reading |-> TRUE, data |-> file, open |-> open]
  /\ UNCHANGED <<row, saves, file, open, exists, write, meta>>

\* Where the data holds a save of a record.
Found(data, id) == {k \in DOMAIN data : data[k].id = id}

\* Defect: a row that is there is taken to be what the first line of it says.
Replayed_Once(old, kind, data, id) ==
  LET found == Found(data, id)
  IN  IF found = {} \/ kind = "handshake" THEN old
      ELSE [head |-> data[Min(found)].save,
            body |-> IF kind = "telemetry" \/ old = NoRow THEN data[Min(found)].save
                     ELSE old.body]

\* The row of a record when every line of it has been executed in turn.  A
\* statement that fails is reported and passed over.  The statement for
\* handshakes has one placeholder too many and fails on every record.
Replayed(old, kind, data, id) ==
  LET found == Found(data, id)
      first == data[Min(found)].save
      last == data[Max(found)].save
  IN  IF found = {} \/ kind = "handshake" THEN old
      ELSE [head |-> last,
            body |-> CASE kind = "telemetry" -> last
                       [] kind # "telemetry" /\ old = NoRow -> first
                       [] OTHER -> old.body]

\* Defect: the first line that does not parse ends the replay.
Replay_ToGarbage ==
  LET ok == {n \in 0..Len(replay.data) : \A k \in 1..n : replay.data[k] # Garbage}
      data == SubSeq(replay.data, 1, CHOOSE n \in ok : \A k \in ok : k <= n)
  IN  /\ replay.reading
      /\ row' = [id \in Records |-> Replayed(row[id], KindOf[id], data, id)]
      /\ meta' = Content(replay.data, replay.open)
      /\ replay' = NotReading
      /\ UNCHANGED <<saves, file, open, exists, write>>

\* Defect: the checksum is taken of the file as it is by then.
Replay_Rereads ==
  /\ replay.reading
  /\ row' = [id \in Records |-> Replayed(row[id], KindOf[id], replay.data, id)]
  /\ meta' = Content(file, open)
  /\ replay' = NotReading
  /\ UNCHANGED <<saves, file, open, exists, write>>

Replay ==
  /\ replay.reading
  /\ row' = [id \in Records |-> Replayed(row[id], KindOf[id], replay.data, id)]
  /\ meta' = Content(replay.data, replay.open)
  /\ replay' = NotReading
  /\ UNCHANGED <<saves, file, open, exists, write>>

\* The transaction cannot be begun or committed.
GiveUp ==
  /\ replay.reading
  /\ replay' = NotReading
  /\ UNCHANGED <<row, saves, file, open, exists, write, meta>>

-----------------------------------------------------------------------------
\* The process dies and is started again.
Crash ==
  /\ write' = [w \in Writers |-> NoLine]
  /\ replay' = NotReading
  /\ UNCHANGED <<row, saves, file, open, exists, meta>>

\* External: with the process down the database is lost, the files are not.
Lose ==
  /\ row' = [id \in Records |-> NoRow]
  /\ meta' = NoMeta
  /\ write' = [w \in Writers |-> NoLine]
  /\ replay' = NotReading
  /\ UNCHANGED <<saves, file, open, exists>>

Next ==
  \/ \E w \in Writers :
       \/ \E id \in Records : Commit(w, id)
       \/ AppendLine(w) \/ Skip(w)
       \/ \E written \in {write[w], Garbage} : Tear(w, written)
  \/ \E id \in Records : SubmitTx(id)
  \/ ReadShard \/ Replay \/ GiveUp
  \/ Crash \/ Lose

Spec == Init /\ [][Next]_vars

-----------------------------------------------------------------------------
(***************************************************************************)
(* Certify: is the shard counted as OK?  No row is ever marked damaged.    *)
(***************************************************************************)
Certified ==
  /\ meta # NoMeta /\ exists
  /\ meta = Unchecked \/ meta = Content(file, open)

-----------------------------------------------------------------------------
(***************************************************************************)
(* Properties.                                                             *)
(***************************************************************************)

\* The lines of a record repeat its commits in their order.
History(data) ==
  \A j, k \in 1..Len(data) :
    data[j] # Garbage =>
      /\ data[j].save <= saves[data[j].id]
      /\ j < k /\ data[k].id = data[j].id => data[j].save < data[k].save

\* The file holds nothing that was not committed, and each record's saves in
\* their order: through lines cut short, lost appends and crashes.
FileIsHistory == History(file)

\* The last save of a record is among the lines.
Logged(data, id) == \E k \in 1..Len(data) : data[k] = Line(id, saves[id])

\* A rebuild puts every record whose last save the file holds into its last
\* state, whether its row is missing, stale or current: damaged lines cost the
\* records they stand for and no other.  Handshakes never come back.
RebuildRestores ==
  [][Replay => \A id \in Records :
       KindOf[id] # "handshake" /\ Logged(replay.data, id) =>
         row'[id].head = saves[id]]_vars

\* A rebuild beside running writers leaves a current row alone whose last save
\* was in the file when it was read.
RebuildHarmless ==
  [][Replay => \A id \in Records :
       row[id].head = saves[id] /\ Logged(replay.data, id) => row'[id] = row[id]]_vars

\* A shard that Certify finds OK by its checksum has rows at least as new as
\* its file, line by line, whatever was saved while it was being rebuilt.
CertifiedIsCurrent ==
  Certified /\ meta # Unchecked =>
    \A k \in 1..Len(file) : file[k] # Garbage /\ KindOf[file[k].id] # "handshake" =>
      row[file[k].id].head >= file[k].save

(***************************************************************************)
(* What the repository says and the code does not do.                      *)
(***************************************************************************)

\* "Certify data integrity: shard checksums and consistency": a shard whose
\* file is whole and holds the last save of every record, and whose rows are all
\* as last saved, is not reported as damaged.
IntactIsCertified ==
  /\ meta # NoMeta /\ exists /\ ~open
  /\ \A id \in Records :
       saves[id] > 0 => Logged(file, id) /\ row[id].head = saves[id]
  /\ \A k \in 1..Len(file) : file[k] # Garbage
  => Certified
=============================================================================
