---------------------------- MODULE ShardProofs ----------------------------
(***************************************************************************)
(* Theorems of ShardRecovery for any records, kinds, writers and bounds:   *)
(* the file is a history, a rebuild restores and harms nothing, and what   *)
(* Certify finds OK by its checksum is current.  All but type correctness  *)
(* are about saves of one record that do not overlap.                      *)
(***************************************************************************)
EXTENDS ShardRecovery, SequenceTheorems, WellFoundedInduction, TLAPS

(***************************************************************************)
(* Lines, and the first and last of a record's.                            *)
(***************************************************************************)

LEMMA LineFacts ==
  ASSUME NEW line \in Lines
  PROVE  /\ line.id \in Records \cup {None} /\ line.save \in Nat
         /\ line # Garbage <=> line.id \in Records
         /\ line.id \in Records => line.save > 0
  BY NoneIsNoRecord DEF Lines, Garbage, Line

LEMMA MinExists ==
  ASSUME NEW S, S \subseteq Nat, S # {}
  PROVE  \E x \in S : \A y \in S : x <= y
<1>1. PICK x \in S : \A y \in S : ~(<<y, x>> \in OpToRel(<, Nat))
  BY WFMin, NatLessThanWellFounded, Zenon
<1>2. ASSUME NEW y \in S, y < x PROVE FALSE
  <2>1. <<y, x>> \in OpToRel(<, Nat)
    BY <1>2 DEF OpToRel
  <2>2. QED
    BY <1>1, <2>1
<1>3. QED
  BY <1>2, SMT

LEMMA MinMax ==
  ASSUME NEW n \in Nat, NEW S, S \subseteq 1..n, S # {}
  PROVE  Min(S) \in S /\ Max(S) \in S /\ \A k \in S : k <= Max(S)
<1> S \subseteq Nat /\ \A k \in S : n - k \in Nat
  OBVIOUS
<1>1. \E x \in S : \A y \in S : x <= y
  BY MinExists
<1>2. \E x \in S : \A y \in S : x >= y
  <2> DEFINE T == {n - k : k \in S}
  <2>1. T \subseteq Nat /\ T # {}
    BY Zenon
  <2>2. PICK x \in T : \A y \in T : x <= y
    BY <2>1, MinExists
  <2>3. PICK k \in S : x = n - k
    OBVIOUS
  <2>4. \A j \in S : n - k <= n - j
    BY <2>2, <2>3
  <2>5. \A j \in S : k >= j
    BY <2>4
  <2>6. QED
    BY <2>5
<1>3. Min(S) \in S
  BY <1>1 DEF Min
<1>4. Max(S) \in S /\ \A y \in S : Max(S) >= y
  BY <1>2 DEF Max
<1>5. QED
  BY <1>3, <1>4

\* What a row that is replayed becomes.
LEMMA ReplayedFacts ==
  ASSUME NEW old \in Rows, NEW kind \in Kinds, NEW data \in Seq(Lines), NEW id \in Records,
         NEW r, r = Replayed(old, kind, data, id)
  PROVE  /\ r \in Rows
         /\ kind = "handshake" \/ Found(data, id) = {} => r = old
         /\ kind # "handshake" /\ Found(data, id) # {} =>
              \E last \in Found(data, id) :
                /\ \A k \in Found(data, id) : k <= last
                /\ r.head = data[last].save
                /\ kind = "telemetry" => r.body = r.head
                /\ kind # "telemetry" /\ old # NoRow => r.body = old.body
<1> DEFINE found == Found(data, id)
           first == data[Min(found)].save
           last == data[Max(found)].save
<1>1. CASE kind = "handshake" \/ found = {}
  BY <1>1 DEF Replayed
<1>2. CASE kind # "handshake" /\ found # {}
  <2>1. found \subseteq 1..Len(data) /\ Len(data) \in Nat
    BY LenProperties DEF Found
  <2>2. Min(found) \in found /\ Max(found) \in found /\ \A k \in found : k <= Max(found)
    BY <1>2, <2>1, MinMax
  <2>3. first \in Nat /\ last \in Nat
    BY <2>1, <2>2, ElementOfSeq, LineFacts
  <2>4. r = [head |-> last,
             body |-> CASE kind = "telemetry" -> last
                        [] kind # "telemetry" /\ old = NoRow -> first
                        [] OTHER -> old.body]
    BY <1>2 DEF Replayed
  <2>5. r.head = last
    BY <2>4
  <2>6. kind = "telemetry" => r.body = last
    BY <2>4
  <2>7. kind # "telemetry" /\ old = NoRow => r.body = first
    BY <2>4
  <2>8. kind # "telemetry" /\ old # NoRow => r.body = old.body
    BY <2>4
  <2>9. r = [head |-> r.head, body |-> r.body]
    BY <2>4
  <2>10. r \in Rows
    BY <2>3, <2>5, <2>6, <2>7, <2>8, <2>9 DEF Rows
  <2>11. QED
    BY <1>2, <2>2, <2>5, <2>6, <2>8, <2>10
<1>3. QED
  BY <1>1, <1>2

\* What a file becomes when something is written to it.
LEMMA AppendedFacts ==
  ASSUME TypeOK, NEW line \in Lines
  PROVE  /\ Appended(line) \in Seq(Lines)
         /\ Len(Appended(line)) >= Len(file)
         /\ \A k \in 1..Len(file) : Appended(line)[k] \in {file[k], Garbage}
         /\ \A k \in 1..Len(Appended(line)) :
              k > Len(file) => k = Len(file) + 1 /\ Appended(line)[k] = line
<1>1. file \in Seq(Lines) /\ Garbage \in Lines /\ Len(file) \in Nat
  BY LenProperties DEF TypeOK, Lines
<1>2. CASE open /\ file # <<>>
  <2>1. Len(file) \in 1..Len(file)
    BY <1>1, <1>2, EmptySeq, SMT
  <2>2. QED
    BY <1>1, <1>2, <2>1, ExceptSeq DEF Appended
<1>3. CASE open /\ file = <<>>
  <2>1. Appended(line) = <<>>
    BY <1>3 DEF Appended
  <2>2. QED
    BY <1>3, <2>1
<1>4. CASE ~open
  BY <1>1, <1>4, AppendProperties DEF Appended
<1>5. QED
  BY <1>2, <1>3, <1>4

\* The checksums of a row, and the lines that each is of.
LEMMA ChecksumFacts ==
  /\ NoMeta \in Checksums /\ NoMeta.lines = <<>>
  /\ Unchecked \in Checksums /\ Unchecked.lines = <<>>
  /\ \A lines \in Seq(Lines), unfinished \in BOOLEAN :
       Content(lines, unfinished) \in Checksums /\ Content(lines, unfinished).lines = lines
<1>1. <<>> \in Seq(Lines)
  OBVIOUS
<1>2. NoMeta \in Checksums /\ NoMeta.lines = <<>>
  BY <1>1 DEF NoMeta, Checksums
<1>3. Unchecked \in Checksums /\ Unchecked.lines = <<>>
  BY <1>1 DEF Unchecked, Checksums
<1>4. ASSUME NEW lines \in Seq(Lines), NEW unfinished \in BOOLEAN
      PROVE  Content(lines, unfinished) \in Checksums /\ Content(lines, unfinished).lines = lines
  BY DEF Content, Checksums
<1> QED
  BY <1>2, <1>3, <1>4

(***************************************************************************)
(* Type correctness.                                                       *)
(***************************************************************************)

LEMMA InitTypeOK == Init => TypeOK
<1> SUFFICES ASSUME Init PROVE TypeOK
  OBVIOUS
<1>1. row \in [Records -> Rows] /\ saves \in [Records -> Nat]
  BY DEF Init, Rows, NoRow
<1>2. write \in [Writers -> Lines]
  BY DEF Init, Lines, Garbage, NoLine
<1>3. file \in Seq(Lines) /\ open \in BOOLEAN
  <2>1. file \in Seq(Lines)
    BY DEF Init
  <2>2. open \in BOOLEAN
    BY Zenon DEF Init
  <2>3. QED
    BY <2>1, <2>2
<1>4. replay \in [reading : BOOLEAN, data : Seq(Lines), open : BOOLEAN]
  BY DEF Init, NotReading
<1>5. meta \in Checksums
  BY ChecksumFacts DEF Init
<1>6. exists \in BOOLEAN
  BY Zenon DEF Init
<1>7. QED
  BY <1>1, <1>2, <1>3, <1>4, <1>5, <1>6 DEF TypeOK

LEMMA CommittedTypeOK ==
  ASSUME TypeOK, NEW id \in Records, Committed(id)
  PROVE  /\ row' \in [Records -> Rows] /\ saves' \in [Records -> Nat]
         /\ row'[id] = [head |-> saves[id] + 1, body |-> saves[id] + 1]
         /\ saves'[id] = saves[id] + 1
         /\ \A k \in Records : k # id => row'[k] = row[k] /\ saves'[k] = saves[k]
  BY DEF TypeOK, Committed, Rows

LEMMA NextTypeOK == ASSUME TypeOK, [Next]_vars PROVE TypeOK'
<1> USE DEF TypeOK
<1> NoLine \in Lines /\ Garbage \in Lines /\ NotReading \in [reading : BOOLEAN, data : Seq(Lines), open : BOOLEAN]
  BY DEF NoLine, Garbage, Lines, NotReading
<1> /\ NoMeta \in Checksums /\ Unchecked \in Checksums
    /\ \A lines \in Seq(Lines), unfinished \in BOOLEAN : Content(lines, unfinished) \in Checksums
  BY ChecksumFacts
<1>1. ASSUME NEW w \in Writers, NEW id \in Records, Commit(w, id) PROVE TypeOK'
  <2>1. Line(id, saves[id] + 1) \in Lines
    BY DEF Lines, Line
  <2>2. QED
    BY <1>1, <2>1, CommittedTypeOK DEF Commit, MetaEnsured
<1>2. ASSUME NEW id \in Records, SubmitTx(id) PROVE TypeOK'
  BY <1>2, CommittedTypeOK DEF SubmitTx, MetaEnsured
<1>3. ASSUME NEW w \in Writers, AppendLine(w) PROVE TypeOK'
  BY <1>3, AppendedFacts DEF AppendLine
<1>4. ASSUME NEW w \in Writers, Skip(w) PROVE TypeOK'
  BY <1>4 DEF Skip
<1>5. ASSUME NEW w \in Writers, NEW written \in {write[w], Garbage}, Tear(w, written)
      PROVE  TypeOK'
  BY <1>5, AppendedFacts DEF Tear
<1>6. ASSUME ReadShard PROVE TypeOK'
  BY <1>6 DEF ReadShard
<1>7. ASSUME Replay PROVE TypeOK'
  <2>1. \A id \in Records : Replayed(row[id], KindOf[id], replay.data, id) \in Rows
    BY KindsKnown, ReplayedFacts
  <2>2. row' \in [Records -> Rows]
    BY <1>7, <2>1 DEF Replay
  <2>3. QED
    BY <1>7, <2>2 DEF Replay
<1>8. ASSUME GiveUp PROVE TypeOK'
  BY <1>8 DEF GiveUp
<1>9. ASSUME Crash PROVE TypeOK'
  BY <1>9 DEF Crash
<1>10. ASSUME Lose PROVE TypeOK'
  BY <1>10 DEF Lose, Rows, NoRow
<1>11. ASSUME UNCHANGED vars PROVE TypeOK'
  BY <1>11 DEF vars
<1>12. QED
  BY <1>1, <1>2, <1>3, <1>4, <1>5, <1>6, <1>7, <1>8, <1>9, <1>10, <1>11 DEF Next

\* Every reachable state of a shard is well typed, whatever overlaps.
THEOREM ShardTypeCorrect == Spec => []TypeOK
  BY InitTypeOK, NextTypeOK, PTL DEF Spec

(***************************************************************************)
(* The inductive invariant when saves of one record do not overlap.        *)
(***************************************************************************)

\* A line that is yet to be appended is the newest of its record; no two of
\* them are of one record.
PendingIsNewest ==
  \A w \in Writers : write[w].id \in Records =>
    /\ write[w].save <= saves[write[w].id]
    /\ \A k \in 1..Len(file) :
         file[k].id = write[w].id => file[k].save < write[w].save
    /\ \A v \in Writers : write[v].id = write[w].id => v = w

\* The rows are at least as new as what the last rebuild read.
RowsCover ==
  \A k \in 1..Len(meta.lines) :
    LET line == meta.lines[k]
    IN  line.id \in Records /\ KindOf[line.id] # "handshake" => row[line.id].head >= line.save

\* Telemetry is inserted once and replayed whole.
TelemetryWhole ==
  \A id \in Records : KindOf[id] = "telemetry" => row[id].head = row[id].body

IInv ==
  /\ TypeOK
  /\ History(file) /\ History(replay.data) /\ History(meta.lines)
  /\ PendingIsNewest /\ RowsCover /\ TelemetryWhole

LEMMA InitIInv == Init => IInv
<1> SUFFICES ASSUME Init PROVE IInv
  OBVIOUS
<1>1. TypeOK
  BY InitTypeOK
<1>2. file = <<>> /\ replay.data = <<>> /\ meta.lines = <<>>
  BY ChecksumFacts DEF Init, NotReading
<1>3. History(file) /\ History(replay.data) /\ History(meta.lines) /\ RowsCover
  BY <1>2 DEF History, RowsCover
<1>4. PendingIsNewest /\ TelemetryWhole
  BY NoneIsNoRecord DEF Init, PendingIsNewest, TelemetryWhole, NoLine, Line, NoRow
<1>5. QED
  BY <1>1, <1>3, <1>4 DEF IInv

\* Further commits leave a history one.
LEMMA HistoryStays ==
  ASSUME NEW data \in Seq(Lines), TypeOK, TypeOK', History(data),
         \A id \in Records : saves'[id] >= saves[id]
  PROVE  History(data)'
<1>1. Len(data) \in Nat /\ \A k \in 1..Len(data) : data[k] \in Lines
  BY LenProperties, ElementOfSeq
<1>2. \A k \in 1..Len(data) : data[k] # Garbage => data[k].id \in Records /\ data[k].save \in Nat
  BY <1>1, LineFacts
<1>3. \A id \in Records : saves[id] \in Nat /\ saves'[id] \in Nat
  BY DEF TypeOK
<1>4. \A k \in 1..Len(data) : data[k] # Garbage /\ data[k].save <= saves[data[k].id] =>
        data[k].save <= saves'[data[k].id]
  BY <1>2, <1>3
<1>5. QED
  BY <1>1, <1>4 DEF History

\* A commit, with or without a line to append.
LEMMA CommittedKeeps ==
  ASSUME IInv, TypeOK', NEW id \in Records, Committed(id), MetaEnsured(id),
         UNCHANGED <<file, replay>>
  PROVE  /\ History(file)' /\ History(replay.data)' /\ History(meta.lines)'
         /\ RowsCover' /\ TelemetryWhole'
<1> USE DEF IInv
<1> /\ saves'[id] = saves[id] + 1
    /\ row'[id] = [head |-> saves[id] + 1, body |-> saves[id] + 1]
    /\ \A k \in Records : k # id => row'[k] = row[k] /\ saves'[k] = saves[k]
  BY CommittedTypeOK
<1> \A k \in Records : saves[k] \in Nat
  BY DEF TypeOK
<1>1. \A k \in Records : saves'[k] >= saves[k]
  OBVIOUS
<1>2. History(file)' /\ History(replay.data)'
  BY <1>1, HistoryStays DEF TypeOK, History
<1>3. meta' = meta \/ meta'.lines = <<>>
  BY DEF MetaEnsured, Unchecked, Content
<1>4. History(meta.lines)'
  <2>1. CASE meta' = meta
    BY <1>1, <2>1, HistoryStays DEF TypeOK, Checksums, History
  <2>2. CASE meta'.lines = <<>>
    BY <2>2 DEF History
  <2>3. QED
    BY <1>3, <2>1, <2>2
<1>5. RowsCover'
  <2>1. CASE meta' = meta
    <3>1. \A k \in 1..Len(meta.lines) : meta.lines[k] \in Lines
      BY ElementOfSeq DEF TypeOK, Checksums
    <3>2. ASSUME NEW k \in 1..Len(meta.lines), meta.lines[k].id \in Records,
                 KindOf[meta.lines[k].id] # "handshake"
          PROVE  row'[meta.lines[k].id].head >= meta.lines[k].save
      <4>1. meta.lines[k].save <= saves[meta.lines[k].id] /\ meta.lines[k].save \in Nat
        BY <3>1, <3>2, LineFacts DEF History, Garbage, Line
      <4>2. row[meta.lines[k].id].head >= meta.lines[k].save
        BY <3>2 DEF RowsCover
      <4>3. CASE meta.lines[k].id = id
        BY <4>1, <4>3
      <4>4. CASE meta.lines[k].id # id
        BY <3>2, <4>2, <4>4
      <4>5. QED
        BY <4>3, <4>4
    <3>3. QED
      BY <2>1, <3>2 DEF RowsCover
  <2>2. CASE meta'.lines = <<>>
    BY <2>2 DEF RowsCover
  <2>3. QED
    BY <1>3, <2>1, <2>2
<1>6. TelemetryWhole'
  BY DEF TelemetryWhole
<1>7. QED
  BY <1>2, <1>4, <1>5, <1>6

\* Something is appended for a writer: its line, or what became of it.
LEMMA AppendedKeeps ==
  ASSUME IInv, TypeOK', NEW w \in Writers, NEW line \in {write[w], Garbage},
         file' = Appended(line), write' = [write EXCEPT ![w] = NoLine],
         UNCHANGED <<row, saves, replay, meta>>
  PROVE  IInv'
<1> USE DEF IInv
<1>1. line \in Lines /\ write[w] \in Lines /\ Garbage \in Lines
  BY DEF TypeOK, Lines
<1>2. /\ Len(file) \in Nat /\ Len(file') \in Nat
      /\ \A k \in 1..Len(file) : file[k] \in Lines
      /\ \A k \in 1..Len(file') : file'[k] \in Lines
  BY LenProperties, ElementOfSeq DEF TypeOK
<1>3. \A k \in 1..Len(file) : file'[k] \in {file[k], Garbage}
  BY <1>1, AppendedFacts
<1>4. \A k \in 1..Len(file') : k > Len(file) => k = Len(file) + 1 /\ file'[k] = line
  BY <1>1, AppendedFacts
<1>5. \A k \in 1..Len(file') : file'[k] # Garbage =>
        \/ k \in 1..Len(file) /\ file'[k] = file[k]
        \/ k = Len(file) + 1 /\ file'[k] = line
  BY <1>2, <1>3, <1>4
<1>6. line # Garbage =>
        /\ line = write[w] /\ line.id \in Records
        /\ line.save <= saves[line.id]
        /\ \A k \in 1..Len(file) : file[k].id = line.id => file[k].save < line.save
  BY <1>1, LineFacts DEF PendingIsNewest
<1>7. History(file)'
  <2>1. SUFFICES ASSUME NEW j \in 1..Len(file'), NEW k \in 1..Len(file'), file'[j] # Garbage
                 PROVE  /\ file'[j].save <= saves[file'[j].id]
                        /\ j < k /\ file'[k].id = file'[j].id => file'[j].save < file'[k].save
    BY DEF History
  <2>2. CASE j \in 1..Len(file) /\ file'[j] = file[j]
    <3>1. file[j].save <= saves[file[j].id]
      BY <2>1, <2>2 DEF History
    <3>2. ASSUME j < k, file'[k].id = file'[j].id PROVE file'[j].save < file'[k].save
      <4>1. file'[k] # Garbage
        BY <1>2, <2>1, <3>2, LineFacts
      <4>2. CASE k \in 1..Len(file) /\ file'[k] = file[k]
        BY <2>1, <2>2, <3>2, <4>2 DEF History
      <4>3. CASE k = Len(file) + 1 /\ file'[k] = line
        BY <1>6, <2>2, <3>2, <4>1, <4>3
      <4>4. QED
        BY <1>5, <4>1, <4>2, <4>3
    <3>3. QED
      BY <2>2, <3>1, <3>2
  <2>3. CASE j = Len(file) + 1 /\ file'[j] = line
    BY <1>2, <1>4, <1>6, <2>1, <2>3
  <2>4. QED
    BY <1>5, <2>1, <2>2, <2>3
<1>8. History(replay.data)' /\ History(meta.lines)' /\ RowsCover' /\ TelemetryWhole'
  BY DEF History, RowsCover, TelemetryWhole
<1>9. PendingIsNewest'
  <2>1. NoLine.id \notin Records
    BY NoneIsNoRecord DEF NoLine, Line
  <2>2. SUFFICES ASSUME NEW v \in Writers, write'[v].id \in Records
                 PROVE  /\ write'[v].save <= saves[write'[v].id]
                        /\ \A k \in 1..Len(file') :
                             file'[k].id = write'[v].id => file'[k].save < write'[v].save
                        /\ \A u \in Writers : write'[u].id = write'[v].id => u = v
    BY DEF PendingIsNewest
  <2>3. v # w /\ write'[v] = write[v]
    BY <2>1, <2>2 DEF TypeOK
  <2>4. \A u \in Writers : write'[u].id = write'[v].id => u = v
    BY <2>1, <2>2, <2>3 DEF TypeOK, PendingIsNewest
  <2>5. ASSUME NEW k \in 1..Len(file'), file'[k].id = write'[v].id
        PROVE  file'[k].save < write'[v].save
    <3>1. file'[k] # Garbage
      BY <1>2, <2>2, <2>5, LineFacts
    <3>2. file'[k] # line
      BY <1>6, <2>2, <2>3, <2>5, <3>1 DEF PendingIsNewest
    <3>3. QED
      BY <1>5, <2>2, <2>3, <2>5, <3>1, <3>2 DEF PendingIsNewest
  <2>6. QED
    BY <2>2, <2>3, <2>4, <2>5 DEF PendingIsNewest
<1>10. QED
  BY <1>7, <1>8, <1>9

LEMMA CommitKeeps ==
  ASSUME IInv, TypeOK', ~Overlap, NEW w \in Writers, NEW id \in Records, Commit(w, id)
  PROVE  IInv'
<1> USE DEF IInv
<1>1. /\ History(file)' /\ History(replay.data)' /\ History(meta.lines)'
      /\ RowsCover' /\ TelemetryWhole'
  BY CommittedKeeps DEF Commit
<1>2. /\ \A v \in Writers : write[v].id # id
      /\ file' = file
      /\ write' = [write EXCEPT ![w] = Line(id, saves[id] + 1)]
  BY DEF Commit, Savable
<1>3. /\ write'[w].id = id /\ write'[w].save = saves[id] + 1
      /\ \A v \in Writers : v # w => write'[v] = write[v]
  BY <1>2 DEF TypeOK, Line
<1>4. /\ saves'[id] = saves[id] + 1 /\ saves[id] \in Nat
      /\ \A k \in Records : k # id => saves'[k] = saves[k]
  BY CommittedTypeOK DEF Commit, TypeOK
<1>5. \A k \in 1..Len(file) : file[k].id = id => file[k].save < saves[id] + 1
  <2>1. \A k \in 1..Len(file) : file[k] \in Lines
    BY ElementOfSeq DEF TypeOK
  <2>2. QED
    BY <1>4, <2>1, LineFacts DEF History
<1>6. PendingIsNewest'
  <2>1. SUFFICES ASSUME NEW v \in Writers, write'[v].id \in Records
                 PROVE  /\ write'[v].save <= saves'[write'[v].id]
                        /\ \A k \in 1..Len(file) :
                             file[k].id = write'[v].id => file[k].save < write'[v].save
                        /\ \A u \in Writers : write'[u].id = write'[v].id => u = v
    BY <1>2 DEF PendingIsNewest
  <2>2. CASE v = w
    BY <1>2, <1>3, <1>4, <1>5, <2>2
  <2>3. CASE v # w
    BY <1>2, <1>3, <1>4, <2>1, <2>3 DEF PendingIsNewest
  <2>4. QED
    BY <2>2, <2>3
<1>7. QED
  BY <1>1, <1>6

LEMMA SubmitTxKeeps ==
  ASSUME IInv, TypeOK', NEW id \in Records, SubmitTx(id)
  PROVE  IInv'
<1> USE DEF IInv
<1>1. /\ History(file)' /\ History(replay.data)' /\ History(meta.lines)'
      /\ RowsCover' /\ TelemetryWhole'
  BY CommittedKeeps DEF SubmitTx
<1>2. /\ saves'[id] = saves[id] + 1
      /\ \A k \in Records : k # id => saves'[k] = saves[k]
  BY CommittedTypeOK DEF SubmitTx
<1>3. \A k \in Records : saves[k] \in Nat
  BY DEF TypeOK
<1>4. \A v \in Writers : write[v].id \in Records =>
        write[v].save \in Nat /\ write[v].save <= saves'[write[v].id]
  <2>1. \A v \in Writers : write[v] \in Lines
    BY DEF TypeOK
  <2>2. QED
    BY <1>2, <1>3, <2>1, LineFacts DEF PendingIsNewest
<1>5. PendingIsNewest'
  BY <1>4 DEF PendingIsNewest, SubmitTx
<1>6. QED
  BY <1>1, <1>5

\* Of a record of which a history holds a line, the last one has the largest
\* number.
LEMMA LastIsNewest ==
  ASSUME NEW data \in Seq(Lines), History(data), NEW id \in Records,
         NEW last \in Found(data, id), \A k \in Found(data, id) : k <= last
  PROVE  /\ last \in 1..Len(data) /\ data[last] # Garbage
         /\ \A k \in 1..Len(data) : data[k].id = id => data[k].save <= data[last].save
<1>1. /\ Len(data) \in Nat
      /\ Found(data, id) \subseteq 1..Len(data)
      /\ \A k \in 1..Len(data) : data[k].id = id => k \in Found(data, id)
      /\ data[last].id = id
  BY LenProperties DEF Found
<1>2. \A k \in 1..Len(data) : data[k] \in Lines /\ data[k].save \in Nat
  BY ElementOfSeq, LineFacts
<1>3. \A k \in 1..Len(data) : data[k].id = id => data[k] # Garbage
  BY <1>2, LineFacts
<1>4. ASSUME NEW k \in 1..Len(data), data[k].id = id
      PROVE  data[k].save <= data[last].save
  <2>1. k < last \/ k = last
    BY <1>1, <1>4
  <2>2. CASE k = last
    BY <1>2, <2>2
  <2>3. CASE k < last
    <3>1. data[k].save < data[last].save
      BY <1>1, <1>3, <1>4, <2>3 DEF History
    <3>2. QED
      BY <1>1, <1>2, <3>1
  <2>4. QED
    BY <2>1, <2>2, <2>3
<1>5. QED
  BY <1>1, <1>3, <1>4

LEMMA ReplayKeeps == ASSUME IInv, TypeOK', Replay PROVE IInv'
<1> USE DEF IInv
<1>1. /\ replay.data \in Seq(Lines)
      /\ meta'.lines = replay.data /\ replay'.data = <<>>
      /\ UNCHANGED <<saves, file, write>>
      /\ \A id \in Records : row'[id] = Replayed(row[id], KindOf[id], replay.data, id)
  BY DEF Replay, TypeOK, Content, NotReading
<1>2. History(file)' /\ History(replay.data)' /\ History(meta.lines)'
  BY <1>1 DEF History
<1>3. PendingIsNewest'
  BY <1>1 DEF PendingIsNewest
<1>4. RowsCover'
  <2>1. SUFFICES ASSUME NEW k \in 1..Len(replay.data), NEW id \in Records,
                        replay.data[k].id = id, KindOf[id] # "handshake"
                 PROVE  row'[id].head >= replay.data[k].save
    BY <1>1 DEF RowsCover
  <2>2. k \in Found(replay.data, id)
    BY <1>1, <2>1, LenProperties DEF Found
  <2>3. row[id] \in Rows /\ KindOf[id] \in Kinds
    BY KindsKnown DEF TypeOK
  <2>4. PICK last \in Found(replay.data, id) :
          /\ \A j \in Found(replay.data, id) : j <= last
          /\ row'[id].head = replay.data[last].save
    <3>1. Found(replay.data, id) # {}
      BY <2>2
    <3>2. QED
      BY <1>1, <2>1, <2>3, <3>1, ReplayedFacts
  <2>5. replay.data[k].save <= replay.data[last].save
    BY <1>1, <2>1, <2>4, LastIsNewest
  <2>6. replay.data[k].save \in Nat /\ replay.data[last].save \in Nat
    <3>1. last \in 1..Len(replay.data)
      BY <1>1, <2>4, LenProperties DEF Found
    <3>2. QED
      BY <1>1, <3>1, ElementOfSeq, LineFacts
  <2>7. QED
    BY <2>4, <2>5, <2>6
<1>5. TelemetryWhole'
  <2>1. SUFFICES ASSUME NEW id \in Records, KindOf[id] = "telemetry"
                 PROVE  row'[id].head = row'[id].body
    BY DEF TelemetryWhole
  <2>2. row[id] \in Rows /\ KindOf[id] \in Kinds
    BY KindsKnown DEF TypeOK
  <2>3. row'[id] = row[id] \/ row'[id].body = row'[id].head
    BY <1>1, <2>1, <2>2, ReplayedFacts
  <2>4. QED
    BY <2>1, <2>3 DEF TelemetryWhole
<1>6. QED
  BY <1>2, <1>3, <1>4, <1>5

LEMMA NextIInv == ASSUME IInv, ~Overlap, [Next]_vars PROVE IInv'
<1> USE DEF IInv
<1>1. TypeOK'
  BY NextTypeOK
<1>2. ASSUME NEW w \in Writers, NEW id \in Records, Commit(w, id) PROVE IInv'
  BY <1>1, <1>2, CommitKeeps
<1>3. ASSUME NEW id \in Records, SubmitTx(id) PROVE IInv'
  BY <1>1, <1>3, SubmitTxKeeps
<1>4. ASSUME NEW w \in Writers, AppendLine(w) PROVE IInv'
  BY <1>1, <1>4, AppendedKeeps DEF AppendLine
<1>5. ASSUME NEW w \in Writers, NEW written \in {write[w], Garbage}, Tear(w, written)
      PROVE  IInv'
  BY <1>1, <1>5, AppendedKeeps DEF Tear
<1>6. NoLine.id \notin Records
  BY NoneIsNoRecord DEF NoLine, Line
<1>7. ASSUME NEW w \in Writers, Skip(w) PROVE IInv'
  <2>1. PendingIsNewest'
    BY <1>6, <1>7 DEF Skip, TypeOK, PendingIsNewest
  <2>2. QED
    BY <1>1, <1>7, <2>1 DEF Skip, History, RowsCover, TelemetryWhole
<1>8. ASSUME ReadShard PROVE IInv'
  BY <1>1, <1>8 DEF ReadShard, History, PendingIsNewest, RowsCover, TelemetryWhole
<1>9. ASSUME Replay PROVE IInv'
  BY <1>1, <1>9, ReplayKeeps
<1>10. ASSUME GiveUp PROVE IInv'
  BY <1>1, <1>10 DEF GiveUp, NotReading, History, PendingIsNewest, RowsCover, TelemetryWhole
<1>11. ASSUME Crash PROVE IInv'
  <2>1. PendingIsNewest'
    BY <1>6, <1>11 DEF Crash, PendingIsNewest
  <2>2. QED
    BY <1>1, <1>11, <2>1 DEF Crash, NotReading, History, RowsCover, TelemetryWhole
<1>12. ASSUME Lose PROVE IInv'
  <2>1. PendingIsNewest'
    BY <1>6, <1>12 DEF Lose, PendingIsNewest
  <2>2. TelemetryWhole'
    BY <1>12 DEF Lose, NoRow, TelemetryWhole
  <2>3. meta'.lines = <<>> /\ replay'.data = <<>> /\ UNCHANGED <<saves, file>>
    BY <1>12 DEF Lose, NoMeta, NotReading, Content
  <2>4. History(file)' /\ History(replay.data)' /\ History(meta.lines)' /\ RowsCover'
    BY <2>3 DEF History, RowsCover
  <2>5. QED
    BY <1>1, <2>1, <2>2, <2>4
<1>13. ASSUME UNCHANGED vars PROVE IInv'
  BY <1>1, <1>13 DEF vars, History, PendingIsNewest, RowsCover, TelemetryWhole
<1>14. QED
  BY <1>2, <1>3, <1>4, <1>5, <1>7, <1>8, <1>9, <1>10, <1>11, <1>12, <1>13 DEF Next

LEMMA InvariantHolds == ~Overlap /\ Spec => []IInv
<1>1. ASSUME ~Overlap PROVE Spec => []IInv
  <2>1. IInv /\ [Next]_vars => IInv'
    BY <1>1, NextIInv
  <2>2. QED
    BY InitIInv, <2>1, PTL DEF Spec
<1>2. QED
  BY <1>1

-----------------------------------------------------------------------------
\* When saves of one record do not overlap, the file of a shard holds nothing
\* that was not committed, and each record's saves in their order, through torn
\* writes, lost appends, crashes and rebuilds.
THEOREM FileKeepsHistory == ASSUME ~Overlap PROVE Spec => []FileIsHistory
<1>1. IInv => FileIsHistory
  BY DEF IInv, FileIsHistory
<1>2. Spec => []IInv
  BY InvariantHolds
<1>3. QED
  BY <1>1, <1>2, PTL

\* A shard that Certify finds OK by its checksum has rows at least as new as
\* its file.
THEOREM CertifyIsRight == ASSUME ~Overlap PROVE Spec => []CertifiedIsCurrent
<1>1. IInv => CertifiedIsCurrent
  <2>1. SUFFICES ASSUME IInv, Certified, meta # Unchecked,
                        NEW k \in 1..Len(file), file[k] # Garbage,
                        KindOf[file[k].id] # "handshake"
                 PROVE  row[file[k].id].head >= file[k].save
    BY DEF CertifiedIsCurrent
  <2>2. meta.lines = file
    BY <2>1 DEF Certified, Content
  <2>3. file[k].id \in Records
    BY <2>1, ElementOfSeq, LineFacts DEF IInv, TypeOK
  <2>4. QED
    BY <2>1, <2>2, <2>3 DEF IInv, RowsCover
<1>2. Spec => []IInv
  BY InvariantHolds
<1>3. QED
  BY <1>1, <1>2, PTL

\* What a replay makes of a record whose last save it has read.
LEMMA ReplayOfLogged ==
  ASSUME IInv, Replay, NEW id \in Records, KindOf[id] # "handshake", Logged(replay.data, id)
  PROVE  /\ row'[id].head = saves[id]
         /\ saves[id] > 0
         /\ row'[id] \in Rows
         /\ KindOf[id] = "telemetry" => row'[id].body = row'[id].head
         /\ KindOf[id] # "telemetry" /\ row[id] # NoRow => row'[id].body = row[id].body
<1> DEFINE data == replay.data
<1>1. /\ data \in Seq(Lines) /\ History(data)
      /\ row[id] \in Rows /\ KindOf[id] \in Kinds /\ saves[id] \in Nat
      /\ row'[id] = Replayed(row[id], KindOf[id], data, id)
  BY KindsKnown DEF IInv, TypeOK, Replay
<1>2. PICK k \in 1..Len(data) : data[k] = Line(id, saves[id])
  BY DEF Logged
<1>3. data[k].id = id /\ data[k].save = saves[id] /\ saves[id] > 0
  BY <1>1, <1>2, ElementOfSeq, LineFacts DEF Line
<1>4. k \in Found(data, id)
  BY <1>1, <1>3, LenProperties DEF Found
<1>5. PICK last \in Found(data, id) :
        /\ \A j \in Found(data, id) : j <= last
        /\ row'[id].head = data[last].save
        /\ KindOf[id] = "telemetry" => row'[id].body = row'[id].head
        /\ KindOf[id] # "telemetry" /\ row[id] # NoRow => row'[id].body = row[id].body
  <2>1. Found(data, id) # {}
    BY <1>4
  <2>2. QED
    BY <1>1, <2>1, ReplayedFacts
<1>6. last \in 1..Len(data) /\ data[last] # Garbage /\ data[k].save <= data[last].save
  BY <1>1, <1>3, <1>5, LastIsNewest
<1>7. data[last].save <= saves[id] /\ data[last].save \in Nat
  <2>1. data[last].id = id
    BY <1>5 DEF Found
  <2>2. QED
    BY <1>1, <1>6, <2>1, ElementOfSeq, LineFacts DEF History
<1>8. data[last].save = saves[id]
  BY <1>1, <1>3, <1>6, <1>7
<1>9. row'[id] \in Rows
  BY <1>1, ReplayedFacts
<1>10. QED
  BY <1>3, <1>5, <1>8, <1>9

\* A rebuild puts every record but handshakes into its last state whose last
\* save it has read, whatever was torn, lost or damaged elsewhere in the file.
THEOREM RebuildIsComplete == ASSUME ~Overlap PROVE Spec => RebuildRestores
<1>1. IInv /\ [Next]_vars =>
        [Replay => \A id \in Records :
           KindOf[id] # "handshake" /\ Logged(replay.data, id) => row'[id].head = saves[id]]_vars
  BY ReplayOfLogged
<1>2. Spec => []IInv
  BY InvariantHolds
<1>3. QED
  BY <1>1, <1>2, PTL DEF Spec, RebuildRestores

\* A rebuild leaves a current row alone whose last save it has read, whoever
\* saves meanwhile.
THEOREM RebuildIsHarmless == ASSUME ~Overlap PROVE Spec => RebuildHarmless
<1>1. ASSUME IInv, Replay, NEW id \in Records,
             row[id].head = saves[id], Logged(replay.data, id)
      PROVE  row'[id] = row[id]
  <2>1. CASE KindOf[id] = "handshake"
    BY <1>1, <2>1, KindsKnown, ReplayedFacts DEF IInv, TypeOK, Replay
  <2>2. CASE KindOf[id] # "handshake"
    <3>1. row'[id].head = row[id].head /\ row[id] # NoRow /\ row'[id] \in Rows
      BY <1>1, <2>2, ReplayOfLogged DEF NoRow
    <3>2. row'[id].body = row[id].body
      BY <1>1, <2>2, <3>1, ReplayOfLogged DEF IInv, TelemetryWhole
    <3>3. row[id] \in Rows
      BY <1>1 DEF IInv, TypeOK
    <3>4. \A r, q \in Rows : r.head = q.head /\ r.body = q.body => r = q
      BY DEF Rows
    <3>5. QED
      BY <3>1, <3>2, <3>3, <3>4
  <2>3. QED
    BY <2>1, <2>2
<1>2. IInv /\ [Next]_vars =>
        [Replay => \A id \in Records :
           row[id].head = saves[id] /\ Logged(replay.data, id) => row'[id] = row[id]]_vars
  BY <1>1
<1>3. Spec => []IInv
  BY InvariantHolds
<1>4. QED
  BY <1>2, <1>3, PTL DEF Spec, RebuildHarmless
=============================================================================
