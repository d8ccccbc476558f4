------------------------------- MODULE OxgWal -------------------------------
(***************************************************************************)
(* The delta-log of oxgraph-db at the level of its record layout: how      *)
(* encode_commit lays a commit out, what append_commit may leave behind,   *)
(* and how replay walks the bytes back, one record per step.               *)
(*                                                                         *)
(* A cell is a field or one byte of payload: a number or, for a checksum,  *)
(* everything it covers (a checksum without collisions).  A header is      *)
(* HEADER_LEN cells, an operation OP_LEN cells.                            *)
(***************************************************************************)
EXTENDS Naturals, Sequences, SequencesExt

CONSTANTS
  MaxCommits,   \* bound on the commits written to the log
  MaxOps,       \* bound on the operations of a commit
  MaxBlob,      \* bound on the blob cells of a commit
  MaxDamage,    \* bound on how often the log is damaged
  Flips,        \* header fields (and "payload") in which a bit may rot
  FlipValues,   \* the values a rotten field may show
  Junk          \* whether a failed append may leave its bytes behind

Fields == <<"base_generation", "lsn", "txn_id", "magic", "len", "op_count", "crc32c">>
HEADER_LEN == Len(Fields)
OP_LEN == 1
OXGLOGR == 7
Generation == 1

ASSUME WalAssumption ==
  /\ MaxCommits \in Nat /\ MaxOps \in Nat \ {0} /\ MaxBlob \in Nat /\ MaxDamage \in Nat
  /\ Flips \subseteq Range(Fields) \cup {"payload"}
  /\ FlipValues \subseteq Nat
  /\ Junk \in BOOLEAN

VARIABLES
  file,        \* the bytes of delta-g.log
  committed,   \* history: the encoded records of the acknowledged commits
  spoiled,     \* history: the index in committed of the damaged record, or 0
  misled,      \* history: a length or count is wrong, or stray bytes lie between records
  damages,     \* how often the log was damaged
  phase,       \* "live" (appending), "replay", "ok" or "loud"
  offset,      \* replay: where the next record starts
  frames,      \* replay: the records accepted so far
  last_lsn     \* replay: the last accepted lsn, 0 before the first

vars == <<file, committed, spoiled, misled, damages, phase, offset, frames, last_lsn>>

-----------------------------------------------------------------------------
(* Layout *)

Cell(n) == [number |-> n]
Cells == [number : Nat] \cup [covers : Seq([number : Nat])]

\* What a cell reads as where a number is expected.
Number(cell) == IF "number" \in DOMAIN cell THEN cell.number ELSE cell.covers[1].number

\* The checksum covers every cell of the record but its own.
record_crc(record) == [covers |-> SubSeq(record, 1, HEADER_LEN - 1)
                                  \o SubSeq(record, HEADER_LEN + 1, Len(record))]

encode_commit(lsn, txn, ops, blob) ==
  LET header == <<Cell(Generation), Cell(lsn), Cell(txn), Cell(OXGLOGR),
                  Cell(HEADER_LEN + ops * OP_LEN + blob), Cell(ops)>>
      body == [i \in 1..(ops * OP_LEN + blob) |-> Cell(20 + lsn)]
  IN  header \o <<record_crc(header \o <<Cell(0)>> \o body)>> \o body

\* The header found at the head of the remaining bytes.
Header(remaining) ==
  [generation |-> Number(remaining[1]), lsn |-> Number(remaining[2]),
   magic |-> Number(remaining[4]), len |-> Number(remaining[5]),
   op_count |-> Number(remaining[6]), crc |-> remaining[7]]

\* The declared length holds the header and the operations and fits the buffer.
well_framed(remaining) ==
  LET header == Header(remaining) IN
    /\ HEADER_LEN + header.op_count * OP_LEN <= header.len
    /\ header.len <= Len(remaining)

\* Nothing fully valid is believed to follow: the record is misframed, or it
\* reaches the end of the buffer.
is_last(remaining) == well_framed(remaining) => Header(remaining).len >= Len(remaining)

\* Mutant: the checksum is not compared.
Valid_NoCrc(remaining) ==
  LET header == Header(remaining) IN
    /\ header.magic = OXGLOGR
    /\ header.generation = Generation
    /\ well_framed(remaining)

Valid(remaining) ==
  LET header == Header(remaining) IN
    /\ header.magic = OXGLOGR
    /\ header.generation = Generation
    /\ well_framed(remaining)
    /\ header.crc = record_crc(SubSeq(remaining, 1, header.len))

\* Mutant: every failed check is taken for a torn tail.
parse_one_record_AlwaysTail(remaining, last) ==
  IF Len(remaining) < HEADER_LEN THEN "stop"
  ELSE IF ~Valid(remaining) THEN "stop"
  ELSE IF last # 0 /\ Header(remaining).lsn <= last THEN "loud" ELSE "frame"

\* A failed check is a torn tail when nothing valid follows, else loud.  A valid
\* record whose lsn does not ascend is always loud.
parse_one_record(remaining, last) ==
  IF Len(remaining) < HEADER_LEN THEN "stop"
  ELSE IF ~Valid(remaining) THEN IF is_last(remaining) THEN "stop" ELSE "loud"
  ELSE IF last # 0 /\ Header(remaining).lsn <= last THEN "loud" ELSE "frame"

-----------------------------------------------------------------------------
(* The log's life *)

Init ==
  /\ file = <<>>
  /\ committed = <<>>
  /\ spoiled = 0
  /\ misled = FALSE
  /\ damages = 0
  /\ phase = "live"
  /\ offset = 0
  /\ frames = <<>>
  /\ last_lsn = 0

replayState == <<offset, frames, last_lsn>>

NextRecord(ops, blob) ==
  encode_commit(Len(committed) + 1, Len(committed) + 1, ops, blob)

\* append_commit writes and syncs the whole record.
AppendCommit ==
  /\ phase = "live"
  /\ Len(committed) < MaxCommits
  /\ \E ops \in 1..MaxOps, blob \in 0..MaxBlob :
       /\ committed' = Append(committed, NextRecord(ops, blob))
       /\ file' = file \o NextRecord(ops, blob)
  /\ UNCHANGED <<spoiled, misled, damages, phase, replayState>>

\* The machine stops during an append: some of the record's bytes arrived.
Crash ==
  /\ phase = "live"
  /\ damages < MaxDamage
  /\ damages' = damages + 1
  /\ \E ops \in 1..MaxOps, blob \in 0..MaxBlob :
       \E n \in 0..(Len(NextRecord(ops, blob)) - 1) :
         file' = file \o SubSeq(NextRecord(ops, blob), 1, n)
  /\ phase' = "replay"
  /\ UNCHANGED <<committed, spoiled, misled, replayState>>

\* The append fails, and so does the set_len of rollback_to: the bytes stay and
\* later commits follow them.
FailedRollback ==
  /\ phase = "live"
  /\ Junk
  /\ damages < MaxDamage
  /\ damages' = damages + 1
  /\ \E ops \in 1..MaxOps, blob \in 0..MaxBlob :
       \E n \in 1..Len(NextRecord(ops, blob)) - 1 :
         file' = file \o SubSeq(NextRecord(ops, blob), 1, n)
  /\ misled' = TRUE
  /\ UNCHANGED <<committed, spoiled, phase, replayState>>

\* Where record i of an undamaged log starts.
Start(i) == Len(FlattenSeq(SubSeq(committed, 1, i - 1)))

\* One field of one committed record rots.
BitRot ==
  /\ phase = "live"
  /\ damages < MaxDamage
  /\ Len(file) = Len(FlattenSeq(committed))
  /\ damages' = damages + 1
  /\ \E i \in 1..Len(committed) :
       \E p \in 1..Len(committed[i]), v \in FlipValues :
         /\ (IF p > HEADER_LEN THEN "payload" ELSE Fields[p]) \in Flips
         /\ committed[i][p] # Cell(v)
         /\ file' = [file EXCEPT ![Start(i) + p] = Cell(v)]
         /\ spoiled' = i
         /\ misled' = (misled \/ p \in {5, 6})
  /\ phase' = "replay"
  /\ UNCHANGED <<committed, replayState>>

\* Db::open reads the log.
Open ==
  /\ phase = "live"
  /\ phase' = "replay"
  /\ UNCHANGED <<file, committed, spoiled, misled, damages, replayState>>

Remaining == SubSeq(file, offset + 1, Len(file))

\* One turn of the loop in replay.
ReplayRecord ==
  /\ phase = "replay"
  /\ offset < Len(file)
  /\ parse_one_record(Remaining, last_lsn) = "frame"
  /\ LET header == Header(Remaining) IN
       /\ frames' = Append(frames, SubSeq(Remaining, 1, header.len))
       /\ offset' = offset + header.len
       /\ last_lsn' = header.lsn
  /\ UNCHANGED <<file, committed, spoiled, misled, damages, phase>>

ReplayLoud ==
  /\ phase = "replay"
  /\ offset < Len(file)
  /\ parse_one_record(Remaining, last_lsn) = "loud"
  /\ phase' = "loud"
  /\ UNCHANGED <<file, committed, spoiled, misled, damages, replayState>>

\* Mutant: the torn tail is left in the file.
ReplayStop_NoTruncate ==
  /\ phase = "replay"
  /\ offset < Len(file) => parse_one_record(Remaining, last_lsn) = "stop"
  /\ phase' = "ok"
  /\ UNCHANGED <<file, committed, spoiled, misled, damages, replayState>>

\* Mutant: the loop ends only at the end of the buffer.
ReplayStop_OnlyAtEnd ==
  /\ phase = "replay"
  /\ offset = Len(file)
  /\ phase' = "ok"
  /\ UNCHANGED <<file, committed, spoiled, misled, damages, replayState>>

\* The end of the buffer or a torn tail: Db::open truncates to valid_len, which
\* is the offset reached.
ReplayStop ==
  /\ phase = "replay"
  /\ offset < Len(file) => parse_one_record(Remaining, last_lsn) = "stop"
  /\ file' = SubSeq(file, 1, offset)
  /\ phase' = "ok"
  /\ UNCHANGED <<committed, spoiled, misled, damages, replayState>>

\* The recovered store commits on, from the frontier it recovered.
Resume ==
  /\ phase = "ok"
  /\ phase' = "live"
  /\ committed' = frames
  /\ spoiled' = 0
  /\ misled' = FALSE
  /\ offset' = 0
  /\ frames' = <<>>
  /\ last_lsn' = 0
  /\ UNCHANGED <<file, damages>>

Next ==
  \/ AppendCommit \/ Crash \/ FailedRollback \/ BitRot \/ Open
  \/ ReplayRecord \/ ReplayLoud \/ ReplayStop \/ Resume

Replay == ReplayRecord \/ ReplayLoud \/ ReplayStop

Spec == Init /\ [][Next]_vars /\ WF_vars(Replay)

-----------------------------------------------------------------------------
(* Properties *)

\* Cells, records and the replay cursor are well-formed.
TypeOK ==
  /\ file \in Seq(Cells)
  /\ committed \in Seq(Seq(Cells)) /\ frames \in Seq(Seq(Cells))
  /\ spoiled \in 0..MaxCommits
  /\ misled \in BOOLEAN
  /\ damages \in 0..MaxDamage
  /\ phase \in {"live", "replay", "ok", "loud"}
  /\ offset \in 0..Len(file)
  /\ last_lsn \in Nat

\* Replay invents nothing and reorders nothing: whatever the damage, the records
\* it accepts are a prefix of the committed ones.
ReplayIsPrefix == IsPrefix(frames, committed)

\* A recovery that reports success has dropped nothing but the record that was
\* damaged: with an intact commit after the damage it must be loud.
OnlyTailDropped ==
  phase = "ok" => \A i \in (Len(frames) + 1)..Len(committed) : i = spoiled

\* The same while lengths and counts can be trusted and no stray bytes lie between
\* the records: the tail-or-loud decision of parse_one_record is then exact.
FramedTailDropped == ~misled => OnlyTailDropped

\* After the truncation the log is byte for byte the encoding of the recovered
\* frames, so the next append starts on a record boundary.
TruncatedClean == phase = "ok" => file = FlattenSeq(frames)

\* Recovery ends, whatever the bytes are.
ReplayTerminates == phase = "replay" ~> phase # "replay"

\* Whatever the damage, replay accepts a prefix of the commits and leaves the log ready
\* for the next append.
RecoveredClean == TypeOK /\ ReplayIsPrefix /\ TruncatedClean
=============================================================================
