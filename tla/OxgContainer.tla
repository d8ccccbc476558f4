----------------------------- MODULE OxgContainer -----------------------------
(***************************************************************************)
(* The section container of oxgraph-snapshot.  A file is its header, its   *)
(* section table and its cells, one cell for each machine word; a cell of  *)
(* the header or the table is kept in the first two and left zero here.    *)
(* A CRC-32C is the words it is taken over: no two contents collide.       *)
(***************************************************************************)
EXTENDS Integers, Sequences, SequencesExt

CONSTANT MAX_SECTION_COUNT

ASSUME ContainerAssumption == MAX_SECTION_COUNT \in Nat

HEADER_SIZE == 1
SECTION_ENTRY_SIZE == 1
MAX_ALIGNMENT_LOG2 == 2

Good(v) == [err |-> "Ok", val |-> v]
Bad(e) == [err |-> e, val |-> <<>>]

Checksum32(words) == words

align_up(value, alignment_log2) ==
  LET alignment == 2 ^ alignment_log2 IN ((value + alignment - 1) \div alignment) * alignment

Zeros(n) == [i \in 1..n |-> 0]
Padded(cells, len) == cells \o Zeros(len - Len(cells))

-----------------------------------------------------------------------------
(* SnapshotWriter.  The table is reserved at its largest; an abandoned sink *)
(* leaves its cells behind without an entry.                               *)

SnapshotWriter(max_sections) ==
  IF max_sections > MAX_SECTION_COUNT THEN Bad("TooManySections")
  ELSE Good([cells |-> Zeros(HEADER_SIZE + max_sections * SECTION_ENTRY_SIZE),
             entries |-> <<>>, max_sections |-> max_sections])

begin_section(w, kind, version, alignment_log2) ==
  CASE alignment_log2 > MAX_ALIGNMENT_LOG2 -> Bad("AlignmentTooLarge")
    [] Len(w.entries) >= w.max_sections -> Bad("TooManySections")
    [] w.entries # <<>> /\ kind <= Last(w.entries).kind -> Bad("NonAscendingKind")
    [] OTHER ->
         LET start == align_up(Len(w.cells), alignment_log2) IN
           Good([writer |-> [w EXCEPT !.cells = Padded(@, start)], start |-> start, kind |-> kind,
                 version |-> version, crc |-> <<>>, alignment_log2 |-> alignment_log2])

sink_write(sink, words) ==
  [sink EXCEPT !.crc = Checksum32(@ \o words), !.writer.cells = @ \o words]

sink_end(sink) ==
  [sink.writer EXCEPT !.entries =
     Append(@, [offset |-> sink.start, length |-> Len(sink.writer.cells) - sink.start,
                kind |-> sink.kind, version |-> sink.version, crc |-> sink.crc,
                alignment_log2 |-> sink.alignment_log2, flags |-> 0, reserved |-> 0])]

\* section_bytes, section_typed, section_little_endian and section_widths.
section_words(w, kind, version, alignment_log2, words) ==
  LET sink == begin_section(w, kind, version, alignment_log2) IN
    IF sink.err = "Ok" THEN Good(sink_end(sink_write(sink.val, words))) ELSE sink

RawHeader(entries) ==
  [magic |-> 1, format_major |-> 1, format_minor |-> 0, header_size |-> HEADER_SIZE,
   section_count |-> Len(entries), table_crc32c |-> Checksum32(entries), reserved |-> 0]

finish(w) == [header |-> RawHeader(w.entries), table |-> w.entries, cells |-> w.cells]

\* The sections of a plan, written one after the other.
WriteAll(max_sections, sections) ==
  FoldLeft(LAMBDA acc, s :
             IF acc.err = "Ok"
             THEN section_words(acc.val, s.kind, s.version, s.alignment_log2, s.payload) ELSE acc,
           SnapshotWriter(max_sections), sections)

-----------------------------------------------------------------------------
(* SnapshotPlan: the same file without a builder, sized exactly.            *)

SnapshotPlan(sections) ==
  CASE Len(sections) > MAX_SECTION_COUNT -> Bad("TooManySections")
    [] \E i \in DOMAIN sections : sections[i].alignment_log2 > MAX_ALIGNMENT_LOG2 ->
         Bad("AlignmentTooLarge")
    [] \E i \in 2..Len(sections) : sections[i].kind <= sections[i - 1].kind -> Bad("NonAscendingKind")
    [] OTHER -> Good(sections)

PayloadStart(sections) == HEADER_SIZE + Len(sections) * SECTION_ENTRY_SIZE

\* Mutant: the padding before a section is not counted.
plan_cursor_Packed(sections) ==
  LET Cursor[i \in 1..(Len(sections) + 1)] ==
        IF i = 1 THEN PayloadStart(sections) ELSE Cursor[i - 1] + Len(sections[i - 1].payload)
  IN  Cursor

\* Where each payload begins: the running cursor, aligned for the section.
plan_cursor(sections) ==
  LET Cursor[i \in 1..(Len(sections) + 1)] ==
        LET start == IF i = 1 THEN PayloadStart(sections)
                     ELSE Cursor[i - 1] + Len(sections[i - 1].payload)
        IN  IF i > Len(sections) THEN start ELSE align_up(start, sections[i].alignment_log2)
  IN  Cursor

encoded_len(sections) == plan_cursor(sections)[Len(sections) + 1]

write_into(sections, available) ==
  LET at == plan_cursor(sections)
      entries == [i \in DOMAIN sections |->
                    [offset |-> at[i], length |-> Len(sections[i].payload), kind |-> sections[i].kind,
                     version |-> sections[i].version, crc |-> Checksum32(sections[i].payload),
                     alignment_log2 |-> sections[i].alignment_log2, flags |-> 0, reserved |-> 0]]
      Cell(p) == LET i == {j \in DOMAIN sections : at[j] < p /\ p <= at[j] + Len(sections[j].payload)}
                 IN  IF i = {} THEN 0 ELSE LET j == CHOOSE k \in i : TRUE
                                           IN  sections[j].payload[p - at[j]]
  IN  IF available < encoded_len(sections) THEN Bad("BufferTooSmall")
      ELSE Good([header |-> RawHeader(entries), table |-> entries,
                 cells |-> [p \in 1..encoded_len(sections) |-> Cell(p)]])

-----------------------------------------------------------------------------
(* Opening *)

parse_header(f) == Len(f.cells) >= HEADER_SIZE

validate_magic_versions_reserved(h) ==
  /\ h.magic = 1 /\ h.format_major = 1 /\ h.format_minor <= 0
  /\ h.header_size = HEADER_SIZE /\ h.reserved = 0

header_only_open(f) ==
  IF parse_header(f) /\ validate_magic_versions_reserved(f.header) THEN Good(f) ELSE Bad("Header")
\* Mutant: sections may overlap each other and the table.
validate_section_table_Overlap(len, entries, level) ==
  /\ \A i \in DOMAIN entries :
       /\ i > 1 => entries[i].kind > entries[i - 1].kind
       /\ entries[i].flags = 0 /\ entries[i].reserved = 0
       /\ entries[i].alignment_log2 <= MAX_ALIGNMENT_LOG2
       /\ entries[i].offset + entries[i].length <= len

validate_section_table(len, entries, level) ==
  /\ \A i \in DOMAIN entries :
       /\ i > 1 => entries[i].kind > entries[i - 1].kind
       /\ entries[i].flags = 0 /\ entries[i].reserved = 0
       /\ entries[i].alignment_log2 <= MAX_ALIGNMENT_LOG2
       /\ entries[i].offset + entries[i].length <= len
  /\ level = "Layout" =>
       \A i \in DOMAIN entries :
         entries[i].offset >=
           IF i = 1 THEN HEADER_SIZE + Len(entries) * SECTION_ENTRY_SIZE
           ELSE entries[i - 1].offset + entries[i - 1].length

\* The entries the header counts; a slot never written reads as zeros.
NoEntry == [offset |-> 0, length |-> 0, kind |-> 0, version |-> 0, crc |-> <<>>,
            alignment_log2 |-> 0, flags |-> 0, reserved |-> 0]
Counted(f) == [i \in 1..f.header.section_count |-> IF i <= Len(f.table) THEN f.table[i] ELSE NoEntry]

open_at(f, level) ==
  LET entries == Counted(f) IN
    CASE header_only_open(f).err # "Ok" -> header_only_open(f)
      [] f.header.section_count > MAX_SECTION_COUNT -> Bad("SectionCountTooLarge")
      [] Len(f.cells) - HEADER_SIZE < Len(entries) * SECTION_ENTRY_SIZE -> Bad("TruncatedSectionTable")
      [] ~validate_section_table(Len(f.cells), entries, level) -> Bad("SectionTable")
      [] OTHER -> Good([entries |-> entries, cells |-> f.cells, table_crc32c |-> f.header.table_crc32c])
\* Mutant: the table checksum is not compared.
open_checked_NoTable(f) == open_at(f, "Layout")

open_checked(f) ==
  LET snapshot == open_at(f, "Layout") IN
    CASE snapshot.err # "Ok" -> snapshot
      [] Checksum32(snapshot.val.entries) # snapshot.val.table_crc32c -> Bad("TableChecksumMismatch")
      [] OTHER -> snapshot

PayloadOf(s, entry) == SubSeq(s.cells, entry.offset + 1, entry.offset + entry.length)

verify_all(s) == \A i \in DOMAIN s.entries :
  Checksum32(PayloadOf(s, s.entries[i])) = s.entries[i].crc

section(s, kind) ==
  IF \E i \in DOMAIN s.entries : s.entries[i].kind = kind
  THEN LET e == s.entries[CHOOSE i \in DOMAIN s.entries : s.entries[i].kind = kind]
       IN  Good([version |-> e.version, payload |-> PayloadOf(s, e), crc |-> e.crc])
  ELSE Bad("Missing")

\* elem_size is the length of one record; a slice holds whole records.
typed_section(s, kind, version, elem_size) ==
  LET found == section(s, kind) IN
    CASE found.err # "Ok" -> found
      [] found.val.version # version -> Bad("VersionMismatch")
      [] Len(found.val.payload) % elem_size # 0 -> Bad("View")
      [] OTHER -> Good(found.val.payload)

\* Rewrites one checksum, and the table's, for a payload edited in place.
patch_section_crc(f, kind) ==
  LET snapshot == open_at(f, "Layout") IN
    CASE snapshot.err # "Ok" -> snapshot
      [] section(snapshot.val, kind).err # "Ok" -> Bad("SectionMissing")
      [] OTHER ->
           LET at == CHOOSE i \in DOMAIN f.table : f.table[i].kind = kind
               table == [f.table EXCEPT ![at].crc = Checksum32(section(snapshot.val, kind).val.payload)]
           IN  Good([f EXCEPT !.table = table,
                              !.header.table_crc32c = Checksum32(SubSeq(table, 1, f.header.section_count))])
=============================================================================
