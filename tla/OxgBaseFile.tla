----------------------------- MODULE OxgBaseFile -----------------------------
(***************************************************************************)
(* The base file of oxgraph-db: how a checkpoint freezes a merged view     *)
(* into sections of the container, and how an open binds them again, the   *)
(* derived index borrowed where it lies and not rebuilt.  A record, a word *)
(* of a run and an interned name are one cell each.                        *)
(***************************************************************************)
EXTENDS OxgRead, Integers

MAX_BASE_SECTION_KINDS == 22
OXGDB_FORMAT_VERSION == 1
WordSize == 16            \* stands for 2^64, the range of a scalar word
RELATION_TYPE_NONE == 0

File == INSTANCE OxgContainer WITH MAX_SECTION_COUNT <- MAX_BASE_SECTION_KINDS

\* Sections in the order they are emitted; a section's kind is its place.
SectionNames ==
  <<"header", "role", "label", "relation_type", "property_key", "projection", "index", "defs",
    "elements", "element_labels", "relations", "relation_labels", "incidences",
    "properties", "property_text", "label_postings", "relation_type_postings",
    "element_incidences", "relation_incidences", "equality", "equality_text", "strings">>
KindOf(name) == CHOOSE n \in DOMAIN SectionNames : SectionNames[n] = name

-----------------------------------------------------------------------------
(* Words *)

encode_relation_type(type) == IF type = Absent THEN RELATION_TYPE_NONE ELSE type
decode_relation_type(word) == IF word = RELATION_TYPE_NONE THEN Absent ELSE word

property_family_tag == [element |-> 0, relation |-> 1, incidence |-> 2]
property_type_tag == [boolean |-> 0, integer |-> 1, text |-> 2]
FromTag(tags, word) == CHOOSE name \in DOMAIN tags : tags[name] = word
ToTag(tags, word) == \E name \in DOMAIN tags : tags[name] = word

encode_subject(s) == <<property_family_tag[s[1]], s[2]>>
decode_subject(kind, id) == <<FromTag(property_family_tag, kind), id>>

\* A stored value read as a value of a type: a flag, an integer on either side of
\* zero, or a text, whose length differs from value to value.
PropertyValue(type, v) ==
  CASE type = "boolean" -> v > 0
    [] type = "integer" -> v - 1
    [] type = "text" -> [n \in 1..v |-> v]

TextBefore(x, y) ==
  \E n \in 1..Len(y) : /\ n <= Len(x) + 1
                       /\ SubSeq(x, 1, n - 1) = SubSeq(y, 1, n - 1)
                       /\ n > Len(x) \/ x[n] < y[n]
ValueBefore(type, x, y) ==
  CASE type = "boolean" -> ~x /\ y
    [] type = "integer" -> x < y
    [] type = "text" -> TextBefore(x, y)

cast_unsigned(n) == n % WordSize
cast_signed(word) == IF word >= WordSize \div 2 THEN word - WordSize ELSE word

\* The scalar word of a value and the slice its text gets at the end of a pool.
ScalarOf(type, value) ==
  CASE type = "boolean" -> IF value THEN 1 ELSE 0
    [] type = "integer" -> cast_unsigned(value)
    [] type = "text" -> 0
TextOf(type, value) == IF type = "text" THEN value ELSE <<>>
ValueWire(type, value, text) ==
  [value_tag |-> property_type_tag[type], scalar |-> ScalarOf(type, value),
   text_off |-> IF type = "text" THEN Len(text) ELSE 0, text_len |-> Len(TextOf(type, value))]

Slice(run, off, len) == SubSeq(run, off + 1, off + len)
InBounds(run, off, len) == off + len <= Len(run)

ValueReadable(wire, text) ==
  /\ ToTag(property_type_tag, wire.value_tag)
  /\ wire.value_tag = property_type_tag.text => InBounds(text, wire.text_off, wire.text_len)
ReadValue(wire, text) ==
  LET type == FromTag(property_type_tag, wire.value_tag) IN
    CASE type = "boolean" -> wire.scalar # 0
      [] type = "integer" -> cast_signed(wire.scalar)
      [] type = "text" -> Slice(text, wire.text_off, wire.text_len)

-----------------------------------------------------------------------------
(* Freezing: header, catalog, topology, properties, index, strings          *)

\* next are the nine allocators: three of the graph and six of the catalog.
encode_header(stamps, graph_next, catalog_next) ==
  <<[format_version |-> OXGDB_FORMAT_VERSION, stamps |-> stamps,
     graph_next |-> graph_next, catalog_next |-> catalog_next]>>

named_wire(st, id) == [id |-> id, name_off |-> Len(st.strings), name_len |-> 1]
def_wire(st, id, body) ==
  named_wire(st, id)
    @@ [kind |-> body.tag, payload_off |-> Len(st.defs), payload_len |-> Len(body.words)]
property_key_wire(st, id, def) ==
  named_wire(st, id)
    @@ [family |-> property_family_tag[def.family], value_type |-> property_type_tag[def.value_type]]

HasBody(kind) == kind \in {"projection", "index"}

AddDefinition(st, kind, id, entry) ==
  [st EXCEPT !.strings = Append(@, entry.name),
             !.defs = IF HasBody(kind) THEN @ \o Body(kind, entry.def).words ELSE @,
             !.records[kind] = Append(@,
                CASE HasBody(kind) -> def_wire(st, id, Body(kind, entry.def))
                  [] kind = "property_key" -> property_key_wire(st, id, entry.def)
                  [] OTHER -> named_wire(st, id))]

CatalogOrder == <<"role", "label", "relation_type", "property_key", "projection", "index">>

encode_catalog(cat) ==
  LET AddKind(st, kind) == Loop(LAMBDA acc, id : AddDefinition(acc, kind, id, DefOf(cat, kind, id)),
                                st, Sorted(DOMAIN cat[kind].defs))
  IN  Loop(AddKind, [strings |-> <<>>, defs |-> <<>>, records |-> [kind \in Kinds |-> <<>>]], CatalogOrder)

\* Mutant: the offset is taken after the record's own labels were appended.
AddLabelled_LateOffset(st, record, labels) ==
  [records |-> Append(st.records, record @@ [label_off |-> Len(st.run \o Sorted(labels)),
                                             label_len |-> Cardinality(labels)]),
   run |-> st.run \o Sorted(labels)]

AddLabelled(st, record, labels) ==
  [records |-> Append(st.records, record @@ [label_off |-> Len(st.run), label_len |-> Cardinality(labels)]),
   run |-> st.run \o Sorted(labels)]

NoRecords == [records |-> <<>>, run |-> <<>>]

ElementRecords(b) ==
  Loop(LAMBDA st, e : AddLabelled(st, [id |-> e], b.elements[e].labels), NoRecords, Sorted(Held(b.elements)))
RelationRecords(b) ==
  Loop(LAMBDA st, r : AddLabelled(st, [id |-> r, relation_type |-> encode_relation_type(b.relations[r].type)],
                                  b.relations[r].labels),
       NoRecords, Sorted(Held(b.relations)))
IncidenceRecords(b) ==
  LET ids == Sorted(Held(b.incidences)) IN [n \in DOMAIN ids |-> [id |-> ids[n]] @@ b.incidences[ids[n]]]

\* values gives the value of a (subject, key) pair, all of one type.
encode_properties(pairs, type, values) ==
  Loop(LAMBDA st, p :
         [records |-> Append(st.records, [subject_kind |-> encode_subject(p[1])[1],
                                          subject_id |-> encode_subject(p[1])[2], key |-> p[2]]
                                           @@ ValueWire(type, values[p], st.run)),
          run |-> st.run \o TextOf(type, values[p])],
       NoRecords, Ordered(pairs, PairBefore))

\* The directory and the pool of a posting section behind their two lengths.
add_framed_section(dir, pool) == IF dir = <<>> THEN <<>> ELSE <<Len(dir), Len(pool)>> \o dir \o pool

encode_simple_posting(map) ==
  LET st == Loop(LAMBDA acc, key :
                   [dir |-> Append(acc.dir, [key |-> key, members_off |-> Len(acc.pool),
                                             members_len |-> Cardinality(map[key])]),
                    pool |-> acc.pool \o Sorted(map[key])],
                 [dir |-> <<>>, pool |-> <<>>], Sorted(DOMAIN map))
  IN  add_framed_section(st.dir, st.pool)

SubjectWords(subjects) ==
  FoldLeft(LAMBDA words, s : words \o encode_subject(s), <<>>, Ordered(subjects, SubjectBefore))

\* Mutant: the directory is in the order of the scalar words.
EqualityBefore_Scalar(type, x, y) ==
  x[1] < y[1] \/ (x[1] = y[1] /\ IF type = "text" THEN TextBefore(x[2], y[2])
                                 ELSE ScalarOf(type, x[2]) < ScalarOf(type, y[2]))

EqualityBefore(type, x, y) == x[1] < y[1] \/ (x[1] = y[1] /\ ValueBefore(type, x[2], y[2]))

encode_equality_posting(map, type) ==
  Loop(LAMBDA st, slot :
         [dir |-> Append(st.dir, [key_id |-> slot[1], members_off |-> Len(st.pool),
                                  members_len |-> 2 * Cardinality(map[slot])]
                                   @@ ValueWire(type, slot[2], st.text)),
          pool |-> st.pool \o SubjectWords(map[slot]),
          text |-> st.text \o TextOf(type, slot[2])],
       [dir |-> <<>>, pool |-> <<>>, text |-> <<>>],
       Ordered(DOMAIN map, LAMBDA x, y : EqualityBefore(type, x, y)))

\* The five posting maps of OwnedBaseIndex: a key is there when something has it.
NonEmpty(postings) == [k \in {k \in DOMAIN postings : postings[k] # {}} |-> postings[k]]

from_state(b, type) ==
  LET Typed(slot) == <<slot[1], PropertyValue(type, slot[2])>>
      used == {slot \in Slots : equality_subjects(b, slot) # {}}
  IN  [label_postings |-> NonEmpty([l \in Labels |-> label_posting(b, l)]),
       relation_type_postings |-> NonEmpty([t \in Types |-> relation_type_posting(b, t)]),
       element_incidences |-> NonEmpty([e \in Elements |-> element_incidence_posting(b, e)]),
       relation_incidences |-> NonEmpty([r \in Relations |-> relation_incidence_posting(b, r)]),
       equality |-> [x \in {Typed(slot) : slot \in used} |->
                       equality_subjects(b, CHOOSE slot \in used : Typed(slot) = x)]]

TypedProperties(b, type) ==
  [p \in base_property_triples(b) |-> PropertyValue(type, b.properties[p[1]][p[2]])]

\* Every section's payload, from the encoders' results; an empty one is not written.
Payloads(header, c, es, rs, is, ps, maps, eq) ==
  [header |-> header, role |-> c.records["role"], label |-> c.records["label"],
   relation_type |-> c.records["relation_type"], property_key |-> c.records["property_key"],
   projection |-> c.records["projection"], index |-> c.records["index"], defs |-> c.defs,
   elements |-> es.records, element_labels |-> es.run,
   relations |-> rs.records, relation_labels |-> rs.run, incidences |-> is,
   properties |-> ps.records, property_text |-> ps.run,
   label_postings |-> encode_simple_posting(maps.label_postings),
   relation_type_postings |-> encode_simple_posting(maps.relation_type_postings),
   element_incidences |-> encode_simple_posting(maps.element_incidences),
   relation_incidences |-> encode_simple_posting(maps.relation_incidences),
   equality |-> add_framed_section(eq.dir, eq.pool), equality_text |-> eq.text,
   strings |-> c.strings]

Sections(payloads) ==
  SelectSeq([n \in DOMAIN SectionNames |->
               [kind |-> n, version |-> 1, alignment_log2 |-> 0, payload |-> payloads[SectionNames[n]]]],
            LAMBDA s : s.payload # <<>>)

\* The base file of a view whose values all have the given type.
FreezeFile(cat, catalog_next, b, type, stamps) ==
  LET maps == from_state(b, type)
      payloads == Payloads(encode_header(stamps, b.next, catalog_next), encode_catalog(cat),
                           ElementRecords(b), RelationRecords(b), IncidenceRecords(b),
                           encode_properties(base_property_triples(b), type, TypedProperties(b, type)),
                           maps, encode_equality_posting(maps.equality, type))
      written == File!WriteAll(MAX_BASE_SECTION_KINDS, Sections(payloads))
  IN  IF written.err = "Ok" THEN Answer(File!finish(written.val)) ELSE Failed("InvalidStore")

-----------------------------------------------------------------------------
(* Opening.  A section is verified against its checksum when it is bound.   *)

Intact(section) == File!Checksum32(section.payload) = section.crc

\* typed_records and raw_blob: an absent section is an empty one.
Bind(s, name) ==
  LET found == File!section(s, KindOf(name)) IN
    CASE found.err # "Ok" -> Answer(<<>>)
      [] ~Intact(found.val) -> Failed("InvalidStore")
      [] OTHER -> Answer(found.val.payload)

split_posting_section(cells) ==
  CASE cells = <<>> -> Answer([dir |-> <<>>, pool |-> <<>>])
    [] Len(cells) < 2 \/ 2 + cells[1] + cells[2] > Len(cells) -> Failed("InvalidStore")
    [] OTHER -> Answer([dir |-> Slice(cells, 2, cells[1]), pool |-> Slice(cells, 2 + cells[1], cells[2])])

\* Mutant: a posting section is split without a look at its checksum.
posting_slices_Unverified(s, name) ==
  LET found == File!section(s, KindOf(name)) IN
    IF found.err = "Ok" THEN split_posting_section(found.val.payload) ELSE split_posting_section(<<>>)

posting_slices(s, name) ==
  LET bound == Bind(s, name) IN IF bound.err = "Ok" THEN split_posting_section(bound.val) ELSE bound

validate_simple_dir(p) == \A n \in DOMAIN p.dir : InBounds(p.pool, p.dir[n].members_off, p.dir[n].members_len)

decode_subjects(words) == {decode_subject(words[2 * n - 1], words[2 * n]) : n \in 1..(Len(words) \div 2)}

validate_equality_dir(p, text) ==
  \A n \in DOMAIN p.dir :
    LET e == p.dir[n] IN
      /\ ValueReadable(e, text)
      /\ InBounds(p.pool, e.members_off, e.members_len)
      /\ e.members_len % 2 = 0
      /\ \A k \in 1..(e.members_len \div 2) : ToTag(property_family_tag, p.pool[e.members_off + 2 * k - 1])

SimplePostings == {"label_postings", "relation_type_postings", "element_incidences", "relation_incidences"}

attach_index(s) ==
  LET postings == [name \in SimplePostings \cup {"equality"} |-> posting_slices(s, name)]
      text == Bind(s, "equality_text")
  IN  CASE text.err # "Ok" \/ \E name \in DOMAIN postings : postings[name].err # "Ok" -> Failed("InvalidStore")
        [] \E name \in SimplePostings : ~validate_simple_dir(postings[name].val) -> Failed("InvalidStore")
        [] ~validate_equality_dir(postings["equality"].val, text.val) -> Failed("InvalidStore")
        [] OTHER -> Answer([name \in DOMAIN postings |-> postings[name].val] @@ [text |-> text.val])

read_str(table, off) == table[off + 1]

\* A record of a catalog section back in the catalog, or why it cannot be.
decode_definition(kind, r, defs) ==
  LET body == [tag |-> r.kind, words |-> Slice(defs, r.payload_off, r.payload_len)] IN
    CASE kind = "property_key" ->
           IF ToTag(property_family_tag, r.family) /\ ToTag(property_type_tag, r.value_type)
           THEN [err |-> "Ok", def |-> [family |-> FromTag(property_family_tag, r.family),
                                        value_type |-> FromTag(property_type_tag, r.value_type)]]
           ELSE [err |-> "malformed"]
      [] HasBody(kind) /\ ~InBounds(defs, r.payload_off, r.payload_len) -> [err |-> "malformed"]
      [] kind = "projection" -> decode_projection_body(body)
      [] kind = "index" -> decode_index_body(body)
      [] OTHER -> [err |-> "Ok", def |-> <<>>]

InsertRecord(acc, kind, r, table, defs) ==
  CASE acc.err # "Ok" -> acc
    [] ~InBounds(table, r.name_off, r.name_len) -> Failed("InvalidStore")
    [] decode_definition(kind, r, defs).err # "Ok" -> Failed("InvalidStore")
    [] Named(acc.val, kind, read_str(table, r.name_off)) -> Failed("InvalidStore")
    [] OTHER -> Answer(insert_named(acc.val, kind, r.id, read_str(table, r.name_off),
                                    decode_definition(kind, r, defs).def))

\* records are the bound catalog sections by kind.
decode_catalog(records, table, defs) ==
  Loop(LAMBDA acc, kind :
         Loop(LAMBDA inner, r : InsertRecord(inner, kind, r, table, defs), acc, records[kind]),
       Answer(EmptyCatalog), CatalogOrder)

PropertySortKey(r) == <<r.subject_kind, r.subject_id, r.key>>
verify_properties_sorted(records) ==
  \A n \in 1..(Len(records) - 1) :
    LET x == PropertySortKey(records[n])
        y == PropertySortKey(records[n + 1])
    IN  x = y \/ TextBefore(x, y)

\* The BaseView over the bound sections, bound by name.
ViewOver(bound, index) ==
  LET payload == [name \in DOMAIN bound |-> bound[name].val]
      cat == decode_catalog([kind \in Kinds |-> payload[kind]], payload["strings"], payload["defs"])
  IN  CASE cat.err # "Ok" -> cat
        [] ~verify_properties_sorted(payload["properties"]) -> Failed("InvalidStore")
        [] index.err # "Ok" -> index
        [] OTHER -> Answer([payload |-> payload, index |-> index.val, catalog |-> cat.val,
                            header |-> payload["header"][1]])

PlainSections == Range(SectionNames) \ (SimplePostings \cup {"equality", "equality_text"})

attach_view(f) ==
  LET opened == File!open_checked(f)
      bound == [name \in PlainSections |-> Bind(opened.val, name)]
  IN  CASE opened.err # "Ok" -> Failed("InvalidStore")
        [] bound["header"].err # "Ok" -> bound["header"]
        [] bound["header"].val = <<>> -> Failed("InvalidStore")
        [] bound["header"].val[1].format_version # OXGDB_FORMAT_VERSION -> Failed("UnsupportedFormat")
        [] \E name \in PlainSections : bound[name].err # "Ok" -> Failed("InvalidStore")
        [] OTHER -> ViewOver(bound, attach_index(opened.val))

-----------------------------------------------------------------------------
(* BaseRecords: the owned records decoded from a view                       *)

ById(records, id) == CHOOSE n \in DOMAIN records : records[n].id = id
Ids(records) == {records[n].id : n \in DOMAIN records}
LabelsIn(run, r) == Range(Slice(run, r.label_off, r.label_len))

RunsInBounds(records, run) ==
  \A n \in DOMAIN records : InBounds(run, records[n].label_off, records[n].label_len)

decode_base_properties(records, text, s, k) ==
  LET at == {n \in DOMAIN records : PropertySortKey(records[n]) = encode_subject(s) \o <<k>>} IN
    IF at = {} THEN Absent ELSE ReadValue(records[CHOOSE n \in at : TRUE], text)

decode_records(view) ==
  LET p == view.payload
      Rec(name, id) == p[name][ById(p[name], id)]
  IN  IF /\ RunsInBounds(p["elements"], p["element_labels"])
         /\ RunsInBounds(p["relations"], p["relation_labels"])
         /\ \A n \in DOMAIN p["properties"] :
              ToTag(property_family_tag, p["properties"][n].subject_kind)
                /\ ValueReadable(p["properties"][n], p["property_text"])
      THEN Answer(
        [elements |-> [e \in Elements |->
           IF e \in Ids(p["elements"]) THEN [labels |-> LabelsIn(p["element_labels"], Rec("elements", e))]
           ELSE Absent],
         relations |-> [r \in Relations |->
           IF r \in Ids(p["relations"])
           THEN [type |-> decode_relation_type(Rec("relations", r).relation_type),
                 labels |-> LabelsIn(p["relation_labels"], Rec("relations", r))]
           ELSE Absent],
         incidences |-> [i \in Incidences |->
           IF i \in Ids(p["incidences"])
           THEN [f \in {"relation", "element", "role"} |-> Rec("incidences", i)[f]] ELSE Absent],
         properties |-> [s \in Subjects |-> [k \in Keys |->
           decode_base_properties(p["properties"], p["property_text"], s, k)]]])
      ELSE Failed("InvalidStore")

-----------------------------------------------------------------------------
(* Lookups in the borrowed postings                                         *)

\* slice::binary_search_by over how each entry compares with the probe; 0: not found.
BinarySearch(order) ==
  LET Search[lo \in 1..(Len(order) + 1), hi \in 0..Len(order)] ==
        LET mid == (lo + hi) \div 2 IN
          CASE lo > hi -> 0
            [] order[mid] = 0 -> mid
            [] order[mid] < 0 -> Search[mid + 1, hi]
            [] OTHER -> Search[lo, mid - 1]
  IN  Search[1, Len(order)]

Compare3(Before(_, _), x, y) == IF Before(x, y) THEN -1 ELSE IF Before(y, x) THEN 1 ELSE 0

simple_lookup(p, key) ==
  LET at == BinarySearch([n \in DOMAIN p.dir |-> Compare3(<, p.dir[n].key, key)]) IN
    IF at = 0 THEN {} ELSE Range(Slice(p.pool, p.dir[at].members_off, p.dir[at].members_len))

equality_entry_key(entry, text) == <<entry.key_id, ReadValue(entry, text)>>
EntrySubjects(index, entry) ==
  decode_subjects(Slice(index.equality.pool, entry.members_off, entry.members_len))

borrowed_equality_subjects(index, type, key, value) ==
  LET dir == index.equality.dir
      Before(x, y) == EqualityBefore(type, x, y)
      at == BinarySearch([n \in DOMAIN dir |-> Compare3(Before, equality_entry_key(dir[n], index.text), <<key, value>>)])
  IN  IF at = 0 THEN {} ELSE EntrySubjects(index, dir[at])

\* From the key's first posting on, past the values below min, up to the first above max.
borrowed_range_postings(index, type, key, min, max) ==
  LET dir == index.equality.dir
      lower == Cardinality({n \in DOMAIN dir : dir[n].key_id < key}) + 1
      Value(n) == equality_entry_key(dir[n], index.text)[2]
      Stops(n) == dir[n].key_id # key \/ ValueBefore(type, max, Value(n))
  IN  IF ValueBefore(type, max, min) THEN {}
      ELSE UNION {EntrySubjects(index, dir[n]) :
                    n \in {n \in lower..Len(dir) : /\ \A m \in lower..n : ~Stops(m)
                                                   /\ ~ValueBefore(type, Value(n), min)}}

borrowed_key_postings(index, key) ==
  LET dir == index.equality.dir
      lower == Cardinality({n \in DOMAIN dir : dir[n].key_id < key}) + 1
  IN  {[value |-> equality_entry_key(dir[n], index.text)[2], subjects |-> EntrySubjects(index, dir[n])] :
         n \in {n \in lower..Len(dir) : \A m \in lower..n : dir[m].key_id = key}}
=============================================================================
