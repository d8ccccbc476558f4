----------------------------- MODULE OxgProperty -----------------------------
(***************************************************************************)
(* The property columns of oxgraph-property as operators: layers, their    *)
(* encoding in two sections of a container, the checks on reading them     *)
(* back, rekeying to local ids, and weight selection.  A layer name is a   *)
(* number, the string table holds one word for each name, and an Arrow     *)
(* stream is <<columns, rows>> followed by its cells, column by column.    *)
(***************************************************************************)
EXTENDS OxgContainer

CONSTANT NullCell   \* the cell of an Arrow null, a number no value uses

ASSUME PropertyAssumption == NullCell \in Nat

Families == {"Element", "Relation", "Incidence"}
FamilyTag(family) == CASE family = "Element" -> 0 [] family = "Relation" -> 1 [] OTHER -> 2
StorageTag(storage) == IF storage = "Dense" THEN 0 ELSE 1
MissingTag(storage) == CASE storage = "Dense" -> 0 [] storage = "SparseNull" -> 1 [] OTHER -> 2

\* The words of a descriptor record, in order.
Fields == <<"layer_id", "name_offset", "name_len", "id_family", "role", "storage",
            "missing_policy", "logical_len", "value_count", "value_data_offset", "value_data_len",
            "default_data_offset", "default_data_len", "reserved">>
RecordWords == Len(Fields)
Field(record, name) == record[CHOOSE i \in DOMAIN Fields : Fields[i] = name]

SNAPSHOT_PROPERTY_VERSION == 1
DESCRIPTORS == 100
DATA == 104
MODES == 110
MapKind(family) == CASE family = "Element" -> 114 [] family = "Relation" -> 118 [] OTHER -> 122

-----------------------------------------------------------------------------
(* Layers *)

NoNulls(values) == NullCell \notin Range(values)

validate_sparse_indices(indices, len) ==
  /\ \A i \in DOMAIN indices : indices[i] < len
  /\ \A i \in 2..Len(indices) : indices[i - 1] < indices[i]

validate_default_policy(storage, default) ==
  IF storage = "SparseNull" THEN default = <<>>
  ELSE Len(default) = 1 /\ NoNulls(default)

try_new_dense(d, values) ==
  CASE d.storage # "Dense" -> Bad("ExpectedDenseStorage")
    [] ~d.nullable /\ ~NoNulls(values) -> Bad("UnexpectedNull")
    [] OTHER -> Good([d |-> d, len |-> Len(values), indices |-> <<>>, values |-> values,
                      default |-> <<>>])

try_new_sparse(d, len, indices, values, default) ==
  CASE d.storage = "Dense" -> Bad("ExpectedSparseStorage")
    [] ~validate_default_policy(d.storage, default) -> Bad("DefaultPolicyMismatch")
    [] Len(indices) # Len(values) -> Bad("SparseLengthMismatch")
    [] ~d.nullable /\ ~NoNulls(values) -> Bad("UnexpectedNull")
    [] ~validate_sparse_indices(indices, len) -> Bad("SparseIndex")
    [] OTHER -> Good([d |-> d, len |-> len, indices |-> indices, values |-> values,
                      default |-> default])

validate_layer_lengths(layers, required) == \A i \in DOMAIN layers : layers[i].len >= required

\* What a layer says of one id.
sparse_value(layer, index) ==
  LET Low[low \in 0..Len(layer.indices), high \in 0..Len(layer.indices)] ==
        LET mid == low + ((high - low) \div 2) IN
          IF low >= high THEN low
          ELSE IF layer.indices[mid + 1] < index THEN Low[mid + 1, high] ELSE Low[low, mid]
      at == Low[0, Len(layer.indices)] + 1
  IN  IF at <= Len(layer.indices) /\ layer.indices[at] = index THEN layer.values[at]
      ELSE IF layer.default = <<>> THEN NullCell ELSE layer.default[1]

ValueAt(layer, index) ==
  IF layer.d.storage = "Dense" THEN layer.values[index + 1] ELSE sparse_value(layer, index)

\* Selection of a layer as the weight of a topology's axis: total and without nulls.
validate_dense_primitive_selection(layer, expected, required) ==
  /\ layer.d.id_family = expected /\ layer.len >= required
  /\ layer.d.storage = "Dense" /\ NoNulls(layer.values)
validate_sparse_primitive_selection(layer, expected, required) ==
  /\ layer.d.id_family = expected /\ layer.len >= required
  /\ layer.d.storage # "Dense" /\ layer.default # <<>> /\ NoNulls(layer.values)

-----------------------------------------------------------------------------
(* Rekeying: local slot l takes the value of the canonical id map[l].       *)

\* Mutant: remapped sparse values stay in canonical order.
rekey_layer_to_local_Unsorted(layer, map) ==
  LET Local(c) == CHOOSE l \in DOMAIN map : map[l] = c
      remapped == [i \in DOMAIN layer.indices |->
                     <<Local(layer.indices[i]) - 1, layer.values[i]>>]
      locals == SortSeq([i \in DOMAIN remapped |-> remapped[i][1]], <)
  IN  CASE \E i \in DOMAIN map : map[i] >= layer.len -> Bad("SparseIndexOutOfBounds")
        [] layer.d.storage = "Dense" ->
             try_new_dense(layer.d, [i \in DOMAIN map |-> layer.values[map[i] + 1]])
        [] ~(Range(layer.indices) \subseteq Range(map)) -> Bad("SparseIndexOutOfBounds")
        [] OTHER -> try_new_sparse(layer.d, Len(map), locals,
                                   [i \in DOMAIN remapped |-> remapped[i][2]], layer.default)

rekey_layer_to_local(layer, map) ==
  LET Local(c) == CHOOSE l \in DOMAIN map : map[l] = c /\ \A k \in DOMAIN map : map[k] = c => k <= l
      remapped == SortSeq([i \in DOMAIN layer.indices |->
                             <<Local(layer.indices[i]) - 1, layer.values[i]>>],
                          LAMBDA p, q : p[1] < q[1])
  IN  CASE \E i \in DOMAIN map : map[i] >= layer.len -> Bad("SparseIndexOutOfBounds")
        [] layer.d.storage = "Dense" ->
             try_new_dense(layer.d, [i \in DOMAIN map |-> layer.values[map[i] + 1]])
        [] ~(Range(layer.indices) \subseteq Range(map)) -> Bad("SparseIndexOutOfBounds")
        [] OTHER -> try_new_sparse(layer.d, Len(map), [i \in DOMAIN remapped |-> remapped[i][1]],
                                   [i \in DOMAIN remapped |-> remapped[i][2]], layer.default)

-----------------------------------------------------------------------------
(* The encoder *)

Batch(columns) == <<Len(columns), Len(columns[1])>> \o FlattenSeq(columns)

encode_layer_value_ipc(layer) ==
  Batch(IF layer.d.storage = "Dense" THEN <<layer.values>> ELSE <<layer.indices, layer.values>>)
encode_layer_default_ipc(layer) == IF layer.default = <<>> THEN <<>> ELSE Batch(<<layer.default>>)

\* Appends one layer: the streams to the data, the name to the strings, a record.
encoder_append(e, layer) ==
  LET values == encode_layer_value_ipc(layer)
      default == encode_layer_default_ipc(layer)
      at == Len(e.data)
  IN  CASE <<layer.d.id_family, layer.d.name>> \in e.names -> Bad("DuplicateName")
        [] layer.d.layer_id \in e.ids -> Bad("DuplicateLayerId")
        [] OTHER ->
             Good([data |-> e.data \o values \o default, strings |-> Append(e.strings, layer.d.name),
                   records |-> Append(e.records,
                     <<layer.d.layer_id, Len(e.strings), 1, FamilyTag(layer.d.id_family), layer.d.role,
                       StorageTag(layer.d.storage), MissingTag(layer.d.storage), layer.len,
                       Len(layer.values), at, Len(values),
                       IF default = <<>> THEN 0 ELSE at + Len(values), Len(default), 0>>),
                   names |-> e.names \cup {<<layer.d.id_family, layer.d.name>>},
                   ids |-> e.ids \cup {layer.d.layer_id}])

encode_property_snapshot(layers) ==
  LET start == Good([data |-> <<>>, strings |-> <<>>, records |-> <<>>, names |-> {}, ids |-> {}])
      done == FoldLeft(LAMBDA acc, l : IF acc.err = "Ok" THEN encoder_append(acc.val, l) ELSE acc,
                       start, layers)
  IN  IF done.err # "Ok" THEN done
      ELSE Good([descriptors |-> <<Len(done.val.records), Len(done.val.records) * RecordWords>>
                                 \o FlattenSeq(done.val.records) \o done.val.strings,
                 data |-> done.val.data])

-----------------------------------------------------------------------------
(* Validation and decoding *)

checked_end(offset, len, available) == offset + len <= available

\* An Arrow reader stops at the end of the batch: longer input is not refused.
read_one_ipc_batch(words) == Len(words) >= 2 /\ words[1] \in 1..2 /\ Len(words) >= 2 + words[1] * words[2]
Column(words, c) == SubSeq(words, 3 + (c - 1) * words[2], 2 + c * words[2])

Stream(record, data, offset, len) ==
  SubSeq(data, Field(record, offset) + 1, Field(record, offset) + Field(record, len))
ValueStream(record, data) == Stream(record, data, "value_data_offset", "value_data_len")
DefaultStream(record, data) == Stream(record, data, "default_data_offset", "default_data_len")
HasDefault(record) == Field(record, "default_data_len") # 0

storage_from_tags(record) ==
  CASE Field(record, "storage") = 0 /\ Field(record, "missing_policy") = 0 -> "Dense"
    [] Field(record, "storage") = 1 /\ Field(record, "missing_policy") = 1 -> "SparseNull"
    [] Field(record, "storage") = 1 /\ Field(record, "missing_policy") = 2 -> "SparseDefault"
    [] OTHER -> "Unknown"

validate_dense_batch(record, values) ==
  /\ values[1] = 1
  /\ values[2] = Field(record, "logical_len") /\ values[2] = Field(record, "value_count")

validate_sparse_batch(record, storage, values, default) ==
  /\ values[1] = 2 /\ values[2] = Field(record, "value_count")
  /\ validate_sparse_indices(Column(values, 1), Field(record, "logical_len"))
  /\ HasDefault(record) <=> storage = "SparseDefault"
  /\ HasDefault(record) => default[1] = 1 /\ default[2] = 1 /\ NoNulls(Column(default, 1))

validate_property_record_data(record, data) ==
  LET values == ValueStream(record, data)
      default == DefaultStream(record, data)
  IN  /\ Field(record, "reserved") = 0
      /\ checked_end(Field(record, "value_data_offset"), Field(record, "value_data_len"), Len(data))
      /\ read_one_ipc_batch(values)
      /\ HasDefault(record) =>
           /\ checked_end(Field(record, "default_data_offset"), Field(record, "default_data_len"), Len(data))
           /\ read_one_ipc_batch(default)
      /\ IF storage_from_tags(record) = "Dense"
         THEN ~HasDefault(record) /\ validate_dense_batch(record, values)
         ELSE validate_sparse_batch(record, storage_from_tags(record), values, default)
\* Mutant: ranges may overlap as long as none leaves the section.
validate_data_coverage_Bounds(ranges, len) == \A i \in DOMAIN ranges : ranges[i][2] <= len

\* Sorted by their starts the ranges follow each other and end with the section.
validate_data_coverage(ranges, len) ==
  LET sorted == SortSeq(ranges, LAMBDA p, q : p[1] < q[1]) IN
    /\ \A i \in DOMAIN sorted : sorted[i][1] = IF i = 1 THEN 0 ELSE sorted[i - 1][2]
    /\ len = IF sorted = <<>> THEN 0 ELSE Last(sorted)[2]

Ranges(record) ==
  <<<<Field(record, "value_data_offset"),
      Field(record, "value_data_offset") + Field(record, "value_data_len")>>>>
  \o IF HasDefault(record)
     THEN <<<<Field(record, "default_data_offset"),
              Field(record, "default_data_offset") + Field(record, "default_data_len")>>>> ELSE <<>>

parse_property_record(descriptors, i) ==
  SubSeq(descriptors, 3 + (i - 1) * RecordWords, 2 + i * RecordWords)
Strings(descriptors) == SubSeq(descriptors, 3 + descriptors[2], Len(descriptors))
read_snapshot_str(descriptors, record) ==
  SubSeq(Strings(descriptors), Field(record, "name_offset") + 1,
         Field(record, "name_offset") + Field(record, "name_len"))

validate_property_sections(descriptors, data) ==
  /\ Len(descriptors) >= 2
  /\ descriptors[2] = descriptors[1] * RecordWords
  /\ Len(descriptors) >= 2 + descriptors[2]
  /\ LET records == [i \in 1..descriptors[1] |-> parse_property_record(descriptors, i)]
         Name(i) == <<Field(records[i], "id_family"), read_snapshot_str(descriptors, records[i])>>
     IN  /\ \A i \in DOMAIN records :
              /\ Field(records[i], "id_family") \in 0..2 /\ Field(records[i], "role") \in 0..1
              /\ storage_from_tags(records[i]) # "Unknown"
              /\ checked_end(Field(records[i], "name_offset"), Field(records[i], "name_len"),
                             Len(Strings(descriptors)))
              /\ validate_property_record_data(records[i], data)
         /\ IsInjective([i \in DOMAIN records |-> Field(records[i], "layer_id")])
         /\ IsInjective([i \in DOMAIN records |-> Name(i)])
         /\ validate_data_coverage(FlattenSeq([i \in DOMAIN records |-> Ranges(records[i])]), Len(data))

\* decode_sections and decode_all: what a layer read back holds.
decode_sections(descriptors, data) ==
  IF ~validate_property_sections(descriptors, data) THEN Bad("Property")
  ELSE Good([i \in 1..descriptors[1] |->
         LET record == parse_property_record(descriptors, i)
             values == ValueStream(record, data)
             dense == storage_from_tags(record) = "Dense"
         IN  [layer_id |-> Field(record, "layer_id"), name |-> read_snapshot_str(descriptors, record),
              id_family |-> Field(record, "id_family"), role |-> Field(record, "role"),
              storage |-> storage_from_tags(record), len |-> Field(record, "logical_len"),
              indices |-> IF dense THEN <<>> ELSE Column(values, 1),
              values |-> Column(values, IF dense THEN 1 ELSE 2),
              default |-> IF HasDefault(record) THEN Column(DefaultStream(record, data), 1) ELSE <<>>]])

decode_all(snapshot) ==
  LET descriptors == typed_section(snapshot, DESCRIPTORS, SNAPSHOT_PROPERTY_VERSION, 1)
      data == typed_section(snapshot, DATA, SNAPSHOT_PROPERTY_VERSION, 1)
  IN  CASE descriptors.err # "Ok" -> descriptors
        [] data.err # "Ok" -> data
        [] OTHER -> decode_sections(descriptors.val, data.val)

-----------------------------------------------------------------------------
(* Identity modes: three words for each family, family, mode and length.    *)

LocalEqualsCanonical(family, len) == <<FamilyTag(family), 0, len>>
ExplicitMap(family, len) == <<FamilyTag(family), 1, len>>

validate_identity_map_section(snapshot, family, required) ==
  LET map == typed_section(snapshot, MapKind(family), SNAPSHOT_PROPERTY_VERSION, 1) IN
    map.err = "Ok" /\ Len(map.val) = required

validate_identity_snapshot(snapshot) ==
  LET modes == typed_section(snapshot, MODES, SNAPSHOT_PROPERTY_VERSION, 3)
      Record(i) == SubSeq(modes.val, 3 * i - 2, 3 * i)
      records == [i \in 1..(Len(modes.val) \div 3) |-> Record(i)]
  IN  /\ modes.err = "Ok"
      /\ \A i \in DOMAIN records : records[i][1] \in 0..2 /\ records[i][2] \in 0..1
      /\ IsInjective([i \in DOMAIN records |-> records[i][1]])
      /\ \A i \in DOMAIN records : records[i][2] = 1 =>
           validate_identity_map_section(
             snapshot, CHOOSE f \in Families : FamilyTag(f) = records[i][1], records[i][3])

\* The four sections a property export adds after the topology's.
append_identity_and_property_sections(encoded, modes, map_kind, map) ==
  <<[kind |-> DESCRIPTORS, version |-> SNAPSHOT_PROPERTY_VERSION, alignment_log2 |-> 0,
     payload |-> encoded.descriptors],
    [kind |-> DATA, version |-> SNAPSHOT_PROPERTY_VERSION, alignment_log2 |-> 0, payload |-> encoded.data],
    [kind |-> MODES, version |-> SNAPSHOT_PROPERTY_VERSION, alignment_log2 |-> 1,
     payload |-> FlattenSeq(modes)],
    [kind |-> map_kind, version |-> SNAPSHOT_PROPERTY_VERSION, alignment_log2 |-> 1, payload |-> map]>>
=============================================================================
