----------------------------- MODULE OxgOverlay -----------------------------
(***************************************************************************)
(* The state model of oxgraph-db: an immutable base generation, an overlay *)
(* of deltas over it, and the postings that answer lookups without a scan. *)
(* Every definition is a pure operator: b is a BaseRecords, o an overlay   *)
(* (published or being written), p one posting delta of an OverlayIndex.   *)
(*                                                                         *)
(* A delta map is a total function: Unset is an id the map does not hold,  *)
(* Absent is its tombstone, and a base holds Absent for an id it lacks.    *)
(* The catalog is taken as given: every label, type and key of the         *)
(* constants is registered.                                                *)
(***************************************************************************)
EXTENDS Naturals

CONSTANTS
  MaxElement, MaxRelation, MaxIncidence,     \* bounds on the three id spaces
  Labels, Types, Roles,                      \* registered labels, relation types, roles
  ElementKeys, RelationKeys, IncidenceKeys,  \* property keys, by their family
  MaxValue,                                  \* bound: property values are 0..MaxValue
  Absent, Unset                              \* see above

Elements == 1..MaxElement
Relations == 1..MaxRelation
Incidences == 1..MaxIncidence
Keys == ElementKeys \cup RelationKeys \cup IncidenceKeys
Values == 0..MaxValue

ElementSubject(e) == <<"element", e>>
RelationSubject(r) == <<"relation", r>>
IncidenceSubject(i) == <<"incidence", i>>
Subjects ==
  ({"element"} \X Elements) \cup ({"relation"} \X Relations)
    \cup ({"incidence"} \X Incidences)

\* The subjects a key may be set on.
FamilyOf(k) ==
  {s \in Subjects :
     \/ s[1] = "element" /\ k \in ElementKeys
     \/ s[1] = "relation" /\ k \in RelationKeys
     \/ s[1] = "incidence" /\ k \in IncidenceKeys}

ElementRecord == [labels : SUBSET Labels]
RelationRecord == [type : Types \cup {Absent}, labels : SUBSET Labels]
IncidenceRecord == [relation : Relations, element : Elements, role : Roles]
NextIds == [element : Nat, relation : Nat, incidence : Nat]

ASSUME OverlayAssumption ==
  /\ MaxElement \in Nat /\ MaxRelation \in Nat /\ MaxIncidence \in Nat /\ MaxValue \in Nat
  /\ Absent # Unset
  /\ \A x \in {Absent, Unset} :
       x \notin Values /\ x \notin Types /\ x \notin ElementRecord
         /\ x \notin RelationRecord /\ x \notin IncidenceRecord

\* A key definition names the one family of subjects it applies to.
ASSUME FamilyAssumption ==
  /\ ElementKeys \cap RelationKeys = {}
  /\ ElementKeys \cap IncidenceKeys = {}
  /\ RelationKeys \cap IncidenceKeys = {}

-----------------------------------------------------------------------------
(* Posting deltas: members added to and removed from the base postings, per *)
(* posting key (a label, a type, a key and value, an element, a relation).  *)

Posting(K, M) == [added : [K -> SUBSET M], removed : [K -> SUBSET M]]

NoPosting(K) == [added |-> [k \in K |-> {}], removed |-> [k \in K |-> {}]]

Put(p, key, m) ==
  [added |-> [p.added EXCEPT ![key] = @ \cup {m}],
   removed |-> [p.removed EXCEPT ![key] = @ \ {m}]]

\* The member leaves the posting of every key in keys.
Withdraw(p, keys, m) ==
  [added |-> [k \in DOMAIN p.added |-> p.added[k] \ (IF k \in keys THEN {m} ELSE {})],
   removed |-> [k \in DOMAIN p.removed |-> p.removed[k] \cup (IF k \in keys THEN {m} ELSE {})]]

merge_posting(posting, p, key) == (posting \cup p.added[key]) \ p.removed[key]

-----------------------------------------------------------------------------
(* Bases and overlays *)

Slots == Keys \X Values

Base ==
  [elements : [Elements -> ElementRecord \cup {Absent}],
   relations : [Relations -> RelationRecord \cup {Absent}],
   incidences : [Incidences -> IncidenceRecord \cup {Absent}],
   properties : [Subjects -> [Keys -> Values \cup {Absent}]],
   next : NextIds]

Overlay ==
  [elements : [Elements -> ElementRecord \cup {Absent, Unset}],
   relations : [Relations -> RelationRecord \cup {Absent, Unset}],
   incidences : [Incidences -> IncidenceRecord \cup {Absent, Unset}],
   properties : [Subjects -> [Keys -> Values \cup {Absent, Unset}]],
   next : NextIds,
   label : Posting(Labels, Elements),
   relation_type : Posting(Types, Relations),
   equality : Posting(Slots, Subjects),
   element_incidence : Posting(Elements, Incidences),
   relation_incidence : Posting(Relations, Incidences)]

EmptyBase ==
  [elements |-> [e \in Elements |-> Absent],
   relations |-> [r \in Relations |-> Absent],
   incidences |-> [i \in Incidences |-> Absent],
   properties |-> [s \in Subjects |-> [k \in Keys |-> Absent]],
   next |-> [element |-> 1, relation |-> 1, incidence |-> 1]]

EmptyOverlay(next) ==
  [elements |-> [e \in Elements |-> Unset],
   relations |-> [r \in Relations |-> Unset],
   incidences |-> [i \in Incidences |-> Unset],
   properties |-> [s \in Subjects |-> [k \in Keys |-> Unset]],
   next |-> next,
   label |-> NoPosting(Labels),
   relation_type |-> NoPosting(Types),
   equality |-> NoPosting(Slots),
   element_incidence |-> NoPosting(Elements),
   relation_incidence |-> NoPosting(Relations)]

-----------------------------------------------------------------------------
(* The merged view: the overlay's entry where it has one, else the base's.  *)

Merge(entry, below) == IF entry = Unset THEN below ELSE entry

Element(b, o, e) == Merge(o.elements[e], b.elements[e])
Relation(b, o, r) == Merge(o.relations[r], b.relations[r])
Incidence(b, o, i) == Merge(o.incidences[i], b.incidences[i])
Property(b, o, s, k) == Merge(o.properties[s][k], b.properties[s][k])

Visible(b, o, s) ==
  \/ s[1] = "element" /\ Element(b, o, s[2]) # Absent
  \/ s[1] = "relation" /\ Relation(b, o, s[2]) # Absent
  \/ s[1] = "incidence" /\ Incidence(b, o, s[2]) # Absent

\* The base a checkpoint freezes out of a merged view.
freeze_view(b, o) ==
  [elements |-> [e \in Elements |-> Element(b, o, e)],
   relations |-> [r \in Relations |-> Relation(b, o, r)],
   incidences |-> [i \in Incidences |-> Incidence(b, o, i)],
   properties |-> [s \in Subjects |-> [k \in Keys |-> Property(b, o, s, k)]],
   next |-> o.next]

-----------------------------------------------------------------------------
(* The mutators of WriteOverlay *)

create_element(o, e) == [o EXCEPT !.elements[e] = [labels |-> {}]]
create_relation(o, r) == [o EXCEPT !.relations[r] = [type |-> Absent, labels |-> {}]]

create_incidence(o, i, r, e, role) ==
  [o EXCEPT !.incidences[i] = [relation |-> r, element |-> e, role |-> role],
            !.element_incidence = Put(@, e, i),
            !.relation_incidence = Put(@, r, i)]

\* The (key, value) postings a subject is visible in.
SlotsOf(b, o, s) == {slot \in Slots : Property(b, o, s, slot[1]) = slot[2]}
\* Mutant: only the subject's deltas go; the base's values show through.
tombstone_subject_properties_NoMask(b, s) == [k \in Keys |-> Unset]

\* The subject's own deltas go; each base property is masked.
tombstone_subject_properties(b, s) ==
  [k \in Keys |-> IF b.properties[s][k] = Absent THEN Unset ELSE Absent]
\* Mutant: the label postings keep the element.
tombstone_element_KeepsLabels(b, o, e) ==
  LET s == ElementSubject(e) IN
    [o EXCEPT !.equality = Withdraw(@, SlotsOf(b, o, s), s),
              !.elements[e] = Absent,
              !.properties[s] = tombstone_subject_properties(b, s)]

tombstone_element(b, o, e) ==
  LET s == ElementSubject(e)
      labels == IF Element(b, o, e) = Absent THEN {} ELSE Element(b, o, e).labels
  IN  [o EXCEPT !.label = Withdraw(@, labels, e),
                !.equality = Withdraw(@, SlotsOf(b, o, s), s),
                !.elements[e] = Absent,
                !.properties[s] = tombstone_subject_properties(b, s)]

tombstone_relation(b, o, r) ==
  LET s == RelationSubject(r)
      types == IF Relation(b, o, r) = Absent THEN {} ELSE {Relation(b, o, r).type}
  IN  [o EXCEPT !.relation_type = Withdraw(@, types, r),
                !.equality = Withdraw(@, SlotsOf(b, o, s), s),
                !.relations[r] = Absent,
                !.properties[s] = tombstone_subject_properties(b, s)]

\* The postings are touched only when the incidence is visible.
tombstone_incidence(b, o, i) ==
  LET s == IncidenceSubject(i)
      record == Incidence(b, o, i)
  IN  [o EXCEPT !.element_incidence =
                  Withdraw(@, IF record = Absent THEN {} ELSE {record.element}, i),
                !.relation_incidence =
                  Withdraw(@, IF record = Absent THEN {} ELSE {record.relation}, i),
                !.equality =
                  Withdraw(@, IF record = Absent THEN {} ELSE SlotsOf(b, o, s), s),
                !.incidences[i] = Absent,
                !.properties[s] = tombstone_subject_properties(b, s)]

\* A base record is copied up before it changes; an absent one stays absent.
add_element_label(b, o, e, label) ==
  IF Element(b, o, e) = Absent THEN o
  ELSE [o EXCEPT !.elements[e] = [labels |-> Element(b, o, e).labels \cup {label}],
                 !.label = Put(@, label, e)]

add_relation_label(b, o, r, label) ==
  IF Relation(b, o, r) = Absent THEN o
  ELSE [o EXCEPT !.relations[r] = [Relation(b, o, r) EXCEPT !.labels = @ \cup {label}]]

set_relation_type(b, o, r, type) ==
  IF Relation(b, o, r) = Absent THEN o
  ELSE [o EXCEPT !.relations[r] = [Relation(b, o, r) EXCEPT !.type = type],
                 !.relation_type =
                   Put(Withdraw(@, {Relation(b, o, r).type} \ {type}, r), type, r)]

set_property(b, o, s, k, v) ==
  [o EXCEPT !.equality = Put(Withdraw(@, {slot \in SlotsOf(b, o, s) : slot[1] = k}
                                           \ {<<k, v>>}, s), <<k, v>>, s),
            !.properties[s][k] = v]

remove_property(b, o, s, k) ==
  [o EXCEPT !.equality = Withdraw(@, {slot \in SlotsOf(b, o, s) : slot[1] = k}, s),
            !.properties[s][k] = Absent]

\* Recovery applies one logged operation; creations take their id from it.
apply_replay_op(b, o, op) ==
  CASE op.kind = "create_element" -> create_element(o, op.id)
    [] op.kind = "create_relation" -> create_relation(o, op.id)
    [] op.kind = "create_incidence" ->
         create_incidence(o, op.id, op.relation, op.element, op.role)
    [] op.kind = "tombstone_element" -> tombstone_element(b, o, op.id)
    [] op.kind = "tombstone_relation" -> tombstone_relation(b, o, op.id)
    [] op.kind = "tombstone_incidence" -> tombstone_incidence(b, o, op.id)
    [] op.kind = "add_element_label" -> add_element_label(b, o, op.id, op.label)
    [] op.kind = "add_relation_label" -> add_relation_label(b, o, op.id, op.label)
    [] op.kind = "set_relation_type" -> set_relation_type(b, o, op.id, op.type)
    [] op.kind = "set_property" -> set_property(b, o, op.subject, op.key, op.value)
    [] op.kind = "remove_property" -> remove_property(b, o, op.subject, op.key)
    [] op.kind = "next_id_watermark" -> [o EXCEPT !.next = op.next]

-----------------------------------------------------------------------------
(* Lookups through the postings of the base and the overlay *)

label_posting(b, label) == {e \in Elements : b.elements[e] # Absent /\ label \in b.elements[e].labels}

relation_type_posting(b, type) ==
  {r \in Relations : b.relations[r] # Absent /\ b.relations[r].type = type}

equality_subjects(b, slot) == {s \in Subjects : b.properties[s][slot[1]] = slot[2]}

element_incidence_posting(b, e) ==
  {i \in Incidences : b.incidences[i] # Absent /\ b.incidences[i].element = e}

relation_incidence_posting(b, r) ==
  {i \in Incidences : b.incidences[i] # Absent /\ b.incidences[i].relation = r}

elements_with_label(b, o, label) ==
  merge_posting(label_posting(b, label), o.label, label)

relations_with_type(b, o, type) ==
  merge_posting(relation_type_posting(b, type), o.relation_type, type)
\* Mutant: the postings of the base are not consulted.
element_incidences_OverlayOnly(b, o, e) ==
  {i \in o.element_incidence.added[e] : Incidence(b, o, i) # Absent}

\* An incidence that is no longer visible is filtered out of the answer.
element_incidences(b, o, e) ==
  {i \in merge_posting(element_incidence_posting(b, e), o.element_incidence, e) :
     Incidence(b, o, i) # Absent}

relation_incidences(b, o, r) ==
  {i \in merge_posting(relation_incidence_posting(b, r), o.relation_incidence, r) :
     Incidence(b, o, i) # Absent}

property_equal(b, o, k, v) ==
  merge_posting(equality_subjects(b, <<k, v>>), o.equality, <<k, v>>)

\* Base postings are masked one by one; additions join unmasked.
property_range(b, o, k, min, max) ==
  UNION {(equality_subjects(b, <<k, v>>) \ o.equality.removed[<<k, v>>])
           \cup o.equality.added[<<k, v>>] : v \in {w \in Values : min <= w /\ w <= max}}
\* Mutant: removals do not mask the base postings.
property_key_subjects_NoMask(b, o, k) ==
  {p \in Subjects \X Values :
     p[1] \in equality_subjects(b, <<k, p[2]>>) \cup o.equality.added[<<k, p[2]>>]}

\* The subjects carrying a key, with their values (a map: later entries win).
property_key_subjects(b, o, k) ==
  {p \in Subjects \X Values :
     p[1] \in (equality_subjects(b, <<k, p[2]>>) \ o.equality.removed[<<k, p[2]>>])
                \cup o.equality.added[<<k, p[2]>>]}
=============================================================================
