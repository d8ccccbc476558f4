--------------------------- MODULE OxgWriter_proofs ---------------------------
(***************************************************************************)
(* Proofs about OxgWriter, for any id spaces, labels, types, keys and      *)
(* values and any number of operations, commits and checkpoints: the       *)
(* postings answer what a scan would, replay rebuilds what was published,  *)
(* ids are never reused, and no cascade, retain or upsert leaves the graph *)
(* torn between two calls.  The first half is about the overlay operators  *)
(* alone: which fields a mutator changes, that a posting delta stays exact *)
(* under it, and that it keeps an overlay sound.                           *)
(***************************************************************************)
EXTENDS OxgWriter, TLAPS

-----------------------------------------------------------------------------
(* Posting deltas *)

\* A posting delta is exact: no member is both added and removed, and over the
\* base posting B[k] of each key k it yields S[k].
Exact(p, B, S) ==
  \A k \in DOMAIN S :
    /\ p.added[k] \cap p.removed[k] = {}
    /\ (B[k] \cup p.added[k]) \ p.removed[k] = S[k]

\* The delta of an untouched index is exact: the base postings show.
LEMMA NoPostingExact ==
  ASSUME NEW K, NEW M
  PROVE  /\ NoPosting(K) \in Posting(K, M)
         /\ \A S : DOMAIN S = K => Exact(NoPosting(K), S, S)
BY DEF NoPosting, Posting, Exact

\* Adding a member adds it to what the posting yields.
LEMMA PutExact ==
  ASSUME NEW K, NEW M, NEW p \in Posting(K, M), NEW key \in K, NEW m \in M
  PROVE  /\ Put(p, key, m) \in Posting(K, M)
         /\ \A B, S, T :
              /\ DOMAIN S = K /\ DOMAIN T = K
              /\ Exact(p, B, S)
              /\ \A k \in K : T[k] = S[k] \cup (IF k = key THEN {m} ELSE {})
              => Exact(Put(p, key, m), B, T)
<1>1. /\ Put(p, key, m).added = [p.added EXCEPT ![key] = @ \cup {m}]
      /\ Put(p, key, m).removed = [p.removed EXCEPT ![key] = @ \ {m}]
      /\ p.added \in [K -> SUBSET M] /\ p.removed \in [K -> SUBSET M]
  BY DEF Put, Posting
<1>2. Put(p, key, m) \in Posting(K, M)
  BY DEF Put, Posting
<1>3. ASSUME NEW B, NEW S, NEW T,
             DOMAIN S = K /\ DOMAIN T = K,
             Exact(p, B, S),
             \A k \in K : T[k] = S[k] \cup (IF k = key THEN {m} ELSE {})
      PROVE  Exact(Put(p, key, m), B, T)
  BY <1>1, <1>3 DEF Exact
<1>4. QED
  BY <1>2, <1>3

\* Withdrawing a member takes it from what the posting yields for those keys.
LEMMA WithdrawExact ==
  ASSUME NEW K, NEW M, NEW p \in Posting(K, M), NEW keys, NEW m \in M
  PROVE  /\ Withdraw(p, keys, m) \in Posting(K, M)
         /\ \A B, S, T :
              /\ DOMAIN S = K /\ DOMAIN T = K
              /\ Exact(p, B, S)
              /\ \A k \in K : T[k] = S[k] \ (IF k \in keys THEN {m} ELSE {})
              => Exact(Withdraw(p, keys, m), B, T)
<1>1. /\ Withdraw(p, keys, m).added
           = [k \in K |-> p.added[k] \ (IF k \in keys THEN {m} ELSE {})]
      /\ Withdraw(p, keys, m).removed
           = [k \in K |-> p.removed[k] \cup (IF k \in keys THEN {m} ELSE {})]
      /\ p.added \in [K -> SUBSET M] /\ p.removed \in [K -> SUBSET M]
  BY DEF Withdraw, Posting
<1>2. Withdraw(p, keys, m) \in Posting(K, M)
  BY <1>1 DEF Withdraw, Posting
<1>3. ASSUME NEW B, NEW S, NEW T,
             DOMAIN S = K /\ DOMAIN T = K,
             Exact(p, B, S),
             \A k \in K : T[k] = S[k] \ (IF k \in keys THEN {m} ELSE {})
      PROVE  Exact(Withdraw(p, keys, m), B, T)
  BY <1>1, <1>3 DEF Exact
<1>4. QED
  BY <1>2, <1>3

-----------------------------------------------------------------------------
(* The fields a mutator changes *)

\* create_element writes the element's record.
LEMMA CreateElementFields ==
  ASSUME NEW o \in Overlay, NEW e \in Elements
  PROVE  LET n == create_element(o, e) IN
         /\ n \in Overlay
         /\ n.elements = [o.elements EXCEPT ![e] = [labels |-> {}]]
         /\ n.relations = o.relations /\ n.incidences = o.incidences
         /\ n.properties = o.properties /\ n.next = o.next
         /\ n.label = o.label /\ n.relation_type = o.relation_type
         /\ n.equality = o.equality
         /\ n.element_incidence = o.element_incidence
         /\ n.relation_incidence = o.relation_incidence
BY DEF create_element, Overlay, ElementRecord

\* create_relation writes the relation's record.
LEMMA CreateRelationFields ==
  ASSUME NEW o \in Overlay, NEW r \in Relations
  PROVE  LET n == create_relation(o, r) IN
         /\ n \in Overlay
         /\ n.relations = [o.relations EXCEPT ![r] = [type |-> Absent, labels |-> {}]]
         /\ n.elements = o.elements /\ n.incidences = o.incidences
         /\ n.properties = o.properties /\ n.next = o.next
         /\ n.label = o.label /\ n.relation_type = o.relation_type
         /\ n.equality = o.equality /\ n.element_incidence = o.element_incidence
         /\ n.relation_incidence = o.relation_incidence
BY DEF create_relation, Overlay, RelationRecord

\* create_incidence writes the record and both adjacency postings.
LEMMA CreateIncidenceFields ==
  ASSUME NEW o \in Overlay, NEW i \in Incidences, NEW r \in Relations, NEW e \in Elements,
         NEW role \in Roles
  PROVE  LET n == create_incidence(o, i, r, e, role) IN
         /\ n \in Overlay
         /\ n.incidences = [o.incidences EXCEPT ![i] = [relation |-> r, element |-> e, role |-> role]]
         /\ n.element_incidence = Put(o.element_incidence, e, i)
         /\ n.relation_incidence = Put(o.relation_incidence, r, i)
         /\ n.elements = o.elements /\ n.relations = o.relations
         /\ n.properties = o.properties /\ n.next = o.next
         /\ n.label = o.label /\ n.relation_type = o.relation_type
         /\ n.equality = o.equality
<1>1. /\ Put(o.element_incidence, e, i) \in Posting(Elements, Incidences)
      /\ Put(o.relation_incidence, r, i) \in Posting(Relations, Incidences)
  BY PutExact DEF Overlay
<1>2. QED
  BY <1>1 DEF create_incidence, Overlay, IncidenceRecord

-----------------------------------------------------------------------------
(* The merged view *)

\* A subject is an element, a relation or an incidence, and these are distinct.
LEMMA SubjectFacts ==
  /\ \A e \in Elements : ElementSubject(e) \in Subjects
  /\ \A r \in Relations : RelationSubject(r) \in Subjects
  /\ \A i \in Incidences : IncidenceSubject(i) \in Subjects
  /\ \A s \in Subjects :
       \/ s[2] \in Elements /\ s = ElementSubject(s[2]) /\ s[1] = "element"
       \/ s[2] \in Relations /\ s = RelationSubject(s[2]) /\ s[1] = "relation"
       \/ s[2] \in Incidences /\ s = IncidenceSubject(s[2]) /\ s[1] = "incidence"
BY DEF Subjects, ElementSubject, RelationSubject, IncidenceSubject

\* What the merged view shows is a record or nothing.
LEMMA ViewType ==
  ASSUME NEW b \in Base, NEW o \in Overlay
  PROVE  /\ \A e \in Elements : Element(b, o, e) \in ElementRecord \cup {Absent}
         /\ \A r \in Relations : Relation(b, o, r) \in RelationRecord \cup {Absent}
         /\ \A i \in Incidences : Incidence(b, o, i) \in IncidenceRecord \cup {Absent}
         /\ \A s \in Subjects, k \in Keys : Property(b, o, s, k) \in Values \cup {Absent}
BY DEF Element, Relation, Incidence, Property, Merge, Base, Overlay

\* The properties of a tombstoned subject are deltas.
LEMMA MaskType ==
  ASSUME NEW b \in Base, NEW s \in Subjects
  PROVE  tombstone_subject_properties(b, s) \in [Keys -> Values \cup {Absent, Unset}]
BY DEF tombstone_subject_properties

-----------------------------------------------------------------------------
(* The fields of what the other mutators return *)

\* tombstone_element leaves a tombstone, masks the properties and withdraws the postings.
LEMMA TombstoneElementFields ==
  ASSUME NEW b \in Base, NEW o \in Overlay, NEW e \in Elements
  PROVE  LET n == tombstone_element(b, o, e) IN
         /\ n \in Overlay
         /\ n.elements = [o.elements EXCEPT ![e] = Absent]
         /\ n.properties = [o.properties EXCEPT ![ElementSubject(e)] =
                              tombstone_subject_properties(b, ElementSubject(e))]
         /\ n.label = Withdraw(o.label, IF Element(b, o, e) = Absent THEN {}
                                  ELSE Element(b, o, e).labels, e)
         /\ n.equality = Withdraw(o.equality, SlotsOf(b, o, ElementSubject(e)), ElementSubject(e))
         /\ n.relations = o.relations /\ n.incidences = o.incidences
         /\ n.next = o.next /\ n.relation_type = o.relation_type
         /\ n.element_incidence = o.element_incidence /\ n.relation_incidence = o.relation_incidence
<1>1. /\ ElementSubject(e) \in Subjects
      /\ tombstone_subject_properties(b, ElementSubject(e)) \in [Keys -> Values \cup {Absent, Unset}]
  BY SubjectFacts, MaskType
<1>2. /\ \A labels : Withdraw(o.label, labels, e) \in Posting(Labels, Elements)
      /\ \A slots : Withdraw(o.equality, slots, ElementSubject(e)) \in Posting(Slots, Subjects)
  BY <1>1, WithdrawExact DEF Overlay
<1>3. tombstone_element(b, o, e) \in Overlay
  BY <1>1, <1>2 DEF tombstone_element, Overlay
<1>4. QED
  BY <1>1, <1>2, <1>3 DEF tombstone_element, Overlay

\* tombstone_relation does the same for a relation and its type.
LEMMA TombstoneRelationFields ==
  ASSUME NEW b \in Base, NEW o \in Overlay, NEW r \in Relations
  PROVE  LET n == tombstone_relation(b, o, r) IN
         /\ n \in Overlay
         /\ n.relations = [o.relations EXCEPT ![r] = Absent]
         /\ n.properties = [o.properties EXCEPT ![RelationSubject(r)] =
                              tombstone_subject_properties(b, RelationSubject(r))]
         /\ n.relation_type = Withdraw(o.relation_type, IF Relation(b, o, r) = Absent THEN {}
                                                  ELSE {Relation(b, o, r).type}, r)
         /\ n.equality = Withdraw(o.equality, SlotsOf(b, o, RelationSubject(r)), RelationSubject(r))
         /\ n.elements = o.elements /\ n.incidences = o.incidences
         /\ n.next = o.next /\ n.label = o.label
         /\ n.element_incidence = o.element_incidence /\ n.relation_incidence = o.relation_incidence
<1>1. /\ RelationSubject(r) \in Subjects
      /\ tombstone_subject_properties(b, RelationSubject(r)) \in [Keys -> Values \cup {Absent, Unset}]
  BY SubjectFacts, MaskType
<1>2. /\ \A types : Withdraw(o.relation_type, types, r) \in Posting(Types, Relations)
      /\ \A slots : Withdraw(o.equality, slots, RelationSubject(r)) \in Posting(Slots, Subjects)
  BY <1>1, WithdrawExact DEF Overlay
<1>3. tombstone_relation(b, o, r) \in Overlay
  BY <1>1, <1>2 DEF tombstone_relation, Overlay
<1>4. QED
  BY <1>1, <1>2, <1>3 DEF tombstone_relation, Overlay

\* tombstone_incidence of a visible incidence withdraws both adjacency postings.
LEMMA TombstoneIncidenceFields ==
  ASSUME NEW b \in Base, NEW o \in Overlay, NEW i \in Incidences, Incidence(b, o, i) # Absent
  PROVE  LET n == tombstone_incidence(b, o, i) IN
         /\ n \in Overlay
         /\ n.incidences = [o.incidences EXCEPT ![i] = Absent]
         /\ n.properties = [o.properties EXCEPT ![IncidenceSubject(i)] =
                              tombstone_subject_properties(b, IncidenceSubject(i))]
         /\ n.element_incidence = Withdraw(o.element_incidence, {Incidence(b, o, i).element}, i)
         /\ n.relation_incidence = Withdraw(o.relation_incidence, {Incidence(b, o, i).relation}, i)
         /\ n.equality = Withdraw(o.equality, SlotsOf(b, o, IncidenceSubject(i)), IncidenceSubject(i))
         /\ n.elements = o.elements /\ n.relations = o.relations
         /\ n.next = o.next /\ n.label = o.label
         /\ n.relation_type = o.relation_type
<1>1. /\ IncidenceSubject(i) \in Subjects
      /\ tombstone_subject_properties(b, IncidenceSubject(i)) \in [Keys -> Values \cup {Absent, Unset}]
  BY SubjectFacts, MaskType
<1>2. /\ \A es : Withdraw(o.element_incidence, es, i) \in Posting(Elements, Incidences)
      /\ \A rs : Withdraw(o.relation_incidence, rs, i) \in Posting(Relations, Incidences)
      /\ \A slots : Withdraw(o.equality, slots, IncidenceSubject(i)) \in Posting(Slots, Subjects)
  BY <1>1, WithdrawExact DEF Overlay
<1>3. tombstone_incidence(b, o, i) \in Overlay
  BY <1>1, <1>2 DEF tombstone_incidence, Overlay
<1>4. QED
  BY <1>1, <1>2, <1>3 DEF tombstone_incidence, Overlay

\* add_element_label copies the record up and adds to the label's posting.
LEMMA AddElementLabelFields ==
  ASSUME NEW b \in Base, NEW o \in Overlay, NEW e \in Elements, NEW label \in Labels,
         Element(b, o, e) # Absent
  PROVE  LET n == add_element_label(b, o, e, label) IN
         /\ n \in Overlay
         /\ n.elements = [o.elements EXCEPT ![e] = [labels |-> Element(b, o, e).labels \cup {label}]]
         /\ n.label = Put(o.label, label, e)
         /\ n.relations = o.relations /\ n.incidences = o.incidences
         /\ n.properties = o.properties /\ n.next = o.next
         /\ n.relation_type = o.relation_type /\ n.equality = o.equality
         /\ n.element_incidence = o.element_incidence /\ n.relation_incidence = o.relation_incidence
<1>1. [labels |-> Element(b, o, e).labels \cup {label}] \in ElementRecord
  BY ViewType DEF ElementRecord
<1>2. Put(o.label, label, e) \in Posting(Labels, Elements)
  BY PutExact DEF Overlay
<1>3. add_element_label(b, o, e, label) \in Overlay
  BY <1>1, <1>2 DEF add_element_label, Overlay
<1>4. QED
  BY <1>1, <1>2, <1>3 DEF add_element_label, Overlay

\* add_relation_label copies the record up; relation labels have no posting.
LEMMA AddRelationLabelFields ==
  ASSUME NEW b \in Base, NEW o \in Overlay, NEW r \in Relations, NEW label \in Labels,
         Relation(b, o, r) # Absent
  PROVE  LET n == add_relation_label(b, o, r, label) IN
         /\ n \in Overlay
         /\ n.relations = [o.relations EXCEPT ![r] =
                              [Relation(b, o, r) EXCEPT !.labels = @ \cup {label}]]
         /\ n.elements = o.elements /\ n.incidences = o.incidences
         /\ n.properties = o.properties /\ n.next = o.next
         /\ n.label = o.label /\ n.relation_type = o.relation_type
         /\ n.equality = o.equality /\ n.element_incidence = o.element_incidence
         /\ n.relation_incidence = o.relation_incidence
<1>1. [Relation(b, o, r) EXCEPT !.labels = @ \cup {label}] \in RelationRecord
  BY ViewType DEF RelationRecord
<1>2. add_relation_label(b, o, r, label) \in Overlay
  BY <1>1 DEF add_relation_label, Overlay
<1>3. QED
  BY <1>1, <1>2 DEF add_relation_label, Overlay

\* set_relation_type copies the record up and moves it from one posting to another.
LEMMA SetRelationTypeFields ==
  ASSUME NEW b \in Base, NEW o \in Overlay, NEW r \in Relations, NEW type \in Types,
         Relation(b, o, r) # Absent
  PROVE  LET n == set_relation_type(b, o, r, type) IN
         /\ n \in Overlay
         /\ n.relations = [o.relations EXCEPT ![r] = [Relation(b, o, r) EXCEPT !.type = type]]
         /\ n.relation_type = Put(Withdraw(o.relation_type, {Relation(b, o, r).type} \ {type}, r), type, r)
         /\ n.elements = o.elements /\ n.incidences = o.incidences
         /\ n.properties = o.properties /\ n.next = o.next
         /\ n.label = o.label /\ n.equality = o.equality
         /\ n.element_incidence = o.element_incidence /\ n.relation_incidence = o.relation_incidence
<1>1. [Relation(b, o, r) EXCEPT !.type = type] \in RelationRecord
  BY ViewType DEF RelationRecord
<1>2. \A types : Put(Withdraw(o.relation_type, types, r), type, r) \in Posting(Types, Relations)
  BY WithdrawExact, PutExact DEF Overlay
<1>3. set_relation_type(b, o, r, type) \in Overlay
  BY <1>1, <1>2 DEF set_relation_type, Overlay
<1>4. QED
  BY <1>1, <1>2, <1>3 DEF set_relation_type, Overlay

\* set_property records the value and moves the subject from one slot to another.
LEMMA SetPropertyFields ==
  ASSUME NEW b \in Base, NEW o \in Overlay, NEW s \in Subjects, NEW k \in Keys, NEW v \in Values
  PROVE  LET n == set_property(b, o, s, k, v) IN
         /\ n \in Overlay
         /\ n.properties = [o.properties EXCEPT ![s] = [o.properties[s] EXCEPT ![k] = v]]
         /\ n.equality = Put(Withdraw(o.equality, {slot \in SlotsOf(b, o, s) : slot[1] = k} \ {<<k, v>>}, s),
                          <<k, v>>, s)
         /\ n.elements = o.elements /\ n.relations = o.relations
         /\ n.incidences = o.incidences /\ n.next = o.next
         /\ n.label = o.label /\ n.relation_type = o.relation_type
         /\ n.element_incidence = o.element_incidence /\ n.relation_incidence = o.relation_incidence
<1>1. <<k, v>> \in Slots
  BY DEF Slots
<1>2. \A slots : Put(Withdraw(o.equality, slots, s), <<k, v>>, s) \in Posting(Slots, Subjects)
  BY <1>1, WithdrawExact, PutExact DEF Overlay
<1>3. set_property(b, o, s, k, v) \in Overlay
  BY <1>1, <1>2 DEF set_property, Overlay
<1>4. QED
  BY <1>1, <1>2, <1>3 DEF set_property, Overlay

\* remove_property masks the value and withdraws the subject from its slot.
LEMMA RemovePropertyFields ==
  ASSUME NEW b \in Base, NEW o \in Overlay, NEW s \in Subjects, NEW k \in Keys
  PROVE  LET n == remove_property(b, o, s, k) IN
         /\ n \in Overlay
         /\ n.properties = [o.properties EXCEPT ![s] = [o.properties[s] EXCEPT ![k] = Absent]]
         /\ n.equality = Withdraw(o.equality, {slot \in SlotsOf(b, o, s) : slot[1] = k}, s)
         /\ n.elements = o.elements /\ n.relations = o.relations
         /\ n.incidences = o.incidences /\ n.next = o.next
         /\ n.label = o.label /\ n.relation_type = o.relation_type
         /\ n.element_incidence = o.element_incidence /\ n.relation_incidence = o.relation_incidence
<1>1. \A slots : Withdraw(o.equality, slots, s) \in Posting(Slots, Subjects)
  BY WithdrawExact DEF Overlay
<1>2. remove_property(b, o, s, k) \in Overlay
  BY <1>1 DEF remove_property, Overlay
<1>3. QED
  BY <1>1, <1>2 DEF remove_property, Overlay

-----------------------------------------------------------------------------
(* Sound overlays *)

\* What a scan of the merged records finds, per key of each posting.
LabelScan(b, o) ==
  [label \in Labels |->
     {e \in Elements : Element(b, o, e) # Absent /\ label \in Element(b, o, e).labels}]
TypeScan(b, o) ==
  [type \in Types |->
     {r \in Relations : Relation(b, o, r) # Absent /\ Relation(b, o, r).type = type}]
SlotScan(b, o) ==
  [slot \in Slots |-> {s \in Subjects : Property(b, o, s, slot[1]) = slot[2]}]
ElementScan(b, o) ==
  [e \in Elements |->
     {i \in Incidences : Incidence(b, o, i) # Absent /\ Incidence(b, o, i).element = e}]
RelationScan(b, o) ==
  [r \in Relations |->
     {i \in Incidences : Incidence(b, o, i) # Absent /\ Incidence(b, o, i).relation = r}]

\* The postings of the base alone.
LabelBase(b) == [label \in Labels |-> label_posting(b, label)]
TypeBase(b) == [type \in Types |-> relation_type_posting(b, type)]
SlotBase(b) == [slot \in Slots |-> equality_subjects(b, slot)]
ElementBase(b) == [e \in Elements |-> element_incidence_posting(b, e)]
RelationBase(b) == [r \in Relations |-> relation_incidence_posting(b, r)]

\* Every posting delta is exact for the records of its overlay.
LabelsExact(b, o) == Exact(o.label, LabelBase(b), LabelScan(b, o))
TypesExact(b, o) == Exact(o.relation_type, TypeBase(b), TypeScan(b, o))
SlotsExact(b, o) == Exact(o.equality, SlotBase(b), SlotScan(b, o))
ElementsExact(b, o) == Exact(o.element_incidence, ElementBase(b), ElementScan(b, o))
RelationsExact(b, o) == Exact(o.relation_incidence, RelationBase(b), RelationScan(b, o))
Postings(b, o) ==
  LabelsExact(b, o) /\ TypesExact(b, o) /\ SlotsExact(b, o) /\ ElementsExact(b, o)
    /\ RelationsExact(b, o)

\* Ids start at one.
Counted(next) == next.element >= 1 /\ next.relation >= 1 /\ next.incidence >= 1

\* No layer holds an entry for an id at or above the watermark.
Fresh(b, o) ==
  /\ \A e \in Elements : e >= o.next.element =>
       o.elements[e] = Unset /\ b.elements[e] = Absent
  /\ \A r \in Relations : r >= o.next.relation =>
       o.relations[r] = Unset /\ b.relations[r] = Absent
  /\ \A i \in Incidences : i >= o.next.incidence =>
       o.incidences[i] = Unset /\ b.incidences[i] = Absent

\* A property that shows has a visible subject of its key's family.
Owned(b, o) ==
  \A s \in Subjects, k \in Keys :
    Property(b, o, s, k) # Absent => Visible(b, o, s) /\ s \in FamilyOf(k)

Sound(b, o) ==
  /\ o \in Overlay
  /\ Counted(o.next)
  /\ Fresh(b, o)
  /\ Postings(b, o)
  /\ Owned(b, o)

\* A scan depends on the records it reads only.
LEMMA ScanFrame ==
  ASSUME NEW b, NEW o, NEW n
  PROVE  /\ (\A e \in Elements : Element(b, n, e) = Element(b, o, e))
              => LabelScan(b, n) = LabelScan(b, o)
         /\ (\A r \in Relations : Relation(b, n, r) = Relation(b, o, r))
              => TypeScan(b, n) = TypeScan(b, o)
         /\ (\A i \in Incidences : Incidence(b, n, i) = Incidence(b, o, i))
              => ElementScan(b, n) = ElementScan(b, o) /\ RelationScan(b, n) = RelationScan(b, o)
         /\ (\A s \in Subjects, k \in Keys : Property(b, n, s, k) = Property(b, o, s, k))
              => SlotScan(b, n) = SlotScan(b, o)
<1>1. ASSUME \A e \in Elements : Element(b, n, e) = Element(b, o, e)
      PROVE  LabelScan(b, n) = LabelScan(b, o)
  BY <1>1 DEF LabelScan
<1>2. ASSUME \A r \in Relations : Relation(b, n, r) = Relation(b, o, r)
      PROVE  TypeScan(b, n) = TypeScan(b, o)
  BY <1>2 DEF TypeScan
<1>3. ASSUME \A i \in Incidences : Incidence(b, n, i) = Incidence(b, o, i)
      PROVE  ElementScan(b, n) = ElementScan(b, o) /\ RelationScan(b, n) = RelationScan(b, o)
  BY <1>3 DEF ElementScan, RelationScan
<1>4. ASSUME \A s \in Subjects, k \in Keys : Property(b, n, s, k) = Property(b, o, s, k)
      PROVE  SlotScan(b, n) = SlotScan(b, o)
  BY <1>4 DEF SlotScan, Slots
<1>5. QED
  BY <1>1, <1>2, <1>3, <1>4

\* Every entry of an overlay field shows where it is set; the base elsewhere.
LEMMA ViewFrame ==
  ASSUME NEW b, NEW o, NEW n
  PROVE  /\ n.elements = o.elements
              => \A e \in Elements : Element(b, n, e) = Element(b, o, e)
         /\ n.relations = o.relations
              => \A r \in Relations : Relation(b, n, r) = Relation(b, o, r)
         /\ n.incidences = o.incidences
              => \A i \in Incidences : Incidence(b, n, i) = Incidence(b, o, i)
         /\ n.properties = o.properties
              => \A s \in Subjects, k \in Keys : Property(b, n, s, k) = Property(b, o, s, k)
BY DEF Element, Relation, Incidence, Property

\* Creating an element under the watermark keeps an overlay sound.
LEMMA CreateElementSound ==
  ASSUME NEW b \in Base, NEW o, Sound(b, o), o.next.element <= MaxElement
  PROVE  LET id == o.next.element
             n == [create_element(o, id) EXCEPT !.next.element = id + 1]
         IN  /\ Sound(b, n)
             /\ id \in Elements
             /\ n.next = [o.next EXCEPT !.element = id + 1]
             /\ \A e \in Elements : Element(b, n, e) = IF e = id THEN [labels |-> {}]
                                                       ELSE Element(b, o, e)
             /\ \A r \in Relations : Relation(b, n, r) = Relation(b, o, r)
             /\ \A i \in Incidences : Incidence(b, n, i) = Incidence(b, o, i)
             /\ \A s \in Subjects, k \in Keys : Property(b, n, s, k) = Property(b, o, s, k)
<1> DEFINE id == o.next.element
           c == create_element(o, id)
           n == [c EXCEPT !.next.element = id + 1]
<1>1. o \in Overlay /\ o.next \in NextIds /\ id \in Nat /\ id >= 1 /\ id \in Elements
  BY OverlayAssumption DEF Sound, Counted, Overlay, NextIds, Elements
<1>2. /\ c \in Overlay
      /\ c.elements = [o.elements EXCEPT ![id] = [labels |-> {}]]
      /\ c.relations = o.relations /\ c.incidences = o.incidences
      /\ c.properties = o.properties /\ c.next = o.next
      /\ c.label = o.label /\ c.relation_type = o.relation_type
      /\ c.equality = o.equality
      /\ c.element_incidence = o.element_incidence
      /\ c.relation_incidence = o.relation_incidence
  BY <1>1, CreateElementFields
<1> HIDE DEF c
<1>3. /\ n \in Overlay
      /\ n.elements = [o.elements EXCEPT ![id] = [labels |-> {}]]
      /\ n.next = [o.next EXCEPT !.element = id + 1]
      /\ n.relations = o.relations /\ n.incidences = o.incidences
      /\ n.properties = o.properties
      /\ n.label = o.label /\ n.relation_type = o.relation_type
      /\ n.equality = o.equality
      /\ n.element_incidence = o.element_incidence
      /\ n.relation_incidence = o.relation_incidence
  BY <1>1, <1>2 DEF Overlay, NextIds
<1> HIDE DEF n
<1>4. /\ \A e \in Elements : Element(b, n, e) = IF e = id THEN [labels |-> {}]
                                                ELSE Element(b, o, e)
      /\ \A r \in Relations : Relation(b, n, r) = Relation(b, o, r)
      /\ \A i \in Incidences : Incidence(b, n, i) = Incidence(b, o, i)
      /\ \A s \in Subjects, k \in Keys : Property(b, n, s, k) = Property(b, o, s, k)
  <2>1. \A e \in Elements : n.elements[e] = IF e = id THEN [labels |-> {}] ELSE o.elements[e]
    BY <1>1, <1>3 DEF Overlay
  <2>2. [labels |-> {}] # Unset
    BY OverlayAssumption DEF ElementRecord
  <2>3. QED
    BY <1>3, <2>1, <2>2, ViewFrame DEF Element, Merge
<1>5. Counted(n.next)
  BY <1>1, <1>3 DEF Sound, Counted, NextIds
<1>6. Fresh(b, n)
  BY <1>1, <1>3 DEF Sound, Fresh, NextIds, Overlay, Elements
<1>7. Element(b, o, id) = Absent
  BY <1>1 DEF Sound, Fresh, Element, Merge, Elements
<1>8. Postings(b, n)
  <2>1. LabelScan(b, n) = LabelScan(b, o)
    BY <1>1, <1>4, <1>7 DEF LabelScan
  <2>2. QED
    BY <1>3, <1>4, <2>1, ScanFrame
       DEF Sound, Postings, LabelsExact, TypesExact, SlotsExact, ElementsExact, RelationsExact
<1>9. Owned(b, n)
  <2>1. [labels |-> {}] # Absent
    BY OverlayAssumption DEF ElementRecord
  <2>2. \A s \in Subjects : Visible(b, o, s) => Visible(b, n, s)
    BY <1>4, <2>1, SubjectFacts DEF Visible
  <2>3. QED
    BY <1>4, <2>2 DEF Sound, Owned
<1>10. QED
  BY <1>1, <1>3, <1>4, <1>5, <1>6, <1>8, <1>9 DEF Sound, n, c

\* Creating a relation under the watermark keeps an overlay sound.
LEMMA CreateRelationSound ==
  ASSUME NEW b \in Base, NEW o, Sound(b, o), o.next.relation <= MaxRelation
  PROVE  LET id == o.next.relation
             n == [create_relation(o, id) EXCEPT !.next.relation = id + 1]
         IN  /\ Sound(b, n)
             /\ id \in Relations
             /\ n.next = [o.next EXCEPT !.relation = id + 1]
             /\ \A r \in Relations : Relation(b, n, r) = IF r = id THEN [type |-> Absent, labels |-> {}]
                                                        ELSE Relation(b, o, r)
             /\ \A e \in Elements : Element(b, n, e) = Element(b, o, e)
             /\ \A i \in Incidences : Incidence(b, n, i) = Incidence(b, o, i)
             /\ \A s \in Subjects, k \in Keys : Property(b, n, s, k) = Property(b, o, s, k)
<1> DEFINE id == o.next.relation
           c == create_relation(o, id)
           n == [c EXCEPT !.next.relation = id + 1]
<1>1. o \in Overlay /\ o.next \in NextIds /\ id \in Nat /\ id >= 1 /\ id \in Relations
  BY OverlayAssumption DEF Sound, Counted, Overlay, NextIds, Relations
<1>2. /\ c \in Overlay
      /\ c.relations = [o.relations EXCEPT ![id] = [type |-> Absent, labels |-> {}]]
      /\ c.elements = o.elements /\ c.incidences = o.incidences
      /\ c.properties = o.properties /\ c.next = o.next
      /\ c.label = o.label /\ c.relation_type = o.relation_type
      /\ c.equality = o.equality
      /\ c.element_incidence = o.element_incidence
      /\ c.relation_incidence = o.relation_incidence
  BY <1>1, CreateRelationFields
<1> HIDE DEF c
<1>3. /\ n \in Overlay
      /\ n.relations = [o.relations EXCEPT ![id] = [type |-> Absent, labels |-> {}]]
      /\ n.next = [o.next EXCEPT !.relation = id + 1]
      /\ n.elements = o.elements /\ n.incidences = o.incidences
      /\ n.properties = o.properties
      /\ n.label = o.label /\ n.relation_type = o.relation_type
      /\ n.equality = o.equality
      /\ n.element_incidence = o.element_incidence
      /\ n.relation_incidence = o.relation_incidence
  BY <1>1, <1>2 DEF Overlay, NextIds
<1> HIDE DEF n
<1>4. /\ \A r \in Relations : Relation(b, n, r) = IF r = id THEN [type |-> Absent, labels |-> {}]
                                                 ELSE Relation(b, o, r)
      /\ \A e \in Elements : Element(b, n, e) = Element(b, o, e)
      /\ \A i \in Incidences : Incidence(b, n, i) = Incidence(b, o, i)
      /\ \A s \in Subjects, k \in Keys : Property(b, n, s, k) = Property(b, o, s, k)
  <2>1. \A r \in Relations : n.relations[r] = IF r = id THEN [type |-> Absent, labels |-> {}]
                                               ELSE o.relations[r]
    BY <1>1, <1>3 DEF Overlay
  <2>2. [type |-> Absent, labels |-> {}] # Unset
    BY OverlayAssumption DEF RelationRecord
  <2>3. QED
    BY <1>3, <2>1, <2>2, ViewFrame DEF Relation, Merge
<1>5. Counted(n.next)
  BY <1>1, <1>3 DEF Sound, Counted, NextIds
<1>6. Fresh(b, n)
  BY <1>1, <1>3 DEF Sound, Fresh, NextIds, Overlay, Relations
<1>7. Relation(b, o, id) = Absent
  BY <1>1 DEF Sound, Fresh, Relation, Merge, Relations
<1>8. Postings(b, n)
  <2>1. TypeScan(b, n) = TypeScan(b, o)
    BY <1>1, <1>4, <1>7, OverlayAssumption DEF TypeScan
  <2>2. QED
    BY <1>3, <1>4, <2>1, ScanFrame
       DEF Sound, Postings, LabelsExact, TypesExact, SlotsExact, ElementsExact, RelationsExact
<1>9. Owned(b, n)
  <2>1. [type |-> Absent, labels |-> {}] # Absent
    BY OverlayAssumption DEF RelationRecord
  <2>2. \A s \in Subjects : Visible(b, o, s) => Visible(b, n, s)
    BY <1>4, <2>1, SubjectFacts DEF Visible
  <2>3. QED
    BY <1>4, <2>2 DEF Sound, Owned
<1>10. QED
  BY <1>1, <1>3, <1>4, <1>5, <1>6, <1>8, <1>9 DEF Sound, n, c

\* n is o with one more incidence.
WithIncidence(b, o, n, id, r, e, role) ==
  /\ Sound(b, n)
  /\ id \in Incidences
  /\ n.next = [o.next EXCEPT !.incidence = id + 1]
  /\ \A x \in Incidences :
       Incidence(b, n, x) = IF x = id THEN [relation |-> r, element |-> e, role |-> role]
                            ELSE Incidence(b, o, x)
  /\ \A x \in Elements : Element(b, n, x) = Element(b, o, x)
  /\ \A x \in Relations : Relation(b, n, x) = Relation(b, o, x)
  /\ \A s \in Subjects, k \in Keys : Property(b, n, s, k) = Property(b, o, s, k)

\* Creating an incidence under the watermark keeps an overlay sound.
LEMMA CreateIncidenceSound ==
  ASSUME NEW b \in Base, NEW o, Sound(b, o), o.next.incidence <= MaxIncidence,
         NEW r \in Relations, NEW e \in Elements, NEW role \in Roles
  PROVE  LET id == o.next.incidence
             n == [create_incidence(o, id, r, e, role) EXCEPT !.next.incidence = id + 1]
         IN  WithIncidence(b, o, n, id, r, e, role)
<1> DEFINE id == o.next.incidence
           record == [relation |-> r, element |-> e, role |-> role]
           c == create_incidence(o, id, r, e, role)
           n == [c EXCEPT !.next.incidence = id + 1]
<1>1. o \in Overlay /\ o.next \in NextIds /\ id \in Nat /\ id >= 1 /\ id \in Incidences
  BY OverlayAssumption DEF Sound, Counted, Overlay, NextIds, Incidences
<1>2. /\ c \in Overlay
      /\ c.incidences = [o.incidences EXCEPT ![id] = record]
      /\ c.element_incidence = Put(o.element_incidence, e, id)
      /\ c.relation_incidence = Put(o.relation_incidence, r, id)
      /\ c.elements = o.elements /\ c.relations = o.relations
      /\ c.properties = o.properties /\ c.next = o.next
      /\ c.label = o.label /\ c.relation_type = o.relation_type
      /\ c.equality = o.equality
  BY <1>1, CreateIncidenceFields
<1> HIDE DEF c
<1>3. /\ n \in Overlay
      /\ n.incidences = [o.incidences EXCEPT ![id] = record]
      /\ n.next = [o.next EXCEPT !.incidence = id + 1]
      /\ n.element_incidence = Put(o.element_incidence, e, id)
      /\ n.relation_incidence = Put(o.relation_incidence, r, id)
      /\ n.elements = o.elements /\ n.relations = o.relations
      /\ n.properties = o.properties
      /\ n.label = o.label /\ n.relation_type = o.relation_type
      /\ n.equality = o.equality
  BY <1>1, <1>2 DEF Overlay, NextIds
<1> HIDE DEF n
<1>4. record \in IncidenceRecord /\ record # Unset /\ record # Absent
  BY OverlayAssumption DEF IncidenceRecord
<1>5. /\ record.relation = r /\ record.element = e
      /\ \A x \in Incidences : Incidence(b, n, x) = IF x = id THEN record ELSE Incidence(b, o, x)
      /\ \A x \in Elements : Element(b, n, x) = Element(b, o, x)
      /\ \A x \in Relations : Relation(b, n, x) = Relation(b, o, x)
      /\ \A s \in Subjects, k \in Keys : Property(b, n, s, k) = Property(b, o, s, k)
  <2>1. \A x \in Incidences : n.incidences[x] = IF x = id THEN record ELSE o.incidences[x]
    BY <1>1, <1>3 DEF Overlay
  <2> HIDE DEF record
  <2>2. \A x \in Incidences : Incidence(b, n, x) = IF x = id THEN record ELSE Incidence(b, o, x)
    BY <2>1, <1>4 DEF Incidence, Merge
  <2>3. QED
    BY <1>3, <2>2, ViewFrame DEF record
<1> HIDE DEF record
<1>6. Counted(n.next)
  BY <1>1, <1>3 DEF Sound, Counted, NextIds
<1>7. Fresh(b, n)
  BY <1>1, <1>3 DEF Sound, Fresh, NextIds, Overlay, Incidences
<1>8. Incidence(b, o, id) = Absent
  BY <1>1 DEF Sound, Fresh, Incidence, Merge, Incidences
<1>9. Postings(b, n)
  <2>1. /\ o.element_incidence \in Posting(Elements, Incidences)
        /\ o.relation_incidence \in Posting(Relations, Incidences)
    BY <1>1 DEF Overlay
  <2>2. /\ \A x \in Elements :
             ElementScan(b, n)[x] = ElementScan(b, o)[x] \cup (IF x = e THEN {id} ELSE {})
        /\ DOMAIN ElementScan(b, n) = Elements /\ DOMAIN ElementScan(b, o) = Elements
    BY <1>1, <1>4, <1>5, <1>8 DEF ElementScan
  <2>3. /\ \A x \in Relations :
             RelationScan(b, n)[x] = RelationScan(b, o)[x] \cup (IF x = r THEN {id} ELSE {})
        /\ DOMAIN RelationScan(b, n) = Relations /\ DOMAIN RelationScan(b, o) = Relations
    BY <1>1, <1>4, <1>5, <1>8 DEF RelationScan
  <2>4. Exact(Put(o.element_incidence, e, id), ElementBase(b), ElementScan(b, n))
    BY <1>1, <2>1, <2>2, PutExact DEF Sound, Postings, ElementsExact
  <2>5. Exact(Put(o.relation_incidence, r, id), RelationBase(b), RelationScan(b, n))
    BY <1>1, <2>1, <2>3, PutExact DEF Sound, Postings, RelationsExact
  <2>6. QED
    BY <1>3, <1>5, <2>4, <2>5, ScanFrame
       DEF Sound, Postings, LabelsExact, TypesExact, SlotsExact, ElementsExact, RelationsExact
<1>10. Owned(b, n)
  <2>1. \A s \in Subjects : Visible(b, o, s) => Visible(b, n, s)
    BY <1>4, <1>5, SubjectFacts DEF Visible
  <2>2. QED
    BY <1>5, <2>1 DEF Sound, Owned
<1>11. QED
  BY <1>1, <1>3, <1>5, <1>6, <1>7, <1>9, <1>10 DEF WithIncidence, Sound, n, c, record

\* A tombstoned subject shows no property and is in no slot: what the base holds for
\* it is masked, what it does not hold needs no mask.
LEMMA MaskedProperties ==
  ASSUME NEW b \in Base, NEW o \in Overlay, NEW n \in Overlay, NEW s \in Subjects,
         n.properties = [o.properties EXCEPT ![s] = tombstone_subject_properties(b, s)],
         n.equality = Withdraw(o.equality, SlotsOf(b, o, s), s),
         SlotsExact(b, o)
  PROVE  /\ \A t \in Subjects, k \in Keys :
              Property(b, n, t, k) = IF t = s THEN Absent ELSE Property(b, o, t, k)
         /\ SlotsExact(b, n)
<1>1. \A t \in Subjects, k \in Keys :
        n.properties[t][k] = IF t = s THEN IF b.properties[s][k] = Absent THEN Unset ELSE Absent
                             ELSE o.properties[t][k]
  BY DEF Overlay, tombstone_subject_properties
<1>2. \A t \in Subjects, k \in Keys :
        Property(b, n, t, k) = IF t = s THEN Absent ELSE Property(b, o, t, k)
  BY <1>1, OverlayAssumption DEF Property, Merge
<1>3. /\ DOMAIN SlotScan(b, n) = Slots /\ DOMAIN SlotScan(b, o) = Slots
      /\ \A slot \in Slots :
           SlotScan(b, n)[slot]
             = SlotScan(b, o)[slot] \ (IF slot \in SlotsOf(b, o, s) THEN {s} ELSE {})
  <2>1. ASSUME NEW slot \in Slots
        PROVE  SlotScan(b, n)[slot]
                 = SlotScan(b, o)[slot] \ (IF slot \in SlotsOf(b, o, s) THEN {s} ELSE {})
    <3>1. slot[1] \in Keys /\ slot[2] \in Values /\ slot[2] # Absent
      BY OverlayAssumption DEF Slots
    <3>2. /\ SlotScan(b, n)[slot] = {t \in Subjects : Property(b, n, t, slot[1]) = slot[2]}
          /\ SlotScan(b, o)[slot] = {t \in Subjects : Property(b, o, t, slot[1]) = slot[2]}
          /\ slot \in SlotsOf(b, o, s) <=> Property(b, o, s, slot[1]) = slot[2]
      BY DEF SlotScan, SlotsOf
    <3>3. QED
      BY <1>2, <3>1, <3>2
  <2>2. QED
    BY <2>1 DEF SlotScan
<1>4. o.equality \in Posting(Slots, Subjects)
  BY DEF Overlay
<1>5. QED
  BY <1>2, <1>3, <1>4, WithdrawExact DEF SlotsExact

\* Tombstoning a visible element keeps an overlay sound.
LEMMA TombstoneElementSound ==
  ASSUME NEW b \in Base, NEW o, Sound(b, o), NEW e \in Elements, Element(b, o, e) # Absent
  PROVE  LET n == tombstone_element(b, o, e)
         IN  /\ Sound(b, n)
             /\ n.next = o.next
             /\ \A y \in Elements : Element(b, n, y) = IF y = e THEN Absent ELSE Element(b, o, y)
             /\ \A y \in Relations : Relation(b, n, y) = Relation(b, o, y)
             /\ \A y \in Incidences : Incidence(b, n, y) = Incidence(b, o, y)
             /\ \A t \in Subjects, k \in Keys :
                  Property(b, n, t, k) = IF t = ElementSubject(e) THEN Absent ELSE Property(b, o, t, k)
<1> DEFINE n == tombstone_element(b, o, e)
           s == ElementSubject(e)
<1>1. o \in Overlay /\ s \in Subjects
  BY SubjectFacts DEF Sound
<1>2. /\ n \in Overlay
      /\ n.elements = [o.elements EXCEPT ![e] = Absent]
      /\ n.properties = [o.properties EXCEPT ![s] = tombstone_subject_properties(b, s)]
      /\ n.equality = Withdraw(o.equality, SlotsOf(b, o, s), s)
      /\ n.label = Withdraw(o.label, (IF Element(b, o, e) = Absent THEN {} ELSE Element(b, o, e).labels), e)
      /\ n.relations = o.relations /\ n.incidences = o.incidences
      /\ n.relation_type = o.relation_type /\ n.element_incidence = o.element_incidence
      /\ n.relation_incidence = o.relation_incidence /\ n.next = o.next
  BY <1>1, TombstoneElementFields
<1> HIDE DEF n, s
<1>3. /\ \A y \in Elements : Element(b, n, y) = IF y = e THEN Absent ELSE Element(b, o, y)
      /\ \A y \in Relations : Relation(b, n, y) = Relation(b, o, y)
      /\ \A y \in Incidences : Incidence(b, n, y) = Incidence(b, o, y)
  <2>1. \A y \in Elements : n.elements[y] = IF y = e THEN Absent ELSE o.elements[y]
    BY <1>1, <1>2 DEF Overlay
  <2>2. QED
    BY <1>2, <2>1, ViewFrame, OverlayAssumption DEF Element, Merge
<1>4. /\ \A t \in Subjects, k \in Keys :
           Property(b, n, t, k) = IF t = s THEN Absent ELSE Property(b, o, t, k)
      /\ SlotsExact(b, n)
  BY <1>1, <1>2, MaskedProperties DEF Sound, Postings
<1>5. Counted(n.next) /\ Fresh(b, n)
  <2>1. ~(e >= o.next.element)
    BY OverlayAssumption DEF Sound, Fresh, Element, Merge
  <2>2. QED
    BY <1>1, <1>2, <2>1 DEF Sound, Fresh, Overlay
<1>6. Postings(b, n)
  <2>1. /\ DOMAIN LabelScan(b, n) = Labels /\ DOMAIN LabelScan(b, o) = Labels
        /\ \A y \in Labels :
             LabelScan(b, n)[y]
               = LabelScan(b, o)[y] \ (IF y \in (IF Element(b, o, e) = Absent THEN {} ELSE Element(b, o, e).labels) THEN {e} ELSE {})
    BY <1>3, ViewType, <1>1 DEF LabelScan
  <2>2. LabelsExact(b, n)
    <3>1. o.label \in Posting(Labels, Elements)
      BY <1>1 DEF Overlay
    <3>2. QED
      BY <1>2, <2>1, <3>1, WithdrawExact DEF Sound, Postings, LabelsExact
  <2>3. QED
    BY <1>2, <1>3, <1>4, <2>2, ScanFrame
       DEF Sound, Postings, LabelsExact, TypesExact, ElementsExact, RelationsExact
<1>7. Owned(b, n)
  <2>1. \A t \in Subjects : t # s /\ Visible(b, o, t) => Visible(b, n, t)
    BY <1>3, SubjectFacts DEF Visible, s
  <2>2. QED
    BY <1>4, <2>1 DEF Sound, Owned
<1>8. QED
  BY <1>2, <1>3, <1>4, <1>5, <1>6, <1>7 DEF Sound, n, s

\* Tombstoning a visible relation keeps an overlay sound.
LEMMA TombstoneRelationSound ==
  ASSUME NEW b \in Base, NEW o, Sound(b, o), NEW r \in Relations, Relation(b, o, r) # Absent
  PROVE  LET n == tombstone_relation(b, o, r)
         IN  /\ Sound(b, n)
             /\ n.next = o.next
             /\ \A y \in Relations : Relation(b, n, y) = IF y = r THEN Absent ELSE Relation(b, o, y)
             /\ \A y \in Elements : Element(b, n, y) = Element(b, o, y)
             /\ \A y \in Incidences : Incidence(b, n, y) = Incidence(b, o, y)
             /\ \A t \in Subjects, k \in Keys :
                  Property(b, n, t, k) = IF t = RelationSubject(r) THEN Absent ELSE Property(b, o, t, k)
<1> DEFINE n == tombstone_relation(b, o, r)
           s == RelationSubject(r)
<1>1. o \in Overlay /\ s \in Subjects
  BY SubjectFacts DEF Sound
<1>2. /\ n \in Overlay
      /\ n.relations = [o.relations EXCEPT ![r] = Absent]
      /\ n.properties = [o.properties EXCEPT ![s] = tombstone_subject_properties(b, s)]
      /\ n.equality = Withdraw(o.equality, SlotsOf(b, o, s), s)
      /\ n.relation_type = Withdraw(o.relation_type, (IF Relation(b, o, r) = Absent THEN {} ELSE {Relation(b, o, r).type}), r)
      /\ n.elements = o.elements /\ n.incidences = o.incidences
      /\ n.label = o.label /\ n.element_incidence = o.element_incidence
      /\ n.relation_incidence = o.relation_incidence /\ n.next = o.next
  BY <1>1, TombstoneRelationFields
<1> HIDE DEF n, s
<1>3. /\ \A y \in Relations : Relation(b, n, y) = IF y = r THEN Absent ELSE Relation(b, o, y)
      /\ \A y \in Elements : Element(b, n, y) = Element(b, o, y)
      /\ \A y \in Incidences : Incidence(b, n, y) = Incidence(b, o, y)
  <2>1. \A y \in Relations : n.relations[y] = IF y = r THEN Absent ELSE o.relations[y]
    BY <1>1, <1>2 DEF Overlay
  <2>2. QED
    BY <1>2, <2>1, ViewFrame, OverlayAssumption DEF Relation, Merge
<1>4. /\ \A t \in Subjects, k \in Keys :
           Property(b, n, t, k) = IF t = s THEN Absent ELSE Property(b, o, t, k)
      /\ SlotsExact(b, n)
  BY <1>1, <1>2, MaskedProperties DEF Sound, Postings
<1>5. Counted(n.next) /\ Fresh(b, n)
  <2>1. ~(r >= o.next.relation)
    BY OverlayAssumption DEF Sound, Fresh, Relation, Merge
  <2>2. QED
    BY <1>1, <1>2, <2>1 DEF Sound, Fresh, Overlay
<1>6. Postings(b, n)
  <2>1. /\ DOMAIN TypeScan(b, n) = Types /\ DOMAIN TypeScan(b, o) = Types
        /\ \A y \in Types :
             TypeScan(b, n)[y]
               = TypeScan(b, o)[y] \ (IF y \in (IF Relation(b, o, r) = Absent THEN {} ELSE {Relation(b, o, r).type}) THEN {r} ELSE {})
    BY <1>3, ViewType, <1>1 DEF TypeScan
  <2>2. TypesExact(b, n)
    <3>1. o.relation_type \in Posting(Types, Relations)
      BY <1>1 DEF Overlay
    <3>2. QED
      BY <1>2, <2>1, <3>1, WithdrawExact DEF Sound, Postings, TypesExact
  <2>3. QED
    BY <1>2, <1>3, <1>4, <2>2, ScanFrame
       DEF Sound, Postings, LabelsExact, TypesExact, ElementsExact, RelationsExact
<1>7. Owned(b, n)
  <2>1. \A t \in Subjects : t # s /\ Visible(b, o, t) => Visible(b, n, t)
    BY <1>3, SubjectFacts DEF Visible, s
  <2>2. QED
    BY <1>4, <2>1 DEF Sound, Owned
<1>8. QED
  BY <1>2, <1>3, <1>4, <1>5, <1>6, <1>7 DEF Sound, n, s

\* Tombstoning a visible incidence keeps an overlay sound.
LEMMA TombstoneIncidenceSound ==
  ASSUME NEW b \in Base, NEW o, Sound(b, o), NEW i \in Incidences, Incidence(b, o, i) # Absent
  PROVE  LET n == tombstone_incidence(b, o, i)
         IN  /\ Sound(b, n)
             /\ n.next = o.next
             /\ \A y \in Incidences : Incidence(b, n, y) = IF y = i THEN Absent ELSE Incidence(b, o, y)
             /\ \A y \in Elements : Element(b, n, y) = Element(b, o, y)
             /\ \A y \in Relations : Relation(b, n, y) = Relation(b, o, y)
             /\ \A t \in Subjects, k \in Keys :
                  Property(b, n, t, k) = IF t = IncidenceSubject(i) THEN Absent ELSE Property(b, o, t, k)
<1> DEFINE n == tombstone_incidence(b, o, i)
           s == IncidenceSubject(i)
<1>1. o \in Overlay /\ s \in Subjects
  BY SubjectFacts DEF Sound
<1>2. /\ n \in Overlay
      /\ n.incidences = [o.incidences EXCEPT ![i] = Absent]
      /\ n.properties = [o.properties EXCEPT ![s] = tombstone_subject_properties(b, s)]
      /\ n.equality = Withdraw(o.equality, SlotsOf(b, o, s), s)
      /\ n.element_incidence = Withdraw(o.element_incidence, {Incidence(b, o, i).element}, i)
      /\ n.relation_incidence = Withdraw(o.relation_incidence, {Incidence(b, o, i).relation}, i)
      /\ n.elements = o.elements /\ n.relations = o.relations
      /\ n.label = o.label /\ n.relation_type = o.relation_type
      /\ n.next = o.next
  BY <1>1, TombstoneIncidenceFields
<1> HIDE DEF n, s
<1>3. /\ \A y \in Incidences : Incidence(b, n, y) = IF y = i THEN Absent ELSE Incidence(b, o, y)
      /\ \A y \in Elements : Element(b, n, y) = Element(b, o, y)
      /\ \A y \in Relations : Relation(b, n, y) = Relation(b, o, y)
  <2>1. \A y \in Incidences : n.incidences[y] = IF y = i THEN Absent ELSE o.incidences[y]
    BY <1>1, <1>2 DEF Overlay
  <2>2. QED
    BY <1>2, <2>1, ViewFrame, OverlayAssumption DEF Incidence, Merge
<1>4. /\ \A t \in Subjects, k \in Keys :
           Property(b, n, t, k) = IF t = s THEN Absent ELSE Property(b, o, t, k)
      /\ SlotsExact(b, n)
  BY <1>1, <1>2, MaskedProperties DEF Sound, Postings
<1>5. Counted(n.next) /\ Fresh(b, n)
  <2>1. ~(i >= o.next.incidence)
    BY OverlayAssumption DEF Sound, Fresh, Incidence, Merge
  <2>2. QED
    BY <1>1, <1>2, <2>1 DEF Sound, Fresh, Overlay
<1>6. Postings(b, n)
  <2>1. /\ DOMAIN ElementScan(b, n) = Elements /\ DOMAIN ElementScan(b, o) = Elements
        /\ \A y \in Elements :
             ElementScan(b, n)[y]
               = ElementScan(b, o)[y] \ (IF y \in {Incidence(b, o, i).element} THEN {i} ELSE {})
    BY <1>3, ViewType, <1>1 DEF ElementScan
  <2>2. ElementsExact(b, n)
    <3>1. o.element_incidence \in Posting(Elements, Incidences)
      BY <1>1 DEF Overlay
    <3>2. QED
      BY <1>2, <2>1, <3>1, WithdrawExact DEF Sound, Postings, ElementsExact
  <2>3. /\ DOMAIN RelationScan(b, n) = Relations /\ DOMAIN RelationScan(b, o) = Relations
        /\ \A y \in Relations :
             RelationScan(b, n)[y]
               = RelationScan(b, o)[y] \ (IF y \in {Incidence(b, o, i).relation} THEN {i} ELSE {})
    BY <1>3, ViewType, <1>1 DEF RelationScan
  <2>4. RelationsExact(b, n)
    <3>1. o.relation_incidence \in Posting(Relations, Incidences)
      BY <1>1 DEF Overlay
    <3>2. QED
      BY <1>2, <2>3, <3>1, WithdrawExact DEF Sound, Postings, RelationsExact
  <2>5. QED
    BY <1>2, <1>3, <1>4, <2>2, <2>4, ScanFrame
       DEF Sound, Postings, LabelsExact, TypesExact, ElementsExact, RelationsExact
<1>7. Owned(b, n)
  <2>1. \A t \in Subjects : t # s /\ Visible(b, o, t) => Visible(b, n, t)
    BY <1>3, SubjectFacts DEF Visible, s
  <2>2. QED
    BY <1>4, <2>1 DEF Sound, Owned
<1>8. QED
  BY <1>2, <1>3, <1>4, <1>5, <1>6, <1>7 DEF Sound, n, s

\* Labelling a visible element keeps an overlay sound.
LEMMA AddElementLabelSound ==
  ASSUME NEW b \in Base, NEW o, Sound(b, o), NEW e \in Elements, NEW label \in Labels,
         Element(b, o, e) # Absent
  PROVE  LET n == add_element_label(b, o, e, label)
         IN  /\ Sound(b, n)
             /\ n.next = o.next
             /\ \A y \in Elements : Element(b, n, y) = Absent <=> Element(b, o, y) = Absent
             /\ \A y \in Relations : Relation(b, n, y) = Relation(b, o, y)
             /\ \A y \in Incidences : Incidence(b, n, y) = Incidence(b, o, y)
             /\ \A t \in Subjects, k \in Keys : Property(b, n, t, k) = Property(b, o, t, k)
<1> DEFINE n == add_element_label(b, o, e, label)
           record == [labels |-> Element(b, o, e).labels \cup {label}]
<1>1. o \in Overlay
  BY DEF Sound
<1>2. /\ n \in Overlay
      /\ n.elements = [o.elements EXCEPT ![e] = record]
      /\ n.label = Put(o.label, label, e)
      /\ n.relations = o.relations /\ n.incidences = o.incidences
      /\ n.properties = o.properties /\ n.next = o.next
      /\ n.relation_type = o.relation_type /\ n.equality = o.equality
      /\ n.element_incidence = o.element_incidence
      /\ n.relation_incidence = o.relation_incidence
  BY <1>1, AddElementLabelFields
<1>3. /\ record \in ElementRecord /\ record # Absent /\ record # Unset
      /\ record.labels = Element(b, o, e).labels \cup {label}
  BY <1>1, ViewType, OverlayAssumption DEF ElementRecord
<1> HIDE DEF n, record
<1>4. /\ \A y \in Elements : Element(b, n, y) = IF y = e THEN record ELSE Element(b, o, y)
      /\ \A y \in Relations : Relation(b, n, y) = Relation(b, o, y)
      /\ \A y \in Incidences : Incidence(b, n, y) = Incidence(b, o, y)
      /\ \A t \in Subjects, k \in Keys : Property(b, n, t, k) = Property(b, o, t, k)
  <2>1. \A y \in Elements : n.elements[y] = IF y = e THEN record ELSE o.elements[y]
    BY <1>1, <1>2 DEF Overlay
  <2>2. QED
    BY <1>2, <1>3, <2>1, ViewFrame DEF Element, Merge
<1>5. Counted(n.next) /\ Fresh(b, n)
  <2>1. ~(e >= o.next.element)
    BY DEF Sound, Fresh, Element, Merge
  <2>2. QED
    BY <1>1, <1>2, <2>1 DEF Sound, Fresh, Overlay
<1>6. Postings(b, n)
  <2>1. /\ DOMAIN LabelScan(b, n) = Labels /\ DOMAIN LabelScan(b, o) = Labels
        /\ \A y \in Labels :
             LabelScan(b, n)[y] = LabelScan(b, o)[y] \cup (IF y = label THEN {e} ELSE {})
    BY <1>3, <1>4 DEF LabelScan
  <2>2. LabelsExact(b, n)
    <3>1. o.label \in Posting(Labels, Elements)
      BY <1>1 DEF Overlay
    <3>2. QED
      BY <1>2, <2>1, <3>1, PutExact DEF Sound, Postings, LabelsExact
  <2>3. QED
    BY <1>2, <1>4, <2>2, ScanFrame
       DEF Sound, Postings, TypesExact, SlotsExact, ElementsExact, RelationsExact
<1>7. Owned(b, n)
  <2>1. \A t \in Subjects : Visible(b, o, t) => Visible(b, n, t)
    BY <1>3, <1>4, SubjectFacts DEF Visible
  <2>2. QED
    BY <1>4, <2>1 DEF Sound, Owned
<1>8. QED
  BY <1>2, <1>3, <1>4, <1>5, <1>6, <1>7 DEF Sound, n

\* Labelling a visible relation keeps an overlay sound.
LEMMA AddRelationLabelSound ==
  ASSUME NEW b \in Base, NEW o, Sound(b, o), NEW r \in Relations, NEW label \in Labels,
         Relation(b, o, r) # Absent
  PROVE  LET n == add_relation_label(b, o, r, label)
         IN  /\ Sound(b, n)
             /\ n.next = o.next
             /\ \A y \in Relations : Relation(b, n, y) = Absent <=> Relation(b, o, y) = Absent
             /\ \A y \in Elements : Element(b, n, y) = Element(b, o, y)
             /\ \A y \in Incidences : Incidence(b, n, y) = Incidence(b, o, y)
             /\ \A t \in Subjects, k \in Keys : Property(b, n, t, k) = Property(b, o, t, k)
<1> DEFINE n == add_relation_label(b, o, r, label)
           record == [Relation(b, o, r) EXCEPT !.labels = @ \cup {label}]
<1>1. o \in Overlay /\ Relation(b, o, r) \in RelationRecord
  BY ViewType DEF Sound
<1>2. /\ n \in Overlay
      /\ n.relations = [o.relations EXCEPT ![r] = record]
      /\ n.relation_type = o.relation_type
      /\ n.elements = o.elements /\ n.incidences = o.incidences
      /\ n.properties = o.properties /\ n.next = o.next
      /\ n.label = o.label /\ n.equality = o.equality
      /\ n.element_incidence = o.element_incidence
      /\ n.relation_incidence = o.relation_incidence
  BY <1>1, AddRelationLabelFields
<1>3. /\ record \in RelationRecord /\ record # Absent /\ record # Unset
      /\ record.type = Relation(b, o, r).type
  BY <1>1, OverlayAssumption DEF RelationRecord
<1> HIDE DEF n, record
<1>4. /\ \A y \in Relations : Relation(b, n, y) = IF y = r THEN record ELSE Relation(b, o, y)
      /\ \A y \in Elements : Element(b, n, y) = Element(b, o, y)
      /\ \A y \in Incidences : Incidence(b, n, y) = Incidence(b, o, y)
      /\ \A t \in Subjects, k \in Keys : Property(b, n, t, k) = Property(b, o, t, k)
  <2>1. \A y \in Relations : n.relations[y] = IF y = r THEN record ELSE o.relations[y]
    BY <1>1, <1>2 DEF Overlay
  <2>2. QED
    BY <1>2, <1>3, <2>1, ViewFrame DEF Relation, Merge
<1>5. Counted(n.next) /\ Fresh(b, n)
  <2>1. ~(r >= o.next.relation)
    BY DEF Sound, Fresh, Relation, Merge
  <2>2. QED
    BY <1>1, <1>2, <2>1 DEF Sound, Fresh, Overlay
<1>6. Postings(b, n)
  <2>1. TypeScan(b, n) = TypeScan(b, o)
    BY <1>3, <1>4 DEF TypeScan
  <2>2. TypesExact(b, n)
    BY <1>2, <2>1 DEF Sound, Postings, TypesExact
  <2>3. QED
    BY <1>2, <1>4, <2>2, ScanFrame
       DEF Sound, Postings, LabelsExact, SlotsExact, ElementsExact, RelationsExact
<1>7. Owned(b, n)
  <2>1. \A t \in Subjects : Visible(b, o, t) => Visible(b, n, t)
    BY <1>3, <1>4, SubjectFacts DEF Visible
  <2>2. QED
    BY <1>4, <2>1 DEF Sound, Owned
<1>8. QED
  BY <1>2, <1>3, <1>4, <1>5, <1>6, <1>7 DEF Sound, n

\* Typing a visible relation keeps an overlay sound: it moves between two postings.
LEMMA SetRelationTypeSound ==
  ASSUME NEW b \in Base, NEW o, Sound(b, o), NEW r \in Relations, NEW type \in Types,
         Relation(b, o, r) # Absent
  PROVE  LET n == set_relation_type(b, o, r, type)
         IN  /\ Sound(b, n)
             /\ n.next = o.next
             /\ \A y \in Relations : Relation(b, n, y) = Absent <=> Relation(b, o, y) = Absent
             /\ \A y \in Elements : Element(b, n, y) = Element(b, o, y)
             /\ \A y \in Incidences : Incidence(b, n, y) = Incidence(b, o, y)
             /\ \A t \in Subjects, k \in Keys : Property(b, n, t, k) = Property(b, o, t, k)
<1> DEFINE n == set_relation_type(b, o, r, type)
           record == [Relation(b, o, r) EXCEPT !.type = type]
<1>1. o \in Overlay /\ Relation(b, o, r) \in RelationRecord
  BY ViewType DEF Sound
<1>2. /\ n \in Overlay
      /\ n.relations = [o.relations EXCEPT ![r] = record]
      /\ n.relation_type = Put(Withdraw(o.relation_type, {Relation(b, o, r).type} \ {type}, r),
                              type, r)
      /\ n.elements = o.elements /\ n.incidences = o.incidences
      /\ n.properties = o.properties /\ n.next = o.next
      /\ n.label = o.label /\ n.equality = o.equality
      /\ n.element_incidence = o.element_incidence
      /\ n.relation_incidence = o.relation_incidence
  BY <1>1, SetRelationTypeFields
<1>3. /\ record \in RelationRecord /\ record # Absent /\ record # Unset
      /\ record.type = type
  BY <1>1, OverlayAssumption DEF RelationRecord
<1> HIDE DEF n, record
<1>4. /\ \A y \in Relations : Relation(b, n, y) = IF y = r THEN record ELSE Relation(b, o, y)
      /\ \A y \in Elements : Element(b, n, y) = Element(b, o, y)
      /\ \A y \in Incidences : Incidence(b, n, y) = Incidence(b, o, y)
      /\ \A t \in Subjects, k \in Keys : Property(b, n, t, k) = Property(b, o, t, k)
  <2>1. \A y \in Relations : n.relations[y] = IF y = r THEN record ELSE o.relations[y]
    BY <1>1, <1>2 DEF Overlay
  <2>2. QED
    BY <1>2, <1>3, <2>1, ViewFrame DEF Relation, Merge
<1>5. Counted(n.next) /\ Fresh(b, n)
  <2>1. ~(r >= o.next.relation)
    BY DEF Sound, Fresh, Relation, Merge
  <2>2. QED
    BY <1>1, <1>2, <2>1 DEF Sound, Fresh, Overlay
<1>6. Postings(b, n)
  <2> DEFINE old == {Relation(b, o, r).type} \ {type}
             middle == [y \in Types |-> TypeScan(b, o)[y] \ (IF y \in old THEN {r} ELSE {})]
  <2>1. /\ DOMAIN TypeScan(b, n) = Types /\ DOMAIN TypeScan(b, o) = Types
        /\ DOMAIN middle = Types
        /\ \A y \in Types : middle[y] = TypeScan(b, o)[y] \ (IF y \in old THEN {r} ELSE {})
        /\ \A y \in Types : TypeScan(b, n)[y] = middle[y] \cup (IF y = type THEN {r} ELSE {})
    BY <1>3, <1>4 DEF TypeScan
  <2> HIDE DEF old, middle
  <2>2. TypesExact(b, n)
    <3>1. o.relation_type \in Posting(Types, Relations)
      BY <1>1 DEF Overlay
    <3>2. /\ Withdraw(o.relation_type, old, r) \in Posting(Types, Relations)
          /\ Exact(Withdraw(o.relation_type, old, r), TypeBase(b), middle)
      BY <2>1, <3>1, WithdrawExact DEF Sound, Postings, TypesExact
    <3>3. Exact(Put(Withdraw(o.relation_type, old, r), type, r), TypeBase(b), TypeScan(b, n))
      BY <2>1, <3>2, PutExact
    <3>4. QED
      BY <1>2, <3>3 DEF TypesExact, old
  <2>3. QED
    BY <1>2, <1>4, <2>2, ScanFrame
       DEF Sound, Postings, LabelsExact, SlotsExact, ElementsExact, RelationsExact
<1>7. Owned(b, n)
  <2>1. \A t \in Subjects : Visible(b, o, t) => Visible(b, n, t)
    BY <1>3, <1>4, SubjectFacts DEF Visible
  <2>2. QED
    BY <1>4, <2>1 DEF Sound, Owned
<1>8. QED
  BY <1>2, <1>3, <1>4, <1>5, <1>6, <1>7 DEF Sound, n

\* Setting a property of a visible subject keeps an overlay sound: it moves between two slots.
LEMMA SetPropertySound ==
  ASSUME NEW b \in Base, NEW o, Sound(b, o), NEW s \in Subjects, NEW k \in Keys, NEW v \in Values,
         Visible(b, o, s), s \in FamilyOf(k)
  PROVE  LET n == set_property(b, o, s, k, v)
         IN  /\ Sound(b, n)
             /\ n.next = o.next
             /\ \A y \in Elements : Element(b, n, y) = Element(b, o, y)
             /\ \A y \in Relations : Relation(b, n, y) = Relation(b, o, y)
             /\ \A y \in Incidences : Incidence(b, n, y) = Incidence(b, o, y)
             /\ \A t \in Subjects, y \in Keys :
                  Property(b, n, t, y) = IF t = s /\ y = k THEN v ELSE Property(b, o, t, y)
<1> DEFINE n == set_property(b, o, s, k, v)
           old == {slot \in SlotsOf(b, o, s) : slot[1] = k}
<1>1. o \in Overlay
  BY DEF Sound
<1>2. /\ n \in Overlay
      /\ n.properties = [o.properties EXCEPT ![s] = [o.properties[s] EXCEPT ![k] = v]]
      /\ n.equality = Put(Withdraw(o.equality, old \ {<<k, v>>}, s), <<k, v>>, s)
      /\ n.elements = o.elements /\ n.relations = o.relations
      /\ n.incidences = o.incidences /\ n.next = o.next
      /\ n.label = o.label /\ n.relation_type = o.relation_type
      /\ n.element_incidence = o.element_incidence
      /\ n.relation_incidence = o.relation_incidence
  BY <1>1, SetPropertyFields
<1> HIDE DEF n
<1>3. /\ \A y \in Elements : Element(b, n, y) = Element(b, o, y)
      /\ \A y \in Relations : Relation(b, n, y) = Relation(b, o, y)
      /\ \A y \in Incidences : Incidence(b, n, y) = Incidence(b, o, y)
  BY <1>2, ViewFrame
<1>4. \A t \in Subjects, y \in Keys :
        Property(b, n, t, y) = IF t = s /\ y = k THEN v ELSE Property(b, o, t, y)
  <2>1. \A t \in Subjects, y \in Keys :
          n.properties[t][y] = IF t = s /\ y = k THEN v ELSE o.properties[t][y]
    BY <1>1, <1>2 DEF Overlay
  <2>2. v # Unset
    BY OverlayAssumption
  <2>3. QED
    BY <2>1, <2>2 DEF Property, Merge
<1>5. Counted(n.next) /\ Fresh(b, n)
  BY <1>2 DEF Sound, Fresh
<1>6. Postings(b, n)
  <2>1. \A slot \in Slots :
          /\ slot[1] \in Keys /\ slot[2] \in Values /\ slot[2] # Absent
          /\ slot = <<slot[1], slot[2]>>
          /\ SlotScan(b, n)[slot] = {t \in Subjects : Property(b, n, t, slot[1]) = slot[2]}
          /\ SlotScan(b, o)[slot] = {t \in Subjects : Property(b, o, t, slot[1]) = slot[2]}
          /\ slot \in old <=> slot[1] = k /\ Property(b, o, s, k) = slot[2]
    BY OverlayAssumption DEF Slots, SlotScan, SlotsOf
  <2>2. DOMAIN SlotScan(b, n) = Slots /\ DOMAIN SlotScan(b, o) = Slots
    BY DEF SlotScan
  <2>3. o.equality \in Posting(Slots, Subjects)
    BY <1>1 DEF Overlay
  <2> DEFINE gone == old \ {<<k, v>>}
             middle == [slot \in Slots |->
                          SlotScan(b, o)[slot] \ (IF slot \in gone THEN {s} ELSE {})]
  <2>4. /\ DOMAIN middle = Slots
        /\ \A slot \in Slots :
             middle[slot] = SlotScan(b, o)[slot] \ (IF slot \in gone THEN {s} ELSE {})
    OBVIOUS
  <2> HIDE DEF middle
  <2>5. \A slot \in Slots :
          SlotScan(b, n)[slot] = middle[slot] \cup (IF slot = <<k, v>> THEN {s} ELSE {})
    <3>1. ASSUME NEW slot \in Slots, slot = <<k, v>>
          PROVE  SlotScan(b, n)[slot] = middle[slot] \cup {s}
      BY <1>4, <2>1, <2>4, <3>1
    <3>2. ASSUME NEW slot \in Slots, slot # <<k, v>>
          PROVE  SlotScan(b, n)[slot] = middle[slot]
      <4>1. ~(slot[1] = k /\ slot[2] = v)
        BY <2>1, <3>2
      <4>2. slot \in gone <=> slot[1] = k /\ Property(b, o, s, k) = slot[2]
        BY <2>1, <3>2
      <4> HIDE DEF old, gone
      <4>3. \A t \in Subjects :
              Property(b, n, t, slot[1]) = slot[2]
                <=> Property(b, o, t, slot[1]) = slot[2] /\ ~(slot \in gone /\ t = s)
        BY <1>4, <2>1, <4>1, <4>2
      <4>4. /\ SlotScan(b, n)[slot] = {t \in Subjects : Property(b, n, t, slot[1]) = slot[2]}
            /\ middle[slot] = {t \in Subjects : Property(b, o, t, slot[1]) = slot[2]}
                                \ (IF slot \in gone THEN {s} ELSE {})
        BY <2>1, <2>4
      <4>5. QED
        BY <4>3, <4>4
    <3>3. QED
      BY <3>1, <3>2
  <2> HIDE DEF old, gone
  <2>6. <<k, v>> \in Slots
    BY DEF Slots
  <2>7. /\ Withdraw(o.equality, gone, s) \in Posting(Slots, Subjects)
        /\ Exact(Withdraw(o.equality, gone, s), SlotBase(b), middle)
    BY <2>2, <2>3, <2>4, WithdrawExact DEF Sound, Postings, SlotsExact
  <2>8. Exact(Put(Withdraw(o.equality, gone, s), <<k, v>>, s), SlotBase(b), SlotScan(b, n))
    BY <2>2, <2>4, <2>5, <2>6, <2>7, PutExact
  <2>9. SlotsExact(b, n)
    BY <1>2, <2>8 DEF SlotsExact, gone
  <2>10. QED
    BY <1>2, <1>3, <2>9, ScanFrame
       DEF Sound, Postings, LabelsExact, TypesExact, ElementsExact, RelationsExact
<1>7. Owned(b, n)
  <2>1. \A t \in Subjects : Visible(b, o, t) => Visible(b, n, t)
    BY <1>3, SubjectFacts DEF Visible
  <2>2. QED
    BY <1>4, <2>1 DEF Sound, Owned
<1>8. QED
  BY <1>2, <1>3, <1>4, <1>5, <1>6, <1>7 DEF Sound, n

\* Removing a property keeps an overlay sound.
LEMMA RemovePropertySound ==
  ASSUME NEW b \in Base, NEW o, Sound(b, o), NEW s \in Subjects, NEW k \in Keys
  PROVE  LET n == remove_property(b, o, s, k)
         IN  /\ Sound(b, n)
             /\ n.next = o.next
             /\ \A y \in Elements : Element(b, n, y) = Element(b, o, y)
             /\ \A y \in Relations : Relation(b, n, y) = Relation(b, o, y)
             /\ \A y \in Incidences : Incidence(b, n, y) = Incidence(b, o, y)
             /\ \A t \in Subjects, y \in Keys :
                  Property(b, n, t, y) = IF t = s /\ y = k THEN Absent ELSE Property(b, o, t, y)
<1> DEFINE n == remove_property(b, o, s, k)
           old == {slot \in SlotsOf(b, o, s) : slot[1] = k}
<1>1. o \in Overlay
  BY DEF Sound
<1>2. /\ n \in Overlay
      /\ n.properties = [o.properties EXCEPT ![s] = [o.properties[s] EXCEPT ![k] = Absent]]
      /\ n.equality = Withdraw(o.equality, old, s)
      /\ n.elements = o.elements /\ n.relations = o.relations
      /\ n.incidences = o.incidences /\ n.next = o.next
      /\ n.label = o.label /\ n.relation_type = o.relation_type
      /\ n.element_incidence = o.element_incidence
      /\ n.relation_incidence = o.relation_incidence
  BY <1>1, RemovePropertyFields
<1> HIDE DEF n
<1>3. /\ \A y \in Elements : Element(b, n, y) = Element(b, o, y)
      /\ \A y \in Relations : Relation(b, n, y) = Relation(b, o, y)
      /\ \A y \in Incidences : Incidence(b, n, y) = Incidence(b, o, y)
  BY <1>2, ViewFrame
<1>4. \A t \in Subjects, y \in Keys :
        Property(b, n, t, y) = IF t = s /\ y = k THEN Absent ELSE Property(b, o, t, y)
  <2>1. \A t \in Subjects, y \in Keys :
          n.properties[t][y] = IF t = s /\ y = k THEN Absent ELSE o.properties[t][y]
    BY <1>1, <1>2 DEF Overlay
  <2>2. Absent # Unset
    BY OverlayAssumption
  <2>3. QED
    BY <2>1, <2>2 DEF Property, Merge
<1>5. Counted(n.next) /\ Fresh(b, n)
  BY <1>2 DEF Sound, Fresh
<1>6. Postings(b, n)
  <2>1. \A slot \in Slots :
          /\ slot[1] \in Keys /\ slot[2] \in Values /\ slot[2] # Absent
          /\ slot = <<slot[1], slot[2]>>
          /\ SlotScan(b, n)[slot] = {t \in Subjects : Property(b, n, t, slot[1]) = slot[2]}
          /\ SlotScan(b, o)[slot] = {t \in Subjects : Property(b, o, t, slot[1]) = slot[2]}
          /\ slot \in old <=> slot[1] = k /\ Property(b, o, s, k) = slot[2]
    BY OverlayAssumption DEF Slots, SlotScan, SlotsOf
  <2>2. DOMAIN SlotScan(b, n) = Slots /\ DOMAIN SlotScan(b, o) = Slots
    BY DEF SlotScan
  <2>3. o.equality \in Posting(Slots, Subjects)
    BY <1>1 DEF Overlay
  <2>4. \A slot \in Slots :
          SlotScan(b, n)[slot] = SlotScan(b, o)[slot] \ (IF slot \in old THEN {s} ELSE {})
    BY <1>4, <2>1
  <2> HIDE DEF old
  <2>5. SlotsExact(b, n)
    BY <1>2, <2>2, <2>3, <2>4, WithdrawExact DEF Sound, Postings, SlotsExact
  <2>6. QED
    BY <1>2, <1>3, <2>5, ScanFrame
       DEF Sound, Postings, LabelsExact, TypesExact, ElementsExact, RelationsExact
<1>7. Owned(b, n)
  <2>1. \A t \in Subjects : Visible(b, o, t) => Visible(b, n, t)
    BY <1>3, SubjectFacts DEF Visible
  <2>2. QED
    BY <1>4, <2>1 DEF Sound, Owned
<1>8. QED
  BY <1>2, <1>3, <1>4, <1>5, <1>6, <1>7 DEF Sound, n

\* An overlay without deltas shows the base, postings included.
LEMMA EmptyOverlayView ==
  ASSUME NEW b \in Base, NEW next \in NextIds
  PROVE  LET n == EmptyOverlay(next)
         IN  /\ n \in Overlay
             /\ n.next = next
             /\ \A y \in Elements : Element(b, n, y) = b.elements[y]
             /\ \A y \in Relations : Relation(b, n, y) = b.relations[y]
             /\ \A y \in Incidences : Incidence(b, n, y) = b.incidences[y]
             /\ \A t \in Subjects, k \in Keys : Property(b, n, t, k) = b.properties[t][k]
             /\ Postings(b, n)
<1> DEFINE n == EmptyOverlay(next)
<1>1. /\ NoPosting(Labels) \in Posting(Labels, Elements)
      /\ NoPosting(Types) \in Posting(Types, Relations)
      /\ NoPosting(Slots) \in Posting(Slots, Subjects)
      /\ NoPosting(Elements) \in Posting(Elements, Incidences)
      /\ NoPosting(Relations) \in Posting(Relations, Incidences)
  BY NoPostingExact
<1>2. n \in Overlay
  BY <1>1 DEF EmptyOverlay, Overlay
<1>3. /\ \A y \in Elements : Element(b, n, y) = b.elements[y]
      /\ \A y \in Relations : Relation(b, n, y) = b.relations[y]
      /\ \A y \in Incidences : Incidence(b, n, y) = b.incidences[y]
      /\ \A t \in Subjects, k \in Keys : Property(b, n, t, k) = b.properties[t][k]
  BY DEF EmptyOverlay, Element, Relation, Incidence, Property, Merge
<1>4. /\ n.label = NoPosting(Labels) /\ n.relation_type = NoPosting(Types)
      /\ n.equality = NoPosting(Slots) /\ n.element_incidence = NoPosting(Elements)
      /\ n.relation_incidence = NoPosting(Relations) /\ n.next = next
  BY DEF EmptyOverlay
<1> HIDE DEF n
<1>5. /\ LabelScan(b, n) = LabelBase(b) /\ TypeScan(b, n) = TypeBase(b)
      /\ ElementScan(b, n) = ElementBase(b) /\ RelationScan(b, n) = RelationBase(b)
  BY <1>3 DEF LabelScan, LabelBase, TypeScan, TypeBase, ElementScan, ElementBase,
     RelationScan, RelationBase, label_posting, relation_type_posting,
     element_incidence_posting, relation_incidence_posting
<1>6. SlotScan(b, n) = SlotBase(b)
  BY <1>3 DEF SlotScan, SlotBase, equality_subjects, Slots
<1>7. /\ DOMAIN LabelBase(b) = Labels /\ DOMAIN TypeBase(b) = Types
      /\ DOMAIN SlotBase(b) = Slots /\ DOMAIN ElementBase(b) = Elements
      /\ DOMAIN RelationBase(b) = Relations
  BY DEF LabelBase, TypeBase, SlotBase, ElementBase, RelationBase
<1>8. Postings(b, n)
  BY <1>4, <1>5, <1>6, <1>7, NoPostingExact
     DEF Postings, LabelsExact, TypesExact, SlotsExact, ElementsExact, RelationsExact
<1>9. QED
  BY <1>2, <1>3, <1>4, <1>8 DEF n

\* A checkpoint shows what it froze, and a sound overlay freezes to a base over which
\* the empty overlay is sound.
LEMMA FreezeSound ==
  ASSUME NEW b \in Base, NEW o, Sound(b, o)
  PROVE  LET f == freeze_view(b, o)
             n == EmptyOverlay(o.next)
         IN  /\ f \in Base
             /\ f.next = o.next /\ n.next = o.next
             /\ Sound(f, n)
             /\ \A y \in Elements : Element(f, n, y) = Element(b, o, y)
             /\ \A y \in Relations : Relation(f, n, y) = Relation(b, o, y)
             /\ \A y \in Incidences : Incidence(f, n, y) = Incidence(b, o, y)
             /\ \A t \in Subjects, k \in Keys : Property(f, n, t, k) = Property(b, o, t, k)
<1> DEFINE f == freeze_view(b, o)
           n == EmptyOverlay(o.next)
<1>1. o \in Overlay /\ o.next \in NextIds
  BY DEF Sound, Overlay
<1>2. /\ f \in Base
      /\ f.next = o.next
      /\ \A y \in Elements : f.elements[y] = Element(b, o, y)
      /\ \A y \in Relations : f.relations[y] = Relation(b, o, y)
      /\ \A y \in Incidences : f.incidences[y] = Incidence(b, o, y)
      /\ \A t \in Subjects, k \in Keys : f.properties[t][k] = Property(b, o, t, k)
  BY <1>1, ViewType DEF freeze_view, Base
<1> HIDE DEF f
<1>3. /\ n \in Overlay /\ n.next = o.next /\ Postings(f, n)
      /\ \A y \in Elements : Element(f, n, y) = Element(b, o, y)
      /\ \A y \in Relations : Relation(f, n, y) = Relation(b, o, y)
      /\ \A y \in Incidences : Incidence(f, n, y) = Incidence(b, o, y)
      /\ \A t \in Subjects, k \in Keys : Property(f, n, t, k) = Property(b, o, t, k)
  BY <1>1, <1>2, EmptyOverlayView
<1>4. /\ \A y \in Elements : n.elements[y] = Unset
      /\ \A y \in Relations : n.relations[y] = Unset
      /\ \A y \in Incidences : n.incidences[y] = Unset
  BY DEF EmptyOverlay
<1> HIDE DEF n
<1>5. Fresh(f, n)
  BY <1>2, <1>3, <1>4 DEF Sound, Fresh, Element, Relation, Incidence, Merge
<1>6. Owned(f, n)
  <2>1. \A t \in Subjects : Visible(b, o, t) => Visible(f, n, t)
    BY <1>3, SubjectFacts DEF Visible
  <2>2. QED
    BY <1>3, <2>1 DEF Sound, Owned
<1>7. Counted(n.next)
  BY <1>3 DEF Sound
<1>8. QED
  BY <1>2, <1>3, <1>5, <1>6, <1>7 DEF Sound, f, n

-----------------------------------------------------------------------------
(* Replay: the mutators do not read the watermark *)

\* Two overlays alike but for their watermark.
Alike(o, p) ==
  /\ o.elements = p.elements /\ o.relations = p.relations
  /\ o.incidences = p.incidences /\ o.properties = p.properties
  /\ o.label = p.label /\ o.relation_type = p.relation_type
  /\ o.equality = p.equality
  /\ o.element_incidence = p.element_incidence
  /\ o.relation_incidence = p.relation_incidence

\* Overlays that are alike become equal with the watermark.
LEMMA AlikeEqual ==
  ASSUME NEW o \in Overlay, NEW p \in Overlay
  PROVE  /\ ([o EXCEPT !.next = p.next] = p) <=> Alike(o, p)
         /\ \A next \in NextIds :
              /\ [o EXCEPT !.next = next] \in Overlay
              /\ [o EXCEPT !.next = next].next = next
              /\ Alike([o EXCEPT !.next = next], o)
<1>1. ASSUME [o EXCEPT !.next = p.next] = p
      PROVE  Alike(o, p)
  <2>1. Alike([o EXCEPT !.next = p.next], o)
    BY DEF Alike, Overlay
  <2>2. QED
    BY <1>1, <2>1 DEF Alike
<1>2. ASSUME Alike(o, p)
      PROVE  [o EXCEPT !.next = p.next] = p
  BY <1>2 DEF Alike, Overlay
<1>3. ASSUME NEW next \in NextIds
      PROVE  /\ [o EXCEPT !.next = next] \in Overlay
             /\ [o EXCEPT !.next = next].next = next
             /\ Alike([o EXCEPT !.next = next], o)
  BY DEF Alike, Overlay
<1>4. QED
  BY <1>1, <1>2, <1>3

\* Applied to overlays that are alike, a mutator gives overlays that are alike.
LEMMA MutatorsAlike ==
  ASSUME NEW b \in Base, NEW o \in Overlay, NEW p \in Overlay, Alike(o, p)
  PROVE  /\ \A e \in Elements : Alike(create_element(o, e), create_element(p, e))
         /\ \A r \in Relations : Alike(create_relation(o, r), create_relation(p, r))
         /\ \A i \in Incidences, r \in Relations, e \in Elements, role \in Roles :
              Alike(create_incidence(o, i, r, e, role), create_incidence(p, i, r, e, role))
         /\ \A e \in Elements : Alike(tombstone_element(b, o, e), tombstone_element(b, p, e))
         /\ \A r \in Relations : Alike(tombstone_relation(b, o, r), tombstone_relation(b, p, r))
         /\ \A i \in Incidences : Incidence(b, p, i) # Absent =>
              Alike(tombstone_incidence(b, o, i), tombstone_incidence(b, p, i))
         /\ \A e \in Elements, label \in Labels : Element(b, p, e) # Absent =>
              Alike(add_element_label(b, o, e, label), add_element_label(b, p, e, label))
         /\ \A r \in Relations, label \in Labels : Relation(b, p, r) # Absent =>
              Alike(add_relation_label(b, o, r, label), add_relation_label(b, p, r, label))
         /\ \A r \in Relations, type \in Types : Relation(b, p, r) # Absent =>
              Alike(set_relation_type(b, o, r, type), set_relation_type(b, p, r, type))
         /\ \A s \in Subjects, k \in Keys, v \in Values :
              Alike(set_property(b, o, s, k, v), set_property(b, p, s, k, v))
         /\ \A s \in Subjects, k \in Keys :
              Alike(remove_property(b, o, s, k), remove_property(b, p, s, k))
<1>1. /\ \A e \in Elements : Element(b, o, e) = Element(b, p, e)
      /\ \A r \in Relations : Relation(b, o, r) = Relation(b, p, r)
      /\ \A i \in Incidences : Incidence(b, o, i) = Incidence(b, p, i)
      /\ \A s \in Subjects, k \in Keys : Property(b, o, s, k) = Property(b, p, s, k)
  BY ViewFrame DEF Alike
<1>2. \A s \in Subjects : SlotsOf(b, o, s) = SlotsOf(b, p, s)
  BY <1>1 DEF SlotsOf, Slots
<1>3. /\ \A e \in Elements : ElementSubject(e) \in Subjects
      /\ \A r \in Relations : RelationSubject(r) \in Subjects
      /\ \A i \in Incidences : IncidenceSubject(i) \in Subjects
  BY SubjectFacts
<1>4. ASSUME NEW e \in Elements
      PROVE  Alike(create_element(o, e), create_element(p, e))
  BY <1>1, <1>2, <1>3 DEF Alike, Overlay, create_element
<1>5. ASSUME NEW r \in Relations
      PROVE  Alike(create_relation(o, r), create_relation(p, r))
  BY <1>1, <1>2, <1>3 DEF Alike, Overlay, create_relation
<1>6. ASSUME NEW i \in Incidences, NEW r \in Relations, NEW e \in Elements, NEW role \in Roles
      PROVE  Alike(create_incidence(o, i, r, e, role), create_incidence(p, i, r, e, role))
  BY <1>1, <1>2, <1>3 DEF Alike, Overlay, create_incidence
<1>7. ASSUME NEW e \in Elements
      PROVE  Alike(tombstone_element(b, o, e), tombstone_element(b, p, e))
  BY <1>1, <1>2, <1>3 DEF Alike, Overlay, tombstone_element
<1>8. ASSUME NEW r \in Relations
      PROVE  Alike(tombstone_relation(b, o, r), tombstone_relation(b, p, r))
  BY <1>1, <1>2, <1>3 DEF Alike, Overlay, tombstone_relation
<1>9. ASSUME NEW i \in Incidences, Incidence(b, p, i) # Absent
      PROVE  Alike(tombstone_incidence(b, o, i), tombstone_incidence(b, p, i))
  BY ZenonT(60), <1>1, <1>2, <1>3, <1>9 DEF Alike, Overlay, tombstone_incidence
<1>10. ASSUME NEW e \in Elements, NEW label \in Labels, Element(b, p, e) # Absent
      PROVE  Alike(add_element_label(b, o, e, label), add_element_label(b, p, e, label))
  BY <1>1, <1>2, <1>3, <1>10 DEF Alike, Overlay, add_element_label
<1>11. ASSUME NEW r \in Relations, NEW label \in Labels, Relation(b, p, r) # Absent
      PROVE  Alike(add_relation_label(b, o, r, label), add_relation_label(b, p, r, label))
  BY <1>1, <1>2, <1>3, <1>11 DEF Alike, Overlay, add_relation_label
<1>12. ASSUME NEW r \in Relations, NEW type \in Types, Relation(b, p, r) # Absent
      PROVE  Alike(set_relation_type(b, o, r, type), set_relation_type(b, p, r, type))
  BY <1>1, <1>2, <1>3, <1>12 DEF Alike, Overlay, set_relation_type
<1>13. ASSUME NEW s \in Subjects, NEW k \in Keys, NEW v \in Values
      PROVE  Alike(set_property(b, o, s, k, v), set_property(b, p, s, k, v))
  BY <1>1, <1>2, <1>3 DEF Alike, Overlay, set_property
<1>14. ASSUME NEW s \in Subjects, NEW k \in Keys
      PROVE  Alike(remove_property(b, o, s, k), remove_property(b, p, s, k))
  BY <1>1, <1>2, <1>3 DEF Alike, Overlay, remove_property
<1>15. QED
  BY <1>4, <1>5, <1>6, <1>7, <1>8, <1>9, <1>10, <1>11, <1>12, <1>13, <1>14

-----------------------------------------------------------------------------
(* The inductive invariant *)

\* The header watermark of the base is at or below the overlay's.
Above(next, below) ==
  /\ below.element <= next.element
  /\ below.relation <= next.relation
  /\ below.incidence <= next.incidence

\* Two subjects never share an identity value.
Unique(b, o) ==
  \A k \in IdentityKeys, s, t \in Subjects :
    Property(b, o, s, k) # Absent /\ Property(b, o, s, k) = Property(b, o, t, k) => s = t

\* What holds of an overlay after every single operation.
Whole(b, o) == Sound(b, o) /\ Above(o.next, b.next) /\ Unique(b, o)

\* Every visible incidence outside `loose' has both its ends.
AttachedBut(b, o, loose) ==
  \A i \in Incidences \ loose :
    Incidence(b, o, i) # Absent =>
      /\ Relation(b, o, Incidence(b, o, i).relation) # Absent
      /\ Element(b, o, Incidence(b, o, i).element) # Absent

\* The cascade has still to tombstone every incidence that lost an end, and only
\* incidences that are there.
CascadeCovers ==
  /\ AttachedBut(base, delta, cuts)
  /\ \A i \in cuts : Incidence(base, delta, i) # Absent

\* A running retain lists visible elements or relations, never an incidence.
StaleVisible == \A s \in stale : Visible(base, delta, s) /\ s[1] # "incidence"

\* The identity a running upsert has still to set: one call, and no subject of that
\* family holds the value.
IsSet(j) == j \in 1..Len(calls) /\ calls[j].call = "set"
PendingIdentity ==
  /\ \A j \in 1..Len(calls) : IsSet(j) =>
       /\ calls[j].key \in IdentityKeys
       /\ \A t \in Subjects :
            t[1] = calls[j].subject[1] => Property(base, delta, t, calls[j].key) # calls[j].value
  /\ \A i, j \in 1..Len(calls) : IsSet(i) /\ IsSet(j) => i = j

\* One loop runs at a time, inside a transaction; without one the writer's overlay is
\* the published one.
Modes ==
  /\ ~writing => Idle /\ delta = current
  /\ calls # <<>> => cuts = {} /\ stale = {}
  /\ writing => commits < MaxCommits

IInv ==
  /\ TypeOK
  /\ Whole(base, current)
  /\ Whole(base, delta)
  /\ Attached(base, current)
  /\ replayed = current
  /\ Alike(replaying, delta)
  /\ CascadeCovers
  /\ StaleVisible
  /\ PendingIdentity
  /\ Modes

-----------------------------------------------------------------------------
(* The overlay calls keep the writer's overlay whole and its log replayable *)

\* The writer's overlay and the replay of its log.
Staged(o, r) == Whole(base, o) /\ r \in Overlay /\ Alike(r, o)

\* The families of keys and the subjects they name do not overlap.
LEMMA KeyFacts ==
  /\ IdentityKeys \subseteq Keys
  /\ \A k \in IdentityKeys, s \in Subjects : s \in FamilyOf(k) => s[1] # "incidence"
  /\ \A k \in Keys, s, t \in Subjects :
       s \in FamilyOf(k) /\ t \in FamilyOf(k) => s[1] = t[1]
BY WriterAssumption, FamilyAssumption DEF FamilyOf, Keys


\* Creating an element stages one operation and touches no property.
LEMMA CreateElementKeeps ==
  ASSUME base \in Base, Staged(delta, replaying), ops \in Nat,
         CreateElement
  PROVE  /\ Staged(delta', replaying') /\ ops' \in Nat
         /\ delta.next.element \in Elements
         /\ \A loose : AttachedBut(base, delta, loose) => AttachedBut(base, delta', loose)
         /\ \A s \in Subjects, k \in Keys : Property(base, delta', s, k) = Property(base, delta, s, k)
<1> DEFINE id == delta.next.element
           n == [create_element(delta, id) EXCEPT !.next.element = id + 1]
<1>1. /\ Sound(base, delta) /\ delta \in Overlay /\ delta.next \in NextIds
      /\ id <= MaxElement /\ delta' = n /\ ops' \in Nat
      /\ replaying \in Overlay /\ Alike(replaying, delta)
  BY DEF CreateElement, NextId, Staged, Whole, Sound, Overlay, Log
<1>2. /\ Sound(base, n)
      /\ id \in Elements
      /\ n.next = [delta.next EXCEPT !.element = id + 1]
      /\ \A e \in Elements : Element(base, n, e) = IF e = id THEN [labels |-> {}]
                                                   ELSE Element(base, delta, e)
      /\ \A y \in Relations : Relation(base, n, y) = Relation(base, delta, y)
      /\ \A y \in Incidences : Incidence(base, n, y) = Incidence(base, delta, y)
      /\ \A s \in Subjects, k \in Keys : Property(base, n, s, k) = Property(base, delta, s, k)
  BY <1>1, CreateElementSound
<1>3. /\ replaying' = create_element(replaying, id)
      /\ Alike(create_element(replaying, id), create_element(delta, id))
      /\ create_element(replaying, id) \in Overlay /\ create_element(delta, id) \in Overlay
  BY <1>1, <1>2, MutatorsAlike, CreateElementFields DEF CreateElement, Log, apply_replay_op
<1>4. Alike(create_element(delta, id), n)
  BY <1>3 DEF Alike, Overlay
<1> HIDE DEF n
<1>5. Alike(replaying', delta') /\ replaying' \in Overlay
  BY <1>1, <1>3, <1>4 DEF Alike
<1>6. Above(n.next, base.next)
  BY <1>1, <1>2 DEF Staged, Whole, Above, NextIds, Base
<1>7. Unique(base, n)
  BY <1>2, KeyFacts DEF Staged, Whole, Unique
<1>8. ASSUME NEW loose, AttachedBut(base, delta, loose)
      PROVE  AttachedBut(base, n, loose)
  <2>1. [labels |-> {}] # Absent
    BY OverlayAssumption DEF ElementRecord
  <2>2. \A x \in Incidences : Incidence(base, delta, x) # Absent =>
          Incidence(base, delta, x).relation \in Relations /\ Incidence(base, delta, x).element \in Elements
    BY <1>1, ViewType DEF IncidenceRecord
  <2>3. QED
    BY <1>2, <1>8, <2>1, <2>2 DEF AttachedBut
<1>9. QED
  BY <1>1, <1>2, <1>5, <1>6, <1>7, <1>8 DEF Staged, Whole

\* Creating a relation stages one operation and touches no property.
LEMMA CreateRelationKeeps ==
  ASSUME base \in Base, Staged(delta, replaying), ops \in Nat,
         CreateRelation
  PROVE  /\ Staged(delta', replaying') /\ ops' \in Nat
         /\ delta.next.relation \in Relations
         /\ \A loose : AttachedBut(base, delta, loose) => AttachedBut(base, delta', loose)
         /\ \A s \in Subjects, k \in Keys : Property(base, delta', s, k) = Property(base, delta, s, k)
<1> DEFINE id == delta.next.relation
           n == [create_relation(delta, id) EXCEPT !.next.relation = id + 1]
<1>1. /\ Sound(base, delta) /\ delta \in Overlay /\ delta.next \in NextIds
      /\ id <= MaxRelation /\ delta' = n /\ ops' \in Nat
      /\ replaying \in Overlay /\ Alike(replaying, delta)
  BY DEF CreateRelation, NextId, Staged, Whole, Sound, Overlay, Log
<1>2. /\ Sound(base, n)
      /\ id \in Relations
      /\ n.next = [delta.next EXCEPT !.relation = id + 1]
      /\ \A r \in Relations : Relation(base, n, r) = IF r = id THEN [type |-> Absent, labels |-> {}]
                                                    ELSE Relation(base, delta, r)
      /\ \A y \in Elements : Element(base, n, y) = Element(base, delta, y)
      /\ \A y \in Incidences : Incidence(base, n, y) = Incidence(base, delta, y)
      /\ \A s \in Subjects, k \in Keys : Property(base, n, s, k) = Property(base, delta, s, k)
  BY <1>1, CreateRelationSound
<1>3. /\ replaying' = create_relation(replaying, id)
      /\ Alike(create_relation(replaying, id), create_relation(delta, id))
      /\ create_relation(replaying, id) \in Overlay /\ create_relation(delta, id) \in Overlay
  BY <1>1, <1>2, MutatorsAlike, CreateRelationFields DEF CreateRelation, Log, apply_replay_op
<1>4. Alike(create_relation(delta, id), n)
  BY <1>3 DEF Alike, Overlay
<1> HIDE DEF n
<1>5. Alike(replaying', delta') /\ replaying' \in Overlay
  BY <1>1, <1>3, <1>4 DEF Alike
<1>6. Above(n.next, base.next)
  BY <1>1, <1>2 DEF Staged, Whole, Above, NextIds, Base
<1>7. Unique(base, n)
  BY <1>2, KeyFacts DEF Staged, Whole, Unique
<1>8. ASSUME NEW loose, AttachedBut(base, delta, loose)
      PROVE  AttachedBut(base, n, loose)
  <2>1. [type |-> Absent, labels |-> {}] # Absent
    BY OverlayAssumption DEF RelationRecord
  <2>2. \A x \in Incidences : Incidence(base, delta, x) # Absent =>
          Incidence(base, delta, x).relation \in Relations /\ Incidence(base, delta, x).element \in Elements
    BY <1>1, ViewType DEF IncidenceRecord
  <2>3. QED
    BY <1>2, <1>8, <2>1, <2>2 DEF AttachedBut
<1>9. QED
  BY <1>1, <1>2, <1>5, <1>6, <1>7, <1>8 DEF Staged, Whole

\* Creating an incidence stages one operation and touches no property.
LEMMA CreateIncidenceKeeps ==
  ASSUME base \in Base, Staged(delta, replaying), ops \in Nat,
         NEW r \in Relations, NEW e \in Elements, NEW role \in Roles,
         CreateIncidence(r, e, role)
  PROVE  /\ Staged(delta', replaying') /\ ops' \in Nat
         /\ delta.next.incidence \in Incidences
         /\ \A loose : AttachedBut(base, delta, loose) => AttachedBut(base, delta', loose)
         /\ \A s \in Subjects, k \in Keys : Property(base, delta', s, k) = Property(base, delta, s, k)
<1> DEFINE id == delta.next.incidence
           n == [create_incidence(delta, id, r, e, role) EXCEPT !.next.incidence = id + 1]
<1>1. /\ Sound(base, delta) /\ delta \in Overlay /\ delta.next \in NextIds
      /\ id <= MaxIncidence /\ delta' = n /\ ops' \in Nat
      /\ replaying \in Overlay /\ Alike(replaying, delta)
  BY DEF CreateIncidence, NextId, Staged, Whole, Sound, Overlay, Log
<1>2. WithIncidence(base, delta, n, id, r, e, role)
  BY <1>1, CreateIncidenceSound
<1>3. /\ replaying' = create_incidence(replaying, id, r, e, role)
      /\ Alike(create_incidence(replaying, id, r, e, role), create_incidence(delta, id, r, e, role))
      /\ create_incidence(replaying, id, r, e, role) \in Overlay
      /\ create_incidence(delta, id, r, e, role) \in Overlay
  BY <1>1, <1>2, MutatorsAlike, CreateIncidenceFields
     DEF CreateIncidence, Log, apply_replay_op, WithIncidence
<1>4. Alike(create_incidence(delta, id, r, e, role), n)
  BY <1>3 DEF Alike, Overlay
<1> HIDE DEF n
<1>5. Alike(replaying', delta') /\ replaying' \in Overlay
  BY <1>1, <1>3, <1>4 DEF Alike
<1>6. Above(n.next, base.next)
  BY <1>1, <1>2 DEF Staged, Whole, Above, NextIds, Base, WithIncidence
<1>7. Unique(base, n)
  BY <1>2, KeyFacts DEF Staged, Whole, Unique, WithIncidence
<1>8. ASSUME NEW loose, AttachedBut(base, delta, loose)
      PROVE  AttachedBut(base, n, loose)
  <2> DEFINE record == [relation |-> r, element |-> e, role |-> role]
  <2>1. record.relation = r /\ record.element = e
    OBVIOUS
  <2>2. Relation(base, delta, r) # Absent /\ Element(base, delta, e) # Absent
    BY DEF CreateIncidence
  <2>3. \A x \in Incidences : Incidence(base, delta, x) # Absent =>
          Incidence(base, delta, x).relation \in Relations /\ Incidence(base, delta, x).element \in Elements
    BY <1>1, ViewType DEF IncidenceRecord
  <2>4. \A x \in Incidences : Incidence(base, n, x) = IF x = id THEN record ELSE Incidence(base, delta, x)
    BY <1>2 DEF WithIncidence
  <2> HIDE DEF record
  <2>5. QED
    BY <1>2, <1>8, <2>1, <2>2, <2>3, <2>4 DEF AttachedBut, WithIncidence
<1>9. QED
  BY <1>1, <1>2, <1>5, <1>6, <1>7, <1>8 DEF Staged, Whole, WithIncidence

\* Ends stay attached when incidences do not change and what is visible stays visible.
LEMMA AttachedFrame ==
  ASSUME NEW b \in Base, NEW o \in Overlay, NEW n,
         \A i \in Incidences : Incidence(b, n, i) = Incidence(b, o, i),
         \A r \in Relations : Relation(b, o, r) # Absent => Relation(b, n, r) # Absent,
         \A e \in Elements : Element(b, o, e) # Absent => Element(b, n, e) # Absent,
         NEW loose, AttachedBut(b, o, loose)
  PROVE  AttachedBut(b, n, loose)
<1>1. \A i \in Incidences : Incidence(b, o, i) # Absent =>
        Incidence(b, o, i).relation \in Relations /\ Incidence(b, o, i).element \in Elements
  BY ViewType DEF IncidenceRecord
<1>2. QED
  BY <1>1 DEF AttachedBut

\* Labelling an element stages one operation.
LEMMA AddElementLabelKeeps ==
  ASSUME base \in Base, Staged(delta, replaying), ops \in Nat,
         NEW e \in Elements, NEW label \in Labels, AddElementLabel(e, label)
  PROVE  /\ Staged(delta', replaying') /\ ops' \in Nat
         /\ \A loose : AttachedBut(base, delta, loose) => AttachedBut(base, delta', loose)
         /\ \A s \in Subjects, k \in Keys : Property(base, delta', s, k) = Property(base, delta, s, k)
<1> DEFINE n == add_element_label(base, delta, e, label)
<1>1. /\ Sound(base, delta) /\ delta \in Overlay
      /\ Element(base, delta, e) # Absent /\ delta' = n /\ ops' \in Nat
      /\ replaying \in Overlay /\ Alike(replaying, delta)
  BY DEF AddElementLabel, Staged, Whole, Sound, Log
<1>2. /\ Sound(base, n)
      /\ n.next = delta.next
      /\ \A y \in Elements : Element(base, n, y) = Absent <=> Element(base, delta, y) = Absent
      /\ \A y \in Relations : Relation(base, n, y) = Relation(base, delta, y)
      /\ \A i \in Incidences : Incidence(base, n, i) = Incidence(base, delta, i)
      /\ \A s \in Subjects, k \in Keys : Property(base, n, s, k) = Property(base, delta, s, k)
  BY <1>1, AddElementLabelSound
<1>3. /\ replaying' = add_element_label(base, replaying, e, label)
      /\ Alike(add_element_label(base, replaying, e, label), n)
  BY <1>1, MutatorsAlike DEF AddElementLabel, Log, apply_replay_op
<1>4. add_element_label(base, replaying, e, label) \in Overlay
  <2>1. Element(base, replaying, e) # Absent
    BY <1>1, ViewFrame DEF Alike
  <2>2. QED
    BY <1>1, <2>1, AddElementLabelFields
<1> HIDE DEF n
<1>5. Unique(base, n) /\ Above(n.next, base.next)
  BY <1>2, KeyFacts DEF Staged, Whole, Unique
<1>6. \A loose : AttachedBut(base, delta, loose) => AttachedBut(base, n, loose)
  BY <1>1, <1>2, AttachedFrame
<1>7. QED
  BY <1>1, <1>2, <1>3, <1>4, <1>5, <1>6 DEF Staged, Whole

\* Labelling a relation stages one operation.
LEMMA AddRelationLabelKeeps ==
  ASSUME base \in Base, Staged(delta, replaying), ops \in Nat,
         NEW r \in Relations, NEW label \in Labels, AddRelationLabel(r, label)
  PROVE  /\ Staged(delta', replaying') /\ ops' \in Nat
         /\ \A loose : AttachedBut(base, delta, loose) => AttachedBut(base, delta', loose)
         /\ \A s \in Subjects, k \in Keys : Property(base, delta', s, k) = Property(base, delta, s, k)
<1> DEFINE n == add_relation_label(base, delta, r, label)
<1>1. /\ Sound(base, delta) /\ delta \in Overlay
      /\ Relation(base, delta, r) # Absent /\ delta' = n /\ ops' \in Nat
      /\ replaying \in Overlay /\ Alike(replaying, delta)
  BY DEF AddRelationLabel, Staged, Whole, Sound, Log
<1>2. /\ Sound(base, n)
      /\ n.next = delta.next
      /\ \A y \in Relations : Relation(base, n, y) = Absent <=> Relation(base, delta, y) = Absent
      /\ \A y \in Elements : Element(base, n, y) = Element(base, delta, y)
      /\ \A i \in Incidences : Incidence(base, n, i) = Incidence(base, delta, i)
      /\ \A s \in Subjects, k \in Keys : Property(base, n, s, k) = Property(base, delta, s, k)
  BY <1>1, AddRelationLabelSound
<1>3. /\ replaying' = add_relation_label(base, replaying, r, label)
      /\ Alike(add_relation_label(base, replaying, r, label), n)
  BY <1>1, MutatorsAlike DEF AddRelationLabel, Log, apply_replay_op
<1>4. add_relation_label(base, replaying, r, label) \in Overlay
  <2>1. Relation(base, replaying, r) # Absent
    BY <1>1, ViewFrame DEF Alike
  <2>2. QED
    BY <1>1, <2>1, AddRelationLabelFields
<1> HIDE DEF n
<1>5. Unique(base, n) /\ Above(n.next, base.next)
  BY <1>2, KeyFacts DEF Staged, Whole, Unique
<1>6. \A loose : AttachedBut(base, delta, loose) => AttachedBut(base, n, loose)
  BY <1>1, <1>2, AttachedFrame
<1>7. QED
  BY <1>1, <1>2, <1>3, <1>4, <1>5, <1>6 DEF Staged, Whole

\* Typing a relation stages one operation.
LEMMA SetRelationTypeKeeps ==
  ASSUME base \in Base, Staged(delta, replaying), ops \in Nat,
         NEW r \in Relations, NEW type \in Types, SetRelationType(r, type)
  PROVE  /\ Staged(delta', replaying') /\ ops' \in Nat
         /\ \A loose : AttachedBut(base, delta, loose) => AttachedBut(base, delta', loose)
         /\ \A s \in Subjects, k \in Keys : Property(base, delta', s, k) = Property(base, delta, s, k)
<1> DEFINE n == set_relation_type(base, delta, r, type)
<1>1. /\ Sound(base, delta) /\ delta \in Overlay
      /\ Relation(base, delta, r) # Absent /\ delta' = n /\ ops' \in Nat
      /\ replaying \in Overlay /\ Alike(replaying, delta)
  BY DEF SetRelationType, Staged, Whole, Sound, Log
<1>2. /\ Sound(base, n)
      /\ n.next = delta.next
      /\ \A y \in Relations : Relation(base, n, y) = Absent <=> Relation(base, delta, y) = Absent
      /\ \A y \in Elements : Element(base, n, y) = Element(base, delta, y)
      /\ \A i \in Incidences : Incidence(base, n, i) = Incidence(base, delta, i)
      /\ \A s \in Subjects, k \in Keys : Property(base, n, s, k) = Property(base, delta, s, k)
  BY <1>1, SetRelationTypeSound
<1>3. /\ replaying' = set_relation_type(base, replaying, r, type)
      /\ Alike(set_relation_type(base, replaying, r, type), n)
  BY <1>1, MutatorsAlike DEF SetRelationType, Log, apply_replay_op
<1>4. set_relation_type(base, replaying, r, type) \in Overlay
  <2>1. Relation(base, replaying, r) # Absent
    BY <1>1, ViewFrame DEF Alike
  <2>2. QED
    BY <1>1, <2>1, SetRelationTypeFields
<1> HIDE DEF n
<1>5. Unique(base, n) /\ Above(n.next, base.next)
  BY <1>2, KeyFacts DEF Staged, Whole, Unique
<1>6. \A loose : AttachedBut(base, delta, loose) => AttachedBut(base, n, loose)
  BY <1>1, <1>2, AttachedFrame
<1>7. QED
  BY <1>1, <1>2, <1>3, <1>4, <1>5, <1>6 DEF Staged, Whole

\* Removing a property that is not an identity stages one operation.
LEMMA RemovePropertyKeeps ==
  ASSUME base \in Base, Staged(delta, replaying), ops \in Nat,
         NEW s \in Subjects, NEW k \in Keys, RemoveProperty(s, k)
  PROVE  /\ Staged(delta', replaying') /\ ops' \in Nat
         /\ \A loose : AttachedBut(base, delta, loose) => AttachedBut(base, delta', loose)
<1> DEFINE n == remove_property(base, delta, s, k)
<1>1. /\ Sound(base, delta) /\ delta \in Overlay
      /\ delta' = n /\ ops' \in Nat
      /\ replaying \in Overlay /\ Alike(replaying, delta)
  BY DEF RemoveProperty, Staged, Whole, Sound, Log
<1>2. /\ Sound(base, n)
      /\ n.next = delta.next
      /\ \A y \in Elements : Element(base, n, y) = Element(base, delta, y)
      /\ \A y \in Relations : Relation(base, n, y) = Relation(base, delta, y)
      /\ \A y \in Incidences : Incidence(base, n, y) = Incidence(base, delta, y)
      /\ \A t \in Subjects, y \in Keys :
           Property(base, n, t, y) = IF t = s /\ y = k THEN Absent ELSE Property(base, delta, t, y)
  BY <1>1, RemovePropertySound
<1>3. /\ replaying' = remove_property(base, replaying, s, k)
      /\ Alike(remove_property(base, replaying, s, k), n)
      /\ remove_property(base, replaying, s, k) \in Overlay
  BY <1>1, MutatorsAlike, RemovePropertyFields DEF RemoveProperty, Log, apply_replay_op
<1> HIDE DEF n
<1>4. Above(n.next, base.next)
  BY <1>2 DEF Staged, Whole
<1>5. Unique(base, n)
  BY <1>2, KeyFacts DEF Staged, Whole, Unique
<1>6. \A loose : AttachedBut(base, delta, loose) => AttachedBut(base, n, loose)
  BY <1>1, <1>2, AttachedFrame
<1>7. QED
  BY <1>1, <1>2, <1>3, <1>4, <1>5, <1>6 DEF Staged, Whole

\* Setting a property stages at most one operation; an identity stays unique when no
\* subject of the family holds the value.
LEMMA SetPropertyKeeps ==
  ASSUME base \in Base, Staged(delta, replaying), ops \in Nat,
         NEW s \in Subjects, NEW k \in Keys, NEW v \in Values, SetProperty(s, k, v),
         k \in IdentityKeys =>
           \A t \in Subjects : t[1] = s[1] => Property(base, delta, t, k) # v
  PROVE  /\ Staged(delta', replaying') /\ ops' \in Nat
         /\ \A loose : AttachedBut(base, delta, loose) => AttachedBut(base, delta', loose)
<1> DEFINE n == set_property(base, delta, s, k, v)
<1>1. CASE Property(base, delta, s, k) = v
  BY <1>1 DEF SetProperty
<1>2. CASE Property(base, delta, s, k) # v
  <2>1. /\ Sound(base, delta) /\ delta \in Overlay
        /\ delta' = n /\ ops' \in Nat /\ Visible(base, delta, s) /\ s \in FamilyOf(k)
        /\ replaying \in Overlay /\ Alike(replaying, delta)
    BY <1>2 DEF SetProperty, Staged, Whole, Sound, Log
  <2>2. /\ Sound(base, n)
        /\ n.next = delta.next
        /\ \A y \in Elements : Element(base, n, y) = Element(base, delta, y)
        /\ \A y \in Relations : Relation(base, n, y) = Relation(base, delta, y)
        /\ \A y \in Incidences : Incidence(base, n, y) = Incidence(base, delta, y)
        /\ \A t \in Subjects, y \in Keys :
             Property(base, n, t, y) = IF t = s /\ y = k THEN v ELSE Property(base, delta, t, y)
    BY <2>1, SetPropertySound
  <2>3. /\ replaying' = set_property(base, replaying, s, k, v)
        /\ Alike(set_property(base, replaying, s, k, v), n)
        /\ set_property(base, replaying, s, k, v) \in Overlay
    BY <1>2, <2>1, MutatorsAlike, SetPropertyFields DEF SetProperty, Log, apply_replay_op
  <2> HIDE DEF n
  <2>4. Above(n.next, base.next)
    BY <2>2 DEF Staged, Whole
  <2>5. Unique(base, n)
    <3>1. ASSUME k \in IdentityKeys, NEW t \in Subjects, t # s
          PROVE  Property(base, delta, t, k) # v
      <4>1. Property(base, delta, t, k) # Absent => t[1] = s[1]
        BY <2>1, <3>1, KeyFacts DEF Sound, Owned
      <4>2. v # Absent
        BY OverlayAssumption
      <4>3. QED
        BY <3>1, <4>1, <4>2
    <3>2. QED
      BY <2>2, <3>1, KeyFacts DEF Staged, Whole, Unique
  <2>6. \A loose : AttachedBut(base, delta, loose) => AttachedBut(base, n, loose)
    BY <2>1, <2>2, AttachedFrame
  <2>7. QED
    BY <2>1, <2>2, <2>3, <2>4, <2>5, <2>6 DEF Staged, Whole
<1>3. QED
  BY <1>1, <1>2

-----------------------------------------------------------------------------
(* The lookups, and the cascades that rely on them *)

\* Over a sound overlay every lookup answers what a scan of the records would.
LEMMA SoundIndexed ==
  ASSUME NEW b \in Base, NEW o, Sound(b, o)
  PROVE  Indexed(b, o)
<1>1. \A label \in Labels :
        elements_with_label(b, o, label)
          = {e \in Elements : Element(b, o, e) # Absent /\ label \in Element(b, o, e).labels}
  BY DEF Sound, Postings, LabelsExact, Exact, LabelBase, LabelScan, elements_with_label,
     merge_posting
<1>2. \A type \in Types :
        relations_with_type(b, o, type)
          = {r \in Relations : Relation(b, o, r) # Absent /\ Relation(b, o, r).type = type}
  BY DEF Sound, Postings, TypesExact, Exact, TypeBase, TypeScan, relations_with_type,
     merge_posting
<1>3. \A e \in Elements :
        element_incidences(b, o, e)
          = {i \in Incidences : Incidence(b, o, i) # Absent /\ Incidence(b, o, i).element = e}
  BY DEF Sound, Postings, ElementsExact, Exact, ElementBase, ElementScan, element_incidences,
     merge_posting
<1>4. \A r \in Relations :
        relation_incidences(b, o, r)
          = {i \in Incidences : Incidence(b, o, i) # Absent /\ Incidence(b, o, i).relation = r}
  BY DEF Sound, Postings, RelationsExact, Exact, RelationBase, RelationScan,
     relation_incidences, merge_posting
<1>5. ASSUME NEW k \in Keys, NEW v \in Values
      PROVE  /\ property_equal(b, o, k, v) = {s \in Subjects : Property(b, o, s, k) = v}
             /\ (equality_subjects(b, <<k, v>>) \ o.equality.removed[<<k, v>>])
                  \cup o.equality.added[<<k, v>>] = {s \in Subjects : Property(b, o, s, k) = v}
  <2>1. <<k, v>> \in Slots
    BY DEF Slots
  <2>2. /\ DOMAIN SlotScan(b, o) = Slots
        /\ SlotScan(b, o)[<<k, v>>] = {s \in Subjects : Property(b, o, s, k) = v}
        /\ SlotBase(b)[<<k, v>>] = equality_subjects(b, <<k, v>>)
    BY <2>1 DEF SlotScan, SlotBase
  <2>3. /\ o.equality.added[<<k, v>>] \cap o.equality.removed[<<k, v>>] = {}
        /\ (equality_subjects(b, <<k, v>>) \cup o.equality.added[<<k, v>>])
             \ o.equality.removed[<<k, v>>] = {s \in Subjects : Property(b, o, s, k) = v}
    BY <2>1, <2>2 DEF Sound, Postings, SlotsExact, Exact
  <2>4. QED
    BY <2>3 DEF property_equal, merge_posting
<1>6. ASSUME NEW k \in Keys, NEW min \in Values, NEW max \in Values
      PROVE  property_range(b, o, k, min, max)
               = {s \in Subjects : \E v \in Values :
                    Property(b, o, s, k) = v /\ min <= v /\ v <= max}
  <2> DEFINE at(v) == (equality_subjects(b, <<k, v>>) \ o.equality.removed[<<k, v>>])
                        \cup o.equality.added[<<k, v>>]
  <2>1. \A v \in Values : at(v) = {s \in Subjects : Property(b, o, s, k) = v}
    BY <1>5
  <2>2. property_range(b, o, k, min, max) = UNION {at(v) : v \in {w \in Values : min <= w /\ w <= max}}
    BY DEF property_range
  <2> HIDE DEF at
  <2>3. QED
    BY <2>1, <2>2
<1>7. ASSUME NEW k \in Keys
      PROVE  property_key_subjects(b, o, k)
               = {p \in Subjects \X Values : Property(b, o, p[1], k) = p[2]}
  BY <1>5 DEF property_key_subjects
<1>8. QED
  BY <1>1, <1>2, <1>3, <1>4, <1>5, <1>6, <1>7 DEF Indexed

\* The end of an incidence that shows is an id.
LEMMA EndsType ==
  ASSUME NEW b \in Base, NEW o \in Overlay, NEW i \in Incidences, Incidence(b, o, i) # Absent
  PROVE  Incidence(b, o, i).relation \in Relations /\ Incidence(b, o, i).element \in Elements
BY ViewType DEF IncidenceRecord

\* A tombstone leaves loose only what its cascade has listed, and hides no other subject.
LEMMA TombstoneKeeps ==
  ASSUME base \in Base, Staged(delta, replaying), ops \in Nat, AttachedBut(base, delta, {}),
         NEW s \in Subjects, Tombstone(s)
  PROVE  /\ Staged(delta', replaying') /\ ops' \in Nat
         /\ cuts' \subseteq Incidences
         /\ AttachedBut(base, delta', cuts')
         /\ \A i \in cuts' : Incidence(base, delta', i) # Absent
         /\ \A t \in Subjects : t # s /\ Visible(base, delta, t) => Visible(base, delta', t)
<1>1. /\ Sound(base, delta) /\ delta \in Overlay /\ ops' \in Nat
      /\ replaying \in Overlay /\ Alike(replaying, delta)
      /\ Visible(base, delta, s)
  BY DEF Tombstone, Staged, Whole, Sound, Log
<1>2. Indexed(base, delta)
  BY <1>1, SoundIndexed
<1>3. CASE s[1] = "element"
  <2> DEFINE n == tombstone_element(base, delta, s[2])
  <2>1. /\ s[2] \in Elements /\ s = ElementSubject(s[2]) /\ Element(base, delta, s[2]) # Absent
        /\ delta' = n
        /\ replaying' = tombstone_element(base, replaying, s[2])
        /\ cuts' = element_incidences(base, delta, s[2])
    BY <1>1, <1>3, SubjectFacts DEF Tombstone, Visible, Log, apply_replay_op
  <2>2. /\ Sound(base, n)
        /\ n.next = delta.next
        /\ \A y \in Elements : Element(base, n, y) = IF y = s[2] THEN Absent ELSE Element(base, delta, y)
        /\ \A y \in Relations : Relation(base, n, y) = Relation(base, delta, y)
        /\ \A y \in Incidences : Incidence(base, n, y) = Incidence(base, delta, y)
        /\ \A t \in Subjects, k \in Keys :
             Property(base, n, t, k) = IF t = ElementSubject(s[2]) THEN Absent
                                       ELSE Property(base, delta, t, k)
    BY <1>1, <2>1, TombstoneElementSound
  <2>3. Alike(tombstone_element(base, replaying, s[2]), n)
    BY <1>1, <2>1, MutatorsAlike
  <2>4. tombstone_element(base, replaying, s[2]) \in Overlay
    <3>1. Element(base, replaying, s[2]) # Absent
      BY <1>1, <2>1, ViewFrame DEF Alike
    <3>2. QED
      BY <1>1, <2>1, <3>1, TombstoneElementFields
  <2> HIDE DEF n
  <2>5. Unique(base, n) /\ Above(n.next, base.next)
    BY <2>2, KeyFacts DEF Staged, Whole, Unique
  <2>6. cuts' = {i \in Incidences : Incidence(base, delta, i) # Absent
                                   /\ Incidence(base, delta, i).element = s[2]}
    BY <1>2, <2>1 DEF Indexed
  <2>7. AttachedBut(base, n, cuts') /\ \A i \in cuts' : Incidence(base, n, i) # Absent
    BY <1>1, <2>2, <2>6, EndsType DEF AttachedBut
  <2>8. \A t \in Subjects : t # s /\ Visible(base, delta, t) => Visible(base, n, t)
    BY <2>1, <2>2, SubjectFacts DEF Visible
  <2>9. QED
    BY <1>1, <2>1, <2>2, <2>3, <2>4, <2>5, <2>6, <2>7, <2>8 DEF Staged, Whole
<1>4. CASE s[1] = "relation"
  <2> DEFINE n == tombstone_relation(base, delta, s[2])
  <2>1. /\ s[2] \in Relations /\ s = RelationSubject(s[2]) /\ Relation(base, delta, s[2]) # Absent
        /\ delta' = n
        /\ replaying' = tombstone_relation(base, replaying, s[2])
        /\ cuts' = relation_incidences(base, delta, s[2])
    BY <1>1, <1>4, SubjectFacts DEF Tombstone, Visible, Log, apply_replay_op
  <2>2. /\ Sound(base, n)
        /\ n.next = delta.next
        /\ \A y \in Relations : Relation(base, n, y) = IF y = s[2] THEN Absent ELSE Relation(base, delta, y)
        /\ \A y \in Elements : Element(base, n, y) = Element(base, delta, y)
        /\ \A y \in Incidences : Incidence(base, n, y) = Incidence(base, delta, y)
        /\ \A t \in Subjects, k \in Keys :
             Property(base, n, t, k) = IF t = RelationSubject(s[2]) THEN Absent
                                       ELSE Property(base, delta, t, k)
    BY <1>1, <2>1, TombstoneRelationSound
  <2>3. Alike(tombstone_relation(base, replaying, s[2]), n)
    BY <1>1, <2>1, MutatorsAlike
  <2>4. tombstone_relation(base, replaying, s[2]) \in Overlay
    <3>1. Relation(base, replaying, s[2]) # Absent
      BY <1>1, <2>1, ViewFrame DEF Alike
    <3>2. QED
      BY <1>1, <2>1, <3>1, TombstoneRelationFields
  <2> HIDE DEF n
  <2>5. Unique(base, n) /\ Above(n.next, base.next)
    BY <2>2, KeyFacts DEF Staged, Whole, Unique
  <2>6. cuts' = {i \in Incidences : Incidence(base, delta, i) # Absent
                                   /\ Incidence(base, delta, i).relation = s[2]}
    BY <1>2, <2>1 DEF Indexed
  <2>7. AttachedBut(base, n, cuts') /\ \A i \in cuts' : Incidence(base, n, i) # Absent
    BY <1>1, <2>2, <2>6, EndsType DEF AttachedBut
  <2>8. \A t \in Subjects : t # s /\ Visible(base, delta, t) => Visible(base, n, t)
    BY <2>1, <2>2, SubjectFacts DEF Visible
  <2>9. QED
    BY <1>1, <2>1, <2>2, <2>3, <2>4, <2>5, <2>6, <2>7, <2>8 DEF Staged, Whole
<1>5. CASE s[1] = "incidence"
  <2> DEFINE n == tombstone_incidence(base, delta, s[2])
  <2>1. /\ s[2] \in Incidences /\ s = IncidenceSubject(s[2]) /\ Incidence(base, delta, s[2]) # Absent
        /\ delta' = n
        /\ replaying' = tombstone_incidence(base, replaying, s[2])
        /\ cuts' = {}
    BY <1>1, <1>5, SubjectFacts DEF Tombstone, Visible, Log, apply_replay_op
  <2>2. /\ Sound(base, n)
        /\ n.next = delta.next
        /\ \A y \in Incidences : Incidence(base, n, y) = IF y = s[2] THEN Absent ELSE Incidence(base, delta, y)
        /\ \A y \in Elements : Element(base, n, y) = Element(base, delta, y)
        /\ \A y \in Relations : Relation(base, n, y) = Relation(base, delta, y)
        /\ \A t \in Subjects, k \in Keys :
             Property(base, n, t, k) = IF t = IncidenceSubject(s[2]) THEN Absent
                                       ELSE Property(base, delta, t, k)
    BY <1>1, <2>1, TombstoneIncidenceSound
  <2>3. Alike(tombstone_incidence(base, replaying, s[2]), n)
    BY <1>1, <2>1, MutatorsAlike
  <2>4. tombstone_incidence(base, replaying, s[2]) \in Overlay
    <3>1. Incidence(base, replaying, s[2]) # Absent
      BY <1>1, <2>1, ViewFrame DEF Alike
    <3>2. QED
      BY <1>1, <2>1, <3>1, TombstoneIncidenceFields
  <2> HIDE DEF n
  <2>5. Unique(base, n) /\ Above(n.next, base.next)
    BY <2>2, KeyFacts DEF Staged, Whole, Unique
  <2>6. cuts' = {}
    BY <2>1
  <2>7. AttachedBut(base, n, cuts') /\ \A i \in cuts' : Incidence(base, n, i) # Absent
    BY <1>1, <2>2, <2>6, EndsType DEF AttachedBut
  <2>8. \A t \in Subjects : t # s /\ Visible(base, delta, t) => Visible(base, n, t)
    BY <2>1, <2>2, SubjectFacts DEF Visible
  <2>9. QED
    BY <1>1, <2>1, <2>2, <2>3, <2>4, <2>5, <2>6, <2>7, <2>8 DEF Staged, Whole
<1>6. QED
  BY <1>3, <1>4, <1>5, SubjectFacts

\* One step of a cascade: the incidence goes, what is left to cut still covers the rest.
LEMMA CutKeeps ==
  ASSUME base \in Base, Staged(delta, replaying), ops \in Nat,
         NEW loose \in SUBSET Incidences, AttachedBut(base, delta, loose),
         \A j \in loose : Incidence(base, delta, j) # Absent,
         NEW i \in loose, delta' = tombstone_incidence(base, delta, i),
         Log([kind |-> "tombstone_incidence", id |-> i])
  PROVE  /\ Staged(delta', replaying') /\ ops' \in Nat
         /\ AttachedBut(base, delta', loose \ {i})
         /\ \A j \in loose \ {i} : Incidence(base, delta', j) # Absent
         /\ \A t \in Subjects : t[1] # "incidence" /\ Visible(base, delta, t)
              => Visible(base, delta', t)
<1> DEFINE n == tombstone_incidence(base, delta, i)
<1>1. /\ Sound(base, delta) /\ delta \in Overlay /\ ops' \in Nat
      /\ replaying \in Overlay /\ Alike(replaying, delta)
      /\ i \in Incidences /\ Incidence(base, delta, i) # Absent /\ delta' = n
      /\ replaying' = tombstone_incidence(base, replaying, i)
  BY DEF Staged, Whole, Sound, Log, apply_replay_op
<1>2. /\ Sound(base, n)
      /\ n.next = delta.next
      /\ \A y \in Incidences : Incidence(base, n, y) = IF y = i THEN Absent ELSE Incidence(base, delta, y)
      /\ \A y \in Elements : Element(base, n, y) = Element(base, delta, y)
      /\ \A y \in Relations : Relation(base, n, y) = Relation(base, delta, y)
      /\ \A t \in Subjects, k \in Keys :
           Property(base, n, t, k) = IF t = IncidenceSubject(i) THEN Absent
                                     ELSE Property(base, delta, t, k)
  BY <1>1, TombstoneIncidenceSound
<1>3. Alike(tombstone_incidence(base, replaying, i), n)
  BY <1>1, MutatorsAlike
<1>4. tombstone_incidence(base, replaying, i) \in Overlay
  <2>1. Incidence(base, replaying, i) # Absent
    BY <1>1, ViewFrame DEF Alike
  <2>2. QED
    BY <1>1, <2>1, TombstoneIncidenceFields
<1> HIDE DEF n
<1>5. Unique(base, n) /\ Above(n.next, base.next)
  BY <1>2, KeyFacts DEF Staged, Whole, Unique
<1>6. AttachedBut(base, n, loose \ {i}) /\ \A j \in loose \ {i} : Incidence(base, n, j) # Absent
  BY <1>1, <1>2, EndsType DEF AttachedBut
<1>7. \A t \in Subjects : t[1] # "incidence" /\ Visible(base, delta, t) => Visible(base, n, t)
  BY <1>2, SubjectFacts DEF Visible
<1>8. QED
  BY <1>1, <1>2, <1>3, <1>4, <1>5, <1>6, <1>7 DEF Staged, Whole

-----------------------------------------------------------------------------
(* The invariant is inductive *)

\* The empty store is whole.
LEMMA EmptyWhole ==
  /\ EmptyBase \in Base
  /\ EmptyOverlay(EmptyBase.next) \in Overlay
  /\ Whole(EmptyBase, EmptyOverlay(EmptyBase.next))
  /\ \A loose : AttachedBut(EmptyBase, EmptyOverlay(EmptyBase.next), loose)
<1> DEFINE b == EmptyBase
           n == EmptyOverlay(b.next)
<1>1. /\ b \in Base /\ b.next \in NextIds
      /\ Counted(b.next) /\ Above(b.next, b.next)
  BY DEF EmptyBase, Base, NextIds, Counted, Above
<1>2. /\ \A y \in Elements : b.elements[y] = Absent
      /\ \A y \in Relations : b.relations[y] = Absent
      /\ \A y \in Incidences : b.incidences[y] = Absent
      /\ \A t \in Subjects, k \in Keys : b.properties[t][k] = Absent
  BY DEF EmptyBase
<1>3. /\ \A y \in Elements : n.elements[y] = Unset
      /\ \A y \in Relations : n.relations[y] = Unset
      /\ \A y \in Incidences : n.incidences[y] = Unset
  BY DEF EmptyOverlay
<1> HIDE DEF b
<1>4. /\ n \in Overlay /\ n.next = b.next /\ Postings(b, n)
      /\ \A y \in Incidences : Incidence(b, n, y) = b.incidences[y]
      /\ \A t \in Subjects, k \in Keys : Property(b, n, t, k) = b.properties[t][k]
  BY <1>1, EmptyOverlayView
<1> HIDE DEF n
<1>5. Fresh(b, n) /\ Owned(b, n) /\ Unique(b, n) /\ \A loose : AttachedBut(b, n, loose)
  BY <1>2, <1>3, <1>4, KeyFacts DEF Fresh, Owned, Unique, AttachedBut
<1>6. QED
  BY <1>1, <1>4, <1>5 DEF Whole, Sound, b, n

\* The store starts in the invariant.
LEMMA InitIInv == Init => IInv
<1> SUFFICES ASSUME Init PROVE IInv
  OBVIOUS
<1>1. TypeOK
  <2>1. base \in Base /\ current \in Overlay /\ delta \in Overlay /\ replayed \in Overlay
          /\ replaying \in Overlay
    BY EmptyWhole DEF Init
  <2>2. /\ cuts \in SUBSET Incidences /\ stale \in SUBSET Subjects
        /\ calls \in Seq(UpsertCall) /\ writing \in BOOLEAN
    <3>1. Idle /\ writing = FALSE
      BY DEF Init
    <3>2. cuts \in SUBSET Incidences /\ stale \in SUBSET Subjects /\ calls \in Seq(UpsertCall)
      BY <3>1 DEF Idle
    <3>3. QED
      BY <3>1, <3>2
  <2>3. ops \in Nat /\ commits \in 0..MaxCommits /\ folds \in 0..MaxFolds
    BY WriterAssumption DEF Init
  <2>4. QED
    BY <2>1, <2>2, <2>3 DEF TypeOK
<1>2. Whole(base, current) /\ Whole(base, delta) /\ Attached(base, current)
  BY EmptyWhole DEF Init, Attached, AttachedBut
<1>3. replayed = current /\ Alike(replaying, delta)
  BY DEF Init, Alike
<1>4. CascadeCovers /\ StaleVisible
  BY EmptyWhole DEF Init, Idle, CascadeCovers, StaleVisible
<1>5. PendingIdentity /\ Modes
  BY DEF Init, Idle, PendingIdentity, Modes
<1>6. QED
  BY <1>1, <1>2, <1>3, <1>4, <1>5 DEF IInv

\* What a step of an open transaction has to establish.
LEMMA StagedStep ==
  ASSUME IInv, writing, UNCHANGED <<base, current, writing, replayed, counts>>,
         Staged(delta', replaying'), ops' \in Nat,
         cuts' \subseteq Incidences, stale' \subseteq Subjects, calls' \in Seq(UpsertCall),
         CascadeCovers', StaleVisible', PendingIdentity',
         calls' # <<>> => cuts' = {} /\ stale' = {}
  PROVE  IInv'
<1>1. TypeOK'
  BY DEF IInv, TypeOK, Staged, Whole, Sound, counts
<1>2. Whole(base, current)' /\ Attached(base, current)' /\ (replayed = current)'
  BY DEF IInv, Whole, Unique, Attached
<1>3. Whole(base, delta)' /\ Alike(replaying, delta)'
  BY DEF Staged, Whole, Unique
<1>4. Modes'
  BY DEF IInv, Modes, counts
<1>5. QED
  BY <1>1, <1>2, <1>3, <1>4 DEF IInv

\* What the invariant says to a call of an idle writer.
LEMMA ReadyFacts ==
  ASSUME IInv
  PROVE  /\ base \in Base /\ ops \in Nat /\ Staged(delta, replaying)
         /\ cuts = {} => AttachedBut(base, delta, {})
BY DEF IInv, TypeOK, Staged, CascadeCovers

\* No loop runs after the step, and the incidences are attached.
LEMMA IdleStep ==
  ASSUME base' = base, cuts' = {}, stale' = {}, calls' = <<>>,
         AttachedBut(base, delta', {})
  PROVE  CascadeCovers' /\ StaleVisible' /\ PendingIdentity' /\ calls' \in Seq(UpsertCall)
<1>1. CascadeCovers'
  BY DEF CascadeCovers, AttachedBut
<1>2. StaleVisible'
  BY DEF StaleVisible
<1>3. PendingIdentity' /\ calls' \in Seq(UpsertCall)
  BY DEF PendingIdentity
<1>4. QED
  BY <1>1, <1>2, <1>3

\* A method that is one overlay call keeps the invariant.
LEMMA CallStep == IInv /\ Call => IInv'
<1> SUFFICES ASSUME IInv, Call PROVE IInv'
  OBVIOUS
<1>1. /\ writing /\ cuts = {} /\ stale = {} /\ calls = <<>>
      /\ cuts' = {} /\ stale' = {} /\ calls' = <<>>
      /\ UNCHANGED <<base, current, writing, replayed, counts>>
  BY DEF Call, Ready, Idle, todo
<1>2. /\ base \in Base /\ ops \in Nat /\ Staged(delta, replaying)
      /\ AttachedBut(base, delta, {})
  BY <1>1, ReadyFacts
<1> DEFINE Kept == Staged(delta', replaying') /\ ops' \in Nat /\ AttachedBut(base, delta', {})
<1>3. ASSUME CreateElement
      PROVE  Kept
  BY <1>2, <1>3, CreateElementKeeps
<1>4. ASSUME CreateRelation
      PROVE  Kept
  BY <1>2, <1>4, CreateRelationKeeps
<1>5. ASSUME NEW r \in Relations, NEW e \in Elements, NEW role \in Roles,
             CreateIncidence(r, e, role)
      PROVE  Kept
  BY <1>2, <1>5, CreateIncidenceKeeps
<1>6. ASSUME NEW e \in Elements, NEW label \in Labels, AddElementLabel(e, label)
      PROVE  Kept
  BY <1>2, <1>6, AddElementLabelKeeps
<1>7. ASSUME NEW r \in Relations, NEW label \in Labels, AddRelationLabel(r, label)
      PROVE  Kept
  BY <1>2, <1>7, AddRelationLabelKeeps
<1>8. ASSUME NEW r \in Relations, NEW type \in Types, SetRelationType(r, type)
      PROVE  Kept
  BY <1>2, <1>8, SetRelationTypeKeeps
<1>9. ASSUME NEW k \in Keys \ IdentityKeys, NEW s \in Subjects, RemoveProperty(s, k)
      PROVE  Kept
  BY <1>2, <1>9, RemovePropertyKeeps
<1>10. ASSUME NEW k \in Keys \ IdentityKeys, NEW s \in Subjects, NEW v \in Values,
              SetProperty(s, k, v)
       PROVE  Kept
  BY <1>2, <1>10, SetPropertyKeeps
<1>11. Kept
  BY <1>3, <1>4, <1>5, <1>6, <1>7, <1>8, <1>9, <1>10 DEF Call
<1>12. QED
  BY <1>1, <1>11, IdleStep, StagedStep

\* A tombstone keeps the invariant: the cascade it starts covers what it loosened.
LEMMA TombstoneCallStep == IInv /\ TombstoneCall => IInv'
<1> SUFFICES ASSUME IInv, TombstoneCall PROVE IInv'
  OBVIOUS
<1>1. /\ writing /\ cuts = {} /\ stale' = {} /\ calls' = <<>>
      /\ UNCHANGED <<base, current, writing, replayed, counts>>
  BY DEF TombstoneCall, Ready, Idle
<1>2. /\ base \in Base /\ ops \in Nat /\ Staged(delta, replaying)
      /\ AttachedBut(base, delta, {})
  BY <1>1, ReadyFacts
<1>3. PICK s \in Subjects : Tombstone(s)
  BY DEF TombstoneCall
<1>4. /\ Staged(delta', replaying') /\ ops' \in Nat
      /\ cuts' \subseteq Incidences
      /\ AttachedBut(base, delta', cuts')
      /\ \A i \in cuts' : Incidence(base, delta', i) # Absent
  BY <1>2, <1>3, TombstoneKeeps
<1>5. CascadeCovers'
  BY <1>1, <1>4 DEF CascadeCovers, AttachedBut
<1>6. StaleVisible' /\ PendingIdentity' /\ calls' \in Seq(UpsertCall)
  BY <1>1 DEF StaleVisible, PendingIdentity
<1>7. QED
  BY <1>1, <1>4, <1>5, <1>6, StagedStep

\* A step of the cascade keeps the invariant.
LEMMA CascadeStep == IInv /\ Cascade => IInv'
<1> SUFFICES ASSUME IInv, Cascade PROVE IInv'
  OBVIOUS
<1>1. PICK i \in cuts : /\ delta' = tombstone_incidence(base, delta, i)
                        /\ Log([kind |-> "tombstone_incidence", id |-> i])
                        /\ cuts' = cuts \ {i}
  BY DEF Cascade
<1>2. /\ stale' = stale /\ calls' = calls /\ UNCHANGED <<base, current, writing, replayed, counts>>
  BY DEF Cascade
<1>3. /\ writing /\ calls = <<>>
      /\ cuts \in SUBSET Incidences /\ stale \in SUBSET Subjects /\ calls \in Seq(UpsertCall)
      /\ AttachedBut(base, delta, cuts)
      /\ \A j \in cuts : Incidence(base, delta, j) # Absent
      /\ StaleVisible
  BY <1>1 DEF IInv, Modes, Idle, TypeOK, CascadeCovers
<1>4. /\ Staged(delta', replaying') /\ ops' \in Nat
      /\ AttachedBut(base, delta', cuts \ {i})
      /\ \A j \in cuts \ {i} : Incidence(base, delta', j) # Absent
      /\ \A t \in Subjects : t[1] # "incidence" /\ Visible(base, delta, t)
           => Visible(base, delta', t)
  BY <1>1, <1>3, ReadyFacts, CutKeeps
<1>5. CascadeCovers'
  BY <1>1, <1>2, <1>4 DEF CascadeCovers, AttachedBut
<1>6. StaleVisible'
  BY <1>2, <1>3, <1>4 DEF StaleVisible, Visible
<1>7. PendingIdentity'
  BY <1>2, <1>3 DEF PendingIdentity
<1>8. QED
  BY <1>1, <1>2, <1>3, <1>4, <1>5, <1>6, <1>7, StagedStep

\* Starting a retain keeps the invariant: what it lists is visible.
LEMMA RetainStep == IInv /\ Retain => IInv'
<1> SUFFICES ASSUME IInv, Retain PROVE IInv'
  OBVIOUS
<1>1. /\ writing /\ cuts = {} /\ cuts' = {} /\ calls' = <<>>
      /\ UNCHANGED <<base, current, writing, delta, ops, replayed, replaying, counts>>
  BY DEF Retain, Ready, Idle
<1>2. /\ base \in Base /\ ops \in Nat /\ Staged(delta, replaying)
      /\ AttachedBut(base, delta, {})
  BY <1>1, ReadyFacts
<1>3. PICK k \in IdentityKeys, keep \in SUBSET Values :
        stale' = {s \in Subjects :
                    \E v \in Values \ keep : <<s, v>> \in property_key_subjects(base, delta, k)}
  BY DEF Retain
<1>4. \A s \in stale' : s \in Subjects /\ Property(base, delta, s, k) # Absent
  <2>1. property_key_subjects(base, delta, k)
          = {p \in Subjects \X Values : Property(base, delta, p[1], k) = p[2]}
    BY <1>2, KeyFacts, SoundIndexed DEF Staged, Whole, Indexed
  <2>2. \A v \in Values : v # Absent
    BY OverlayAssumption
  <2>3. QED
    BY <1>3, <2>1, <2>2
<1>5. \A s \in stale' : Visible(base, delta, s) /\ s[1] # "incidence"
  BY <1>2, <1>4, KeyFacts DEF Staged, Whole, Sound, Owned
<1>6. StaleVisible'
  BY <1>1, <1>5 DEF StaleVisible, Visible
<1>7. CascadeCovers'
  BY <1>1, <1>2 DEF CascadeCovers, AttachedBut
<1>8. PendingIdentity' /\ calls' \in Seq(UpsertCall)
  BY <1>1 DEF PendingIdentity
<1>9. QED
  BY <1>1, <1>2, <1>4, <1>6, <1>7, <1>8, StagedStep

\* A step of a retain keeps the invariant: the rest of its list stays visible.
LEMMA RetainNextStep == IInv /\ RetainNext => IInv'
<1> SUFFICES ASSUME IInv, RetainNext PROVE IInv'
  OBVIOUS
<1>1. PICK s \in Subjects : FirstStale(s) /\ Tombstone(s) /\ stale' = stale \ {s}
  BY DEF RetainNext
<1>2. /\ cuts = {} /\ s \in stale /\ calls' = calls
      /\ UNCHANGED <<base, current, writing, replayed, counts>>
  BY <1>1 DEF RetainNext, FirstStale
<1>3. /\ writing /\ calls = <<>>
      /\ stale \in SUBSET Subjects /\ calls \in Seq(UpsertCall) /\ StaleVisible
  BY <1>2 DEF IInv, Modes, Idle, TypeOK
<1>4. /\ base \in Base /\ ops \in Nat /\ Staged(delta, replaying)
      /\ AttachedBut(base, delta, {})
  BY <1>2, ReadyFacts
<1>5. /\ Staged(delta', replaying') /\ ops' \in Nat
      /\ cuts' \subseteq Incidences
      /\ AttachedBut(base, delta', cuts')
      /\ \A i \in cuts' : Incidence(base, delta', i) # Absent
      /\ \A t \in Subjects : t # s /\ Visible(base, delta, t) => Visible(base, delta', t)
  BY <1>1, <1>4, TombstoneKeeps
<1>6. CascadeCovers'
  BY <1>2, <1>5 DEF CascadeCovers, AttachedBut
<1>7. StaleVisible'
  BY <1>1, <1>2, <1>3, <1>5 DEF StaleVisible, Visible
<1>8. PendingIdentity'
  BY <1>2, <1>3 DEF PendingIdentity
<1>9. QED
  BY <1>1, <1>2, <1>3, <1>5, <1>6, <1>7, <1>8, StagedStep

\* An identity probe that finds nobody: no subject of the family shows the value.
LEMMA HoldersMiss ==
  ASSUME IInv, NEW k \in IdentityKeys, NEW v \in Values, NEW family, Holders(family, k, v) = {}
  PROVE  \A t \in Subjects : t[1] = family => Property(base, delta, t, k) # v
<1>1. property_equal(base, delta, k, v) = {s \in Subjects : Property(base, delta, s, k) = v}
  BY KeyFacts, SoundIndexed DEF IInv, TypeOK, Whole, Indexed
<1>2. QED
  BY <1>1 DEF Holders

\* Minting an element keeps the invariant: its identity is pending and nobody's.
LEMMA UpsertElementStep == IInv /\ UpsertElement => IInv'
<1> SUFFICES ASSUME IInv, UpsertElement PROVE IInv'
  OBVIOUS
<1>1. /\ writing /\ cuts = {} /\ cuts' = {} /\ stale' = {}
      /\ UNCHANGED <<base, current, writing, replayed, counts>>
  BY DEF UpsertElement, Ready, Idle
<1>2. /\ base \in Base /\ ops \in Nat /\ Staged(delta, replaying)
      /\ AttachedBut(base, delta, {})
  BY <1>1, ReadyFacts
<1>3. PICK k \in IdentityKeys, v \in Values :
        /\ Holders("element", k, v) = {}
        /\ CreateElement
        /\ calls' = <<[call |-> "set", subject |-> ElementSubject(delta.next.element),
                       key |-> k, value |-> v]>>
  BY DEF UpsertElement
<1> DEFINE s == ElementSubject(delta.next.element)
           c == [call |-> "set", subject |-> s, key |-> k, value |-> v]
<1>4. /\ Staged(delta', replaying') /\ ops' \in Nat
      /\ delta.next.element \in Elements
      /\ AttachedBut(base, delta', {})
      /\ \A t \in Subjects, y \in Keys : Property(base, delta', t, y) = Property(base, delta, t, y)
  BY <1>2, <1>3, CreateElementKeeps
<1>5. s \in Subjects /\ s[1] = "element" /\ k \in Keys
  BY <1>4, SubjectFacts, KeyFacts DEF ElementSubject
<1>6. \A t \in Subjects : t[1] = "element" => Property(base, delta', t, k) # v
  BY <1>3, <1>4, <1>5, HoldersMiss
<1> HIDE DEF s
<1>7. c \in UpsertCall /\ c.call = "set" /\ c.subject = s /\ c.key = k /\ c.value = v
  BY <1>5 DEF UpsertCall
<1>8. calls' = <<c>>
  BY <1>3 DEF s
<1> HIDE DEF c
<1>9. /\ calls' \in Seq(UpsertCall)
      /\ Len(calls') = 1 /\ calls'[1] = c
  BY <1>7, <1>8
<1>10. PendingIdentity'
  BY <1>1, <1>5, <1>6, <1>7, <1>9 DEF PendingIdentity, IsSet, Property, Merge
<1>11. CascadeCovers' /\ StaleVisible'
  BY <1>1, <1>4 DEF CascadeCovers, AttachedBut, StaleVisible
<1>12. QED
  BY <1>1, <1>4, <1>9, <1>10, <1>11, StagedStep

\* Minting a relation keeps the invariant: of the calls to come one sets its identity.
LEMMA UpsertRelationStep == IInv /\ UpsertRelation => IInv'
<1> SUFFICES ASSUME IInv, UpsertRelation PROVE IInv'
  OBVIOUS
<1>1. /\ writing /\ cuts = {} /\ cuts' = {} /\ stale' = {}
      /\ UNCHANGED <<base, current, writing, replayed, counts>>
  BY DEF UpsertRelation, Ready, Idle
<1>2. /\ base \in Base /\ ops \in Nat /\ Staged(delta, replaying)
      /\ AttachedBut(base, delta, {})
  BY <1>1, ReadyFacts
<1> DEFINE id == delta.next.relation
<1>3. PICK k \in IdentityKeys, v \in Values, type \in Types, from \in Elements, to \in Elements,
        source \in Roles, target \in Roles :
        /\ Holders("relation", k, v) = {}
        /\ CreateRelation
        /\ calls' = <<[call |-> "type", relation |-> id, type |-> type],
                      [call |-> "set", subject |-> RelationSubject(id), key |-> k, value |-> v],
                      [call |-> "attach", relation |-> id, element |-> from, role |-> source],
                      [call |-> "attach", relation |-> id, element |-> to, role |-> target]>>
  BY DEF UpsertRelation
<1> DEFINE s == RelationSubject(id)
           c1 == [call |-> "type", relation |-> id, type |-> type]
           c2 == [call |-> "set", subject |-> s, key |-> k, value |-> v]
           c3 == [call |-> "attach", relation |-> id, element |-> from, role |-> source]
           c4 == [call |-> "attach", relation |-> id, element |-> to, role |-> target]
<1>4. /\ Staged(delta', replaying') /\ ops' \in Nat
      /\ id \in Relations
      /\ AttachedBut(base, delta', {})
      /\ \A t \in Subjects, y \in Keys : Property(base, delta', t, y) = Property(base, delta, t, y)
  BY <1>2, <1>3, CreateRelationKeeps
<1>5. s \in Subjects /\ s[1] = "relation" /\ k \in Keys
  BY <1>4, SubjectFacts, KeyFacts DEF RelationSubject
<1>6. \A t \in Subjects : t[1] = "relation" => Property(base, delta', t, k) # v
  BY <1>3, <1>4, <1>5, HoldersMiss
<1> HIDE DEF s
<1>7. /\ c2 \in UpsertCall /\ c2.call = "set" /\ c2.subject = s /\ c2.key = k /\ c2.value = v
      /\ c1 \in UpsertCall /\ c1.call = "type"
      /\ c3 \in UpsertCall /\ c3.call = "attach" /\ c4 \in UpsertCall /\ c4.call = "attach"
  BY <1>4, <1>5 DEF UpsertCall
<1>8. calls' = <<c1, c2, c3, c4>>
  BY <1>3 DEF s
<1> HIDE DEF c1, c2, c3, c4
<1>9. /\ calls' \in Seq(UpsertCall)
      /\ Len(calls') = 4
      /\ calls'[1] = c1 /\ calls'[2] = c2 /\ calls'[3] = c3 /\ calls'[4] = c4
  BY <1>7, <1>8
<1>10. \A j \in 1..Len(calls') : calls'[j].call = "set" => j = 2
  BY <1>7, <1>9
<1>11. PendingIdentity'
  BY <1>1, <1>5, <1>6, <1>7, <1>9, <1>10 DEF PendingIdentity, IsSet, Property, Merge
<1>12. CascadeCovers' /\ StaleVisible'
  BY <1>1, <1>4 DEF CascadeCovers, AttachedBut, StaleVisible
<1>13. QED
  BY <1>1, <1>4, <1>9, <1>11, <1>12, StagedStep

\* The fields of a pending call, by its kind.
LEMMA CallFields ==
  ASSUME NEW c \in UpsertCall
  PROVE  /\ c.call = "set" => c.subject \in Subjects /\ c.key \in Keys /\ c.value \in Values
         /\ c.call = "type" => c.relation \in Relations /\ c.type \in Types
         /\ c.call = "attach" => c.relation \in Relations /\ c.element \in Elements /\ c.role \in Roles
BY DEF UpsertCall

\* One call of an upsert keeps the invariant, the identity it may still have to set
\* included.
LEMMA UpsertNextStep == IInv /\ UpsertNext => IInv'
<1> SUFFICES ASSUME IInv, UpsertNext PROVE IInv'
  OBVIOUS
<1> DEFINE c == Head(calls)
<1>1. /\ calls # <<>> /\ Perform(c) /\ calls' = Tail(calls) /\ cuts' = cuts /\ stale' = stale
      /\ UNCHANGED <<base, current, writing, replayed, counts>>
  BY DEF UpsertNext
<1>2. /\ writing /\ cuts = {} /\ stale = {} /\ calls \in Seq(UpsertCall) /\ PendingIdentity
  BY <1>1 DEF IInv, Modes, Idle, TypeOK
<1>3. /\ base \in Base /\ ops \in Nat /\ Staged(delta, replaying)
      /\ AttachedBut(base, delta, {})
  BY <1>2, ReadyFacts
<1>4. /\ c \in UpsertCall /\ c = calls[1] /\ Len(calls) \in Nat /\ Len(calls) >= 1
      /\ calls' \in Seq(UpsertCall) /\ Len(calls') = Len(calls) - 1
      /\ \A j \in 1..Len(calls') : calls'[j] = calls[j + 1]
  BY <1>1, <1>2
<1> HIDE DEF c
<1>5. \A j \in 1..Len(calls') : IsSet(j)' => IsSet(j + 1) /\ j + 1 \in 1..Len(calls)
  BY <1>4 DEF IsSet
<1> DEFINE Kept == Staged(delta', replaying') /\ ops' \in Nat /\ AttachedBut(base, delta', {})
<1>6. ASSUME c.call = "set"
      PROVE  Kept /\ PendingIdentity'
  <2>1. SetProperty(c.subject, c.key, c.value)
    BY <1>1, <1>6 DEF Perform
  <2>2. IsSet(1)
    BY <1>4, <1>6 DEF IsSet
  <2>3. \A t \in Subjects : t[1] = c.subject[1] => Property(base, delta, t, c.key) # c.value
    BY <1>2, <1>4, <2>2 DEF PendingIdentity
  <2>4. Kept
    BY <1>3, <1>4, <1>6, <2>1, <2>3, CallFields, SetPropertyKeeps
  <2>5. \A j \in 1..Len(calls') : ~IsSet(j)'
    <3>1. SUFFICES ASSUME NEW j \in 1..Len(calls'), IsSet(j)' PROVE FALSE
      OBVIOUS
    <3>2. IsSet(j + 1) /\ j + 1 \in 1..Len(calls) /\ 1 \in 1..Len(calls)
      BY <1>4, <1>5, <3>1
    <3>3. j + 1 = 1
      BY <1>2, <2>2, <3>2 DEF PendingIdentity
    <3>4. QED
      BY <1>4, <3>3
  <2>6. QED
    BY <2>4, <2>5 DEF PendingIdentity
<1>7. ASSUME c.call # "set"
      PROVE  /\ Kept
             /\ \A s \in Subjects, k \in Keys : Property(base, delta', s, k) = Property(base, delta, s, k)
  <2>1. CASE c.call = "type"
    <3>1. SetRelationType(c.relation, c.type) /\ c.relation \in Relations /\ c.type \in Types
      BY <1>1, <1>4, <2>1, CallFields DEF Perform
    <3>2. QED
      BY <1>3, <3>1, SetRelationTypeKeeps
  <2>2. CASE c.call = "attach"
    <3>1. /\ CreateIncidence(c.relation, c.element, c.role)
          /\ c.relation \in Relations /\ c.element \in Elements /\ c.role \in Roles
      BY <1>1, <1>4, <2>2, CallFields DEF Perform
    <3>2. QED
      BY <1>3, <3>1, CreateIncidenceKeeps
  <2>3. QED
    BY <1>1, <1>7, <2>1, <2>2 DEF Perform
<1>8. ASSUME c.call # "set"
      PROVE  PendingIdentity'
  <2>1. ASSUME NEW j \in 1..Len(calls'), IsSet(j)'
        PROVE  /\ (calls[j].key \in IdentityKeys)'
               /\ \A t \in Subjects :
                    t[1] = calls'[j].subject[1] => Property(base, delta', t, calls'[j].key) # calls'[j].value
    <3>1. /\ IsSet(j + 1) /\ j + 1 \in 1..Len(calls) /\ calls'[j] = calls[j + 1]
          /\ calls[j + 1] \in UpsertCall /\ calls[j + 1].call = "set"
      BY <1>2, <1>4, <1>5, <2>1 DEF IsSet
    <3>2. /\ calls[j + 1].key \in IdentityKeys
          /\ \A t \in Subjects : t[1] = calls[j + 1].subject[1]
               => Property(base, delta, t, calls[j + 1].key) # calls[j + 1].value
      BY <1>2, <3>1 DEF PendingIdentity
    <3>3. QED
      BY <1>7, <1>8, <3>1, <3>2, KeyFacts
  <2>2. ASSUME NEW i \in 1..Len(calls'), NEW j \in 1..Len(calls'), IsSet(i)', IsSet(j)'
        PROVE  i = j
    <3>1. /\ IsSet(i + 1) /\ i + 1 \in 1..Len(calls) /\ IsSet(j + 1) /\ j + 1 \in 1..Len(calls)
      BY <1>5, <2>2
    <3>2. i + 1 = j + 1
      BY <1>2, <3>1 DEF PendingIdentity
    <3>3. QED
      BY <1>4, <3>2
  <2>3. base' = base
    BY <1>1
  <2>4. QED
    BY <2>1, <2>2, <2>3 DEF PendingIdentity, Property
<1>9. CascadeCovers' /\ StaleVisible'
  BY <1>1, <1>2, <1>6, <1>7 DEF CascadeCovers, AttachedBut, StaleVisible
<1>10. cuts' \subseteq Incidences /\ stale' \subseteq Subjects /\ cuts' = {} /\ stale' = {}
  BY <1>1, <1>2
<1>11. QED
  BY <1>1, <1>2, <1>4, <1>6, <1>7, <1>8, <1>9, <1>10, StagedStep

\* An upsert that stops half-way keeps the invariant: nothing more is pending.
LEMMA UpsertFailsStep == IInv /\ UpsertFails => IInv'
<1> SUFFICES ASSUME IInv, UpsertFails PROVE IInv'
  OBVIOUS
<1>1. /\ calls # <<>> /\ calls' = <<>>
      /\ UNCHANGED <<base, current, writing, delta, ops, cuts, stale, replayed, replaying, counts>>
  BY DEF UpsertFails
<1>2. writing /\ cuts = {} /\ stale = {}
  BY <1>1 DEF IInv, Modes, Idle
<1>3. /\ base \in Base /\ ops \in Nat /\ Staged(delta, replaying)
      /\ AttachedBut(base, delta, {})
  BY <1>2, ReadyFacts
<1>4. cuts' = {} /\ stale' = {} /\ AttachedBut(base, delta', {}) /\ Staged(delta', replaying') /\ ops' \in Nat
  BY <1>1, <1>2, <1>3
<1>5. QED
  BY <1>1, <1>2, <1>4, IdleStep, StagedStep

\* What a step outside a transaction has to establish.
LEMMA ClosedStep ==
  ASSUME base' \in Base, current' \in Overlay, ~writing', delta' = current', ops' \in Nat,
         Idle', replayed' = current', replaying' = current',
         Whole(base', current'), Attached(base', current'),
         commits' \in 0..MaxCommits, folds' \in 0..MaxFolds, writing' \in BOOLEAN
  PROVE  IInv'
<1>1. cuts' = {} /\ stale' = {} /\ calls' = <<>>
  BY DEF Idle
<1>2. TypeOK'
  <2>1. cuts' \in SUBSET Incidences /\ stale' \in SUBSET Subjects /\ calls' \in Seq(UpsertCall)
    BY <1>1
  <2>2. QED
    BY <2>1 DEF TypeOK
<1>3. Whole(base, current)' /\ Whole(base, delta)' /\ Attached(base, current)'
  BY DEF Whole, Unique, Attached
<1>4. (replayed = current)' /\ Alike(replaying, delta)'
  BY DEF Alike
<1>5. CascadeCovers'
  BY <1>1 DEF CascadeCovers, Attached, AttachedBut
<1>6. StaleVisible' /\ PendingIdentity'
  BY <1>1 DEF StaleVisible, PendingIdentity
<1>7. Modes'
  BY <1>1 DEF Modes
<1>8. QED
  BY <1>2, <1>3, <1>4, <1>5, <1>6, <1>7 DEF IInv

\* Opening a transaction keeps the invariant.
LEMMA BeginWriteStep == IInv /\ BeginWrite => IInv'
<1> SUFFICES ASSUME IInv, BeginWrite PROVE IInv'
  OBVIOUS
<1>1. /\ ~writing /\ commits < MaxCommits /\ writing' = TRUE /\ delta' = current
      /\ replaying' = replayed /\ ops' = 0 /\ cuts' = cuts /\ stale' = stale /\ calls' = calls
      /\ UNCHANGED <<base, current, replayed, counts>>
  BY DEF BeginWrite, todo
<1>2. /\ cuts = {} /\ stale = {} /\ calls = <<>> /\ delta = current /\ replayed = current
      /\ base \in Base /\ current \in Overlay /\ Whole(base, current) /\ Attached(base, current)
  BY <1>1 DEF IInv, Modes, Idle, TypeOK
<1>3. cuts' = {} /\ stale' = {} /\ calls' = <<>> /\ AttachedBut(base, delta', {})
  BY <1>1, <1>2 DEF Attached, AttachedBut
<1>4. TypeOK'
  BY <1>1 DEF IInv, TypeOK, counts
<1>5. Whole(base, current)' /\ Whole(base, delta)' /\ Attached(base, current)'
  BY <1>1, <1>2 DEF Whole, Unique, Attached
<1>6. (replayed = current)' /\ Alike(replaying, delta)'
  BY <1>1, <1>2 DEF Alike
<1>7. Modes'
  BY <1>1, <1>3 DEF Modes, counts
<1>8. QED
  BY <1>1, <1>3, <1>4, <1>5, <1>6, <1>7, IdleStep DEF IInv

\* A commit keeps the invariant: with the watermark that ends its frame the replay is
\* the overlay it publishes.
LEMMA CommitStep == IInv /\ Commit => IInv'
<1> SUFFICES ASSUME IInv, Commit PROVE IInv'
  OBVIOUS
<1>1. /\ writing /\ cuts = {} /\ stale = {} /\ calls = <<>> /\ current' = delta
      /\ replaying' = [replaying EXCEPT !.next = delta.next]
      /\ replayed' = replaying' /\ writing' = FALSE /\ ops' = 0 /\ commits' = commits + 1
      /\ base' = base /\ delta' = delta /\ folds' = folds
      /\ cuts' = cuts /\ stale' = stale /\ calls' = calls
  BY DEF Commit, Idle, todo, apply_replay_op
<1>2. /\ base \in Base /\ delta \in Overlay /\ replaying \in Overlay /\ Alike(replaying, delta)
      /\ Whole(base, delta) /\ AttachedBut(base, delta, {})
      /\ commits \in 0..MaxCommits /\ folds \in 0..MaxFolds /\ commits < MaxCommits
  BY <1>1 DEF IInv, TypeOK, CascadeCovers, Modes
<1>3. [replaying EXCEPT !.next = delta.next] = delta
  BY <1>2, AlikeEqual
<1>4. Attached(base', current') /\ Whole(base', current')
  BY <1>1, <1>2 DEF Attached, AttachedBut
<1>5. Idle'
  BY <1>1 DEF Idle
<1>6. commits' \in 0..MaxCommits
  BY <1>1, <1>2, WriterAssumption
<1>7. QED
  BY <1>1, <1>2, <1>3, <1>4, <1>5, <1>6, ClosedStep

\* A rollback keeps the invariant.
LEMMA RollbackStep == IInv /\ Rollback => IInv'
<1> SUFFICES ASSUME IInv, Rollback PROVE IInv'
  OBVIOUS
<1>1. /\ Idle /\ writing' = FALSE /\ delta' = current /\ ops' = 0 /\ replaying' = replayed
      /\ UNCHANGED <<base, current, replayed, commits, folds>>
      /\ cuts' = cuts /\ stale' = stale /\ calls' = calls
  BY DEF Rollback, todo, counts
<1>2. /\ base \in Base /\ current \in Overlay /\ replayed = current
      /\ Whole(base, current) /\ Attached(base, current)
      /\ commits \in 0..MaxCommits /\ folds \in 0..MaxFolds
  BY DEF IInv, TypeOK
<1>3. Idle'
  BY <1>1 DEF Idle
<1>4. QED
  BY <1>1, <1>2, <1>3, ClosedStep

\* A checkpoint keeps the invariant: the frozen base shows what the overlay showed.
LEMMA CheckpointStep == IInv /\ Checkpoint => IInv'
<1> SUFFICES ASSUME IInv, Checkpoint PROVE IInv'
  OBVIOUS
<1> DEFINE f == freeze_view(base, current)
           n == EmptyOverlay(current.next)
<1>1. /\ ~writing /\ folds < MaxFolds /\ base' = f /\ current' = n /\ delta' = n
      /\ replayed' = n /\ replaying' = n /\ commits' = 0 /\ folds' = folds + 1
      /\ writing' = writing /\ ops' = ops /\ cuts' = cuts /\ stale' = stale /\ calls' = calls
  BY DEF Checkpoint, todo
<1>2. /\ base \in Base /\ current \in Overlay /\ Whole(base, current) /\ Attached(base, current)
      /\ folds \in 0..MaxFolds /\ ops \in Nat /\ Idle /\ writing \in BOOLEAN
  BY <1>1 DEF IInv, TypeOK, Modes
<1>3. /\ f \in Base
      /\ f.next = current.next /\ n.next = current.next
      /\ Sound(f, n)
      /\ \A y \in Elements : Element(f, n, y) = Element(base, current, y)
      /\ \A y \in Relations : Relation(f, n, y) = Relation(base, current, y)
      /\ \A y \in Incidences : Incidence(f, n, y) = Incidence(base, current, y)
      /\ \A t \in Subjects, k \in Keys : Property(f, n, t, k) = Property(base, current, t, k)
  BY <1>2, FreezeSound DEF Whole
<1>4. n \in Overlay
  BY <1>3 DEF Sound
<1> HIDE DEF f, n
<1>5. Above(n.next, f.next)
  BY <1>2, <1>3 DEF Above, Overlay, NextIds
<1>6. Unique(f, n)
  BY <1>2, <1>3, KeyFacts DEF Whole, Unique
<1>7. Attached(f, n)
  BY <1>2, <1>3, EndsType DEF Attached
<1>8. Idle'
  BY <1>1, <1>2 DEF Idle
<1>9. commits' \in 0..MaxCommits /\ folds' \in 0..MaxFolds
  BY <1>1, <1>2, WriterAssumption
<1>10. QED
  BY <1>1, <1>2, <1>3, <1>4, <1>5, <1>6, <1>7, <1>8, <1>9, ClosedStep DEF Whole

\* The replayed watermark is never below the header's, so it is the one recovery takes.
LEMMA MaxIsReplayed ==
  ASSUME NEW low \in NextIds, NEW high \in NextIds, Above(high, low)
  PROVE  elementwise_max(low, high) = high
<1>1. DOMAIN high = {"element", "relation", "incidence"}
  BY DEF NextIds
<1>2. \A g \in {"element", "relation", "incidence"} :
        elementwise_max(low, high)[g] = high[g]
  BY DEF elementwise_max, Above, NextIds
<1>3. QED
  BY <1>1, <1>2 DEF elementwise_max, NextIds

\* Recovery keeps the invariant: it yields the overlay that was published last.
LEMMA ReopenStep == IInv /\ Reopen => IInv'
<1> SUFFICES ASSUME IInv, Reopen PROVE IInv'
  OBVIOUS
<1>1. /\ current' = [replayed EXCEPT !.next = elementwise_max(base.next, replayed.next)]
      /\ delta' = current' /\ writing' = FALSE /\ ops' = 0
      /\ cuts' = {} /\ stale' = {} /\ calls' = <<>> /\ replaying' = replayed
      /\ UNCHANGED <<base, replayed, commits, folds>>
  BY DEF Reopen, counts
<1>2. /\ base \in Base /\ current \in Overlay /\ replayed = current
      /\ Whole(base, current) /\ Attached(base, current)
      /\ commits \in 0..MaxCommits /\ folds \in 0..MaxFolds
  BY DEF IInv, TypeOK
<1>3. elementwise_max(base.next, replayed.next) = replayed.next
  BY <1>2, MaxIsReplayed DEF Base, Overlay, Whole
<1>4. current' = current
  BY <1>1, <1>2, <1>3, AlikeEqual DEF Alike
<1>5. Idle'
  BY <1>1 DEF Idle
<1>6. QED
  BY <1>1, <1>2, <1>4, <1>5, ClosedStep

\* A step that changes nothing keeps the invariant.
LEMMA StutterStep == IInv /\ UNCHANGED vars => IInv'
BY DEF vars, todo, counts, IInv, TypeOK, Whole, Unique, Attached, CascadeCovers, AttachedBut,
   StaleVisible, PendingIdentity, IsSet, Modes, Idle, Visible

\* The invariant holds in every reachable state.
LEMMA Inductive == Spec => []IInv
<1>1. IInv /\ [Next]_vars => IInv'
  BY CallStep, TombstoneCallStep, UpsertElementStep, UpsertRelationStep, RetainStep,
     CascadeStep, RetainNextStep, UpsertNextStep, UpsertFailsStep, BeginWriteStep, CommitStep,
     RollbackStep, CheckpointStep, ReopenStep, StutterStep DEF Next, Method, Loop
<1>2. QED
  BY <1>1, InitIInv, PTL DEF Spec

-----------------------------------------------------------------------------
(* The theorems *)

\* Every variable of the writer keeps to its type, for any constants: an id minted by an
\* upsert is in its id space when the calls that use it are made.
THEOREM TypeCorrect == Spec => []TypeOK
BY Inductive, PTL DEF IInv

\* What the postings answer is what a scan of the merged records would, over the
\* published overlay and the writer's own (overlay/index.rs, overlay/merge.rs).
THEOREM LookupsExact == Spec => []LookupsMatchScan
<1>1. IInv => LookupsMatchScan
  BY SoundIndexed DEF IInv, TypeOK, Whole, LookupsMatchScan
<1>2. QED
  BY <1>1, Inductive, PTL

\* Replaying the log over the base rebuilds the published overlay, postings and watermark
\* included, whatever was committed, rolled back, folded or cut short by a crash.
THEOREM ReplayCorrect == Spec => []ReplayRebuilds
<1>1. IInv => ReplayRebuilds
  BY AlikeEqual DEF IInv, TypeOK, ReplayRebuilds
<1>2. QED
  BY <1>1, Inductive, PTL

\* An id at or above the watermark has never been used in any layer: no creation, in any
\* transaction, after any recovery, overwrites a record or revives a tombstone.
THEOREM IdsFresh == Spec => []FreshIds
<1>1. IInv => FreshIds
  BY DEF IInv, Whole, Sound, Fresh, FreshIds
<1>2. QED
  BY <1>1, Inductive, PTL

\* Between two calls no visible incidence has lost an end and no property its subject.
THEOREM GraphWhole == Spec => []GraphIntact
<1>1. IInv => NoDanglingIncidence
  BY DEF IInv, NoDanglingIncidence, CascadeCovers, Attached, AttachedBut, Idle
<1>2. IInv => NoOrphanProperty
  BY DEF IInv, Whole, Sound, Owned, NoOrphanProperty
<1>3. IInv => GraphIntact
  BY <1>1, <1>2 DEF IInv, GraphIntact
<1>4. QED
  BY <1>3, Inductive, PTL

\* Retains finish, identities stay unique, and neither leaves a loose incidence.
THEOREM ReconcileCorrect == Spec => []Reconciled
<1>1. IInv => NoDanglingIncidence
  BY DEF IInv, NoDanglingIncidence, CascadeCovers, Attached, AttachedBut, Idle
<1>2. IInv => RetainCompletes /\ IdentityUnique
  BY DEF IInv, RetainCompletes, StaleVisible, IdentityUnique, Whole, Unique
<1>3. IInv => Reconciled
  BY <1>1, <1>2 DEF Reconciled
<1>4. QED
  BY <1>3, Inductive, PTL
=============================================================================
