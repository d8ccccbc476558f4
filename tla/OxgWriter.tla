----------------------------- MODULE OxgWriter -----------------------------
(***************************************************************************)
(* The graph of one oxgraph-db handle: the write transaction (every method *)
(* of Writer over WriteOverlay), commit, rollback, checkpoint and reopen.  *)
(*                                                                         *)
(* Recovery folds the logged operations, in order, over the base.  That    *)
(* fold is kept up to date one operation at a time: `replayed' is what it  *)
(* yields for the committed frames, `replaying' for those frames and the   *)
(* operations the open transaction has logged so far.                      *)
(***************************************************************************)
EXTENDS OxgOverlay, Sequences, FiniteSets

CONSTANTS
  IdentityKeys,   \* keys behind an identity index: written by upserts only
  MaxTxnOps,      \* bound on the operations logged by a transaction
  MaxCommits,     \* bound on the commits between two checkpoints
  MaxFolds        \* bound on the checkpoints

ASSUME WriterAssumption ==
  /\ IdentityKeys \subseteq ElementKeys \cup RelationKeys
  /\ MaxTxnOps \in Nat /\ MaxCommits \in Nat /\ MaxFolds \in Nat

VARIABLES
  base,       \* BaseRecords of the current generation
  current,    \* the published Overlay
  writing,    \* whether a Writer is open
  delta,      \* the Writer's WriteOverlay
  ops,        \* how many operations its log holds
  cuts,       \* incidences the running cascade has still to tombstone
  stale,      \* subjects the running retain has still to tombstone
  calls,      \* Writer calls the running upsert has still to make
  replayed,   \* history: replay of the committed frames over base
  replaying,  \* history: and of the operations logged since
  commits,    \* commits since the last checkpoint
  folds       \* checkpoints

todo == <<cuts, stale, calls>>
counts == <<commits, folds>>
vars == <<base, current, writing, delta, ops, todo, replayed, replaying, counts>>

Idle == cuts = {} /\ stale = {} /\ calls = <<>>

Init ==
  /\ base = EmptyBase
  /\ current = EmptyOverlay(EmptyBase.next)
  /\ writing = FALSE
  /\ delta = current
  /\ ops = 0
  /\ Idle
  /\ replayed = current
  /\ replaying = current
  /\ commits = 0
  /\ folds = 0

-----------------------------------------------------------------------------
(* The overlay calls of a Writer.  Each logs one operation; a refused call  *)
(* returns an error and changes nothing.                                    *)
\* Mutant: a label added to a relation is applied but not logged.
Log_NoRelationLabel(op) ==
  /\ ops' = ops + 1
  /\ replaying' = IF op.kind = "add_relation_label" THEN replaying
                  ELSE apply_replay_op(base, replaying, op)

Log(op) ==
  /\ ops' = ops + 1
  /\ replaying' = apply_replay_op(base, replaying, op)

NextId(family, max) == delta.next[family] <= max

CreateElement ==
  /\ NextId("element", MaxElement)
  /\ LET id == delta.next.element IN
       /\ delta' = [create_element(delta, id) EXCEPT !.next.element = id + 1]
       /\ Log([kind |-> "create_element", id |-> id])

CreateRelation ==
  /\ NextId("relation", MaxRelation)
  /\ LET id == delta.next.relation IN
       /\ delta' = [create_relation(delta, id) EXCEPT !.next.relation = id + 1]
       /\ Log([kind |-> "create_relation", id |-> id])

CreateIncidence(r, e, role) ==
  /\ Relation(base, delta, r) # Absent
  /\ Element(base, delta, e) # Absent
  /\ NextId("incidence", MaxIncidence)
  /\ LET id == delta.next.incidence IN
       /\ delta' = [create_incidence(delta, id, r, e, role) EXCEPT !.next.incidence = id + 1]
       /\ Log([kind |-> "create_incidence", id |-> id, relation |-> r, element |-> e,
              role |-> role])

AddElementLabel(e, label) ==
  /\ Element(base, delta, e) # Absent
  /\ delta' = add_element_label(base, delta, e, label)
  /\ Log([kind |-> "add_element_label", id |-> e, label |-> label])

AddRelationLabel(r, label) ==
  /\ Relation(base, delta, r) # Absent
  /\ delta' = add_relation_label(base, delta, r, label)
  /\ Log([kind |-> "add_relation_label", id |-> r, label |-> label])

SetRelationType(r, type) ==
  /\ Relation(base, delta, r) # Absent
  /\ delta' = set_relation_type(base, delta, r, type)
  /\ Log([kind |-> "set_relation_type", id |-> r, type |-> type])

\* Setting the visible value again is skipped: nothing is logged.
SetProperty(s, k, v) ==
  /\ Visible(base, delta, s)
  /\ s \in FamilyOf(k)
  /\ \/ /\ Property(base, delta, s, k) = v
        /\ UNCHANGED <<delta, ops, replaying>>
     \/ /\ Property(base, delta, s, k) # v
        /\ delta' = set_property(base, delta, s, k, v)
        /\ Log([kind |-> "set_property", subject |-> s, key |-> k, value |-> v])

RemoveProperty(s, k) ==
  /\ Visible(base, delta, s)
  /\ delta' = remove_property(base, delta, s, k)
  /\ Log([kind |-> "remove_property", subject |-> s, key |-> k])

\* A tombstone: the record goes now, its incidences (found through the reverse
\* adjacency postings) one after the other in the cascade.
Tombstone(s) ==
  /\ Visible(base, delta, s)
  /\ \/ /\ s[1] = "element"
        /\ delta' = tombstone_element(base, delta, s[2])
        /\ cuts' = element_incidences(base, delta, s[2])
        /\ Log([kind |-> "tombstone_element", id |-> s[2]])
     \/ /\ s[1] = "relation"
        /\ delta' = tombstone_relation(base, delta, s[2])
        /\ cuts' = relation_incidences(base, delta, s[2])
        /\ Log([kind |-> "tombstone_relation", id |-> s[2]])
     \/ /\ s[1] = "incidence"
        /\ delta' = tombstone_incidence(base, delta, s[2])
        /\ cuts' = {}
        /\ Log([kind |-> "tombstone_incidence", id |-> s[2]])

-----------------------------------------------------------------------------
(* The methods of Writer *)

Ready == writing /\ Idle /\ ops < MaxTxnOps

Call ==
  /\ Ready
  /\ \/ CreateElement
     \/ CreateRelation
     \/ \E r \in Relations, e \in Elements, role \in Roles : CreateIncidence(r, e, role)
     \/ \E e \in Elements, label \in Labels : AddElementLabel(e, label)
     \/ \E r \in Relations, label \in Labels : AddRelationLabel(r, label)
     \/ \E r \in Relations, type \in Types : SetRelationType(r, type)
     \/ \E k \in Keys \ IdentityKeys :
          \E s \in Subjects : RemoveProperty(s, k) \/ \E v \in Values : SetProperty(s, k, v)
  /\ UNCHANGED <<base, current, writing, todo, replayed, counts>>

TombstoneCall ==
  /\ Ready
  /\ \E s \in Subjects : Tombstone(s)
  /\ UNCHANGED <<base, current, writing, stale, calls, replayed, counts>>
\* Mutant: the probe looks at the base only.
Holders_BaseOnly(family, k, v) == {s \in equality_subjects(base, <<k, v>>) : s[1] = family}

\* The subject of a family that the identity index already holds for a value.
Holders(family, k, v) == {s \in property_equal(base, delta, k, v) : s[1] = family}

\* A miss mints the element and then sets its identity; a hit changes nothing.
\* The key's family is only checked by the second call.
UpsertElement ==
  /\ Ready
  /\ \E k \in IdentityKeys, v \in Values :
       /\ Holders("element", k, v) = {}
       /\ CreateElement
       /\ calls' = <<[call |-> "set", subject |-> ElementSubject(delta.next.element),
                      key |-> k, value |-> v]>>
  /\ UNCHANGED <<base, current, writing, cuts, stale, replayed, counts>>

\* A relation is minted with its type and identity, then one incidence for each
\* endpoint (here two).
UpsertRelation ==
  /\ Ready
  /\ \E k \in IdentityKeys, v \in Values, type \in Types, from, to \in Elements,
       source, target \in Roles :
       /\ Holders("relation", k, v) = {}
       /\ CreateRelation
       /\ LET id == delta.next.relation IN
            calls' = <<[call |-> "type", relation |-> id, type |-> type],
                       [call |-> "set", subject |-> RelationSubject(id),
                        key |-> k, value |-> v],
                       [call |-> "attach", relation |-> id, element |-> from, role |-> source],
                       [call |-> "attach", relation |-> id, element |-> to, role |-> target]>>
  /\ UNCHANGED <<base, current, writing, cuts, stale, replayed, counts>>

\* Everything the index holds under a value outside `keep' is stale.
Retain ==
  /\ Ready
  /\ \E k \in IdentityKeys, keep \in SUBSET Values :
       stale' = {s \in Subjects :
                   \E v \in Values \ keep : <<s, v>> \in property_key_subjects(base, delta, k)}
  /\ UNCHANGED <<base, current, writing, delta, ops, cuts, calls, replayed, replaying, counts>>

\* The cascade: delta.tombstone_incidence in ascending order, unconditionally.
Cascade ==
  /\ \E i \in cuts :
       /\ \A j \in cuts : i <= j
       /\ delta' = tombstone_incidence(base, delta, i)
       /\ Log([kind |-> "tombstone_incidence", id |-> i])
       /\ cuts' = cuts \ {i}
  /\ UNCHANGED <<base, current, writing, stale, calls, replayed, counts>>

\* The next stale subject in order; all are of the one family of their key.
FirstStale(s) == s \in stale /\ \A t \in stale : s[2] <= t[2]
\* Mutant: the next subject is tombstoned while the last cascade still runs.
RetainNext_Eager ==
  /\ \E s \in Subjects : FirstStale(s) /\ Tombstone(s) /\ stale' = stale \ {s}
  /\ UNCHANGED <<base, current, writing, calls, replayed, counts>>

RetainNext ==
  /\ cuts = {}
  /\ \E s \in Subjects : FirstStale(s) /\ Tombstone(s) /\ stale' = stale \ {s}
  /\ UNCHANGED <<base, current, writing, calls, replayed, counts>>

\* The next call of the running upsert.
Perform(c) ==
  \/ c.call = "set" /\ SetProperty(c.subject, c.key, c.value)
  \/ c.call = "type" /\ SetRelationType(c.relation, c.type)
  \/ c.call = "attach" /\ CreateIncidence(c.relation, c.element, c.role)

UpsertNext ==
  /\ calls # <<>>
  /\ Perform(Head(calls))
  /\ calls' = Tail(calls)
  /\ UNCHANGED <<base, current, writing, cuts, stale, replayed, counts>>

Refused(c) ==
  \/ c.call = "set" /\ c.subject \notin FamilyOf(c.key)
  \/ c.call = "attach" /\ Element(base, delta, c.element) = Absent
  \/ c.call = "attach" /\ ~NextId("incidence", MaxIncidence)

\* One call of an upsert is refused: the method returns the error, what it staged
\* before stays staged.
UpsertFails ==
  /\ calls # <<>>
  /\ Refused(Head(calls))
  /\ calls' = <<>>
  /\ UNCHANGED <<base, current, writing, delta, ops, cuts, stale, replayed, replaying, counts>>

-----------------------------------------------------------------------------
(* Transactions, checkpoints, recovery *)

BeginWrite ==
  /\ ~writing
  /\ commits < MaxCommits
  /\ writing' = TRUE
  /\ delta' = current
  /\ replaying' = replayed
  /\ ops' = 0
  /\ UNCHANGED <<base, current, todo, replayed, counts>>

\* Publishing is freezing the delta; the frame ends with the watermark.
Commit ==
  /\ writing /\ Idle
  /\ ops > 0
  /\ current' = delta
  /\ replaying' = apply_replay_op(base, replaying, [kind |-> "next_id_watermark", next |-> delta.next])
  /\ replayed' = replaying'
  /\ writing' = FALSE
  /\ ops' = 0
  /\ commits' = commits + 1
  /\ UNCHANGED <<base, delta, todo, folds>>

\* The closure fails (or there is nothing to commit): the delta is dropped.
Rollback ==
  /\ writing /\ Idle
  /\ writing' = FALSE
  /\ delta' = current
  /\ ops' = 0
  /\ replaying' = replayed
  /\ UNCHANGED <<base, current, todo, replayed, counts>>

Checkpoint ==
  /\ ~writing
  /\ folds < MaxFolds
  /\ base' = freeze_view(base, current)
  /\ current' = EmptyOverlay(current.next)
  /\ delta' = EmptyOverlay(current.next)
  /\ replayed' = EmptyOverlay(current.next)
  /\ replaying' = EmptyOverlay(current.next)
  /\ commits' = 0
  /\ folds' = folds + 1
  /\ UNCHANGED <<writing, ops, todo>>

\* The larger of the base header's watermark and the replayed one.
elementwise_max(a, b) ==
  [f \in {"element", "relation", "incidence"} |-> IF a[f] > b[f] THEN a[f] ELSE b[f]]
\* Mutant: recovery keeps the base header's watermark.
Reopen_BaseWatermark ==
  /\ current' = [replayed EXCEPT !.next = base.next]
  /\ delta' = current'
  /\ writing' = FALSE
  /\ ops' = 0
  /\ cuts' = {}
  /\ stale' = {}
  /\ calls' = <<>>
  /\ replaying' = replayed
  /\ UNCHANGED <<base, replayed, counts>>

\* The process stops, in a transaction or not, and the store is opened again.
Reopen ==
  /\ current' = [replayed EXCEPT !.next = elementwise_max(base.next, replayed.next)]
  /\ delta' = current'
  /\ writing' = FALSE
  /\ ops' = 0
  /\ cuts' = {}
  /\ stale' = {}
  /\ calls' = <<>>
  /\ replaying' = replayed
  /\ UNCHANGED <<base, replayed, counts>>

Method == Call \/ TombstoneCall \/ UpsertElement \/ UpsertRelation \/ Retain

Loop == Cascade \/ RetainNext \/ UpsertNext \/ UpsertFails

Next == Method \/ Loop \/ BeginWrite \/ Commit \/ Rollback \/ Checkpoint \/ Reopen

Spec == Init /\ [][Next]_vars

-----------------------------------------------------------------------------
(* Properties *)

UpsertCall ==
  [call : {"set"}, subject : Subjects, key : Keys, value : Values]
    \cup [call : {"type"}, relation : Relations, type : Types]
    \cup [call : {"attach"}, relation : Relations, element : Elements, role : Roles]

\* Every variable keeps to its type.
TypeOK ==
  /\ base \in Base
  /\ current \in Overlay
  /\ writing \in BOOLEAN
  /\ delta \in Overlay
  /\ ops \in Nat
  /\ cuts \in SUBSET Incidences
  /\ stale \in SUBSET Subjects
  /\ calls \in Seq(UpsertCall)
  /\ replayed \in Overlay
  /\ replaying \in Overlay
  /\ commits \in 0..MaxCommits
  /\ folds \in 0..MaxFolds

\* What the postings answer is what a scan of the merged records would: for every
\* lookup, over the published overlay and over the writer's own.
Indexed(b, o) ==
  /\ \A label \in Labels :
       elements_with_label(b, o, label)
         = {e \in Elements : Element(b, o, e) # Absent /\ label \in Element(b, o, e).labels}
  /\ \A type \in Types :
       relations_with_type(b, o, type)
         = {r \in Relations : Relation(b, o, r) # Absent /\ Relation(b, o, r).type = type}
  /\ \A e \in Elements :
       element_incidences(b, o, e)
         = {i \in Incidences : Incidence(b, o, i) # Absent /\ Incidence(b, o, i).element = e}
  /\ \A r \in Relations :
       relation_incidences(b, o, r)
         = {i \in Incidences : Incidence(b, o, i) # Absent /\ Incidence(b, o, i).relation = r}
  /\ \A k \in Keys, v \in Values :
       property_equal(b, o, k, v) = {s \in Subjects : Property(b, o, s, k) = v}
  /\ \A k \in Keys, min, max \in Values :
       property_range(b, o, k, min, max)
         = {s \in Subjects : \E v \in Values :
              Property(b, o, s, k) = v /\ min <= v /\ v <= max}
  /\ \A k \in Keys :
       property_key_subjects(b, o, k)
         = {p \in Subjects \X Values : Property(b, o, p[1], k) = p[2]}

LookupsMatchScan == Indexed(base, current) /\ Indexed(base, delta)

\* Replaying the log over the base rebuilds the published overlay, its postings and
\* its watermark included, and nothing a transaction does escapes its frame.
ReplayRebuilds ==
  /\ replayed = current
  /\ [replaying EXCEPT !.next = delta.next] = delta

\* Between two calls every visible incidence joins a visible relation to a visible
\* element: the cascade misses none, whichever layer it lives in.
Attached(b, o) ==
  \A i \in Incidences :
    Incidence(b, o, i) # Absent =>
      /\ Relation(b, o, Incidence(b, o, i).relation) # Absent
      /\ Element(b, o, Incidence(b, o, i).element) # Absent

NoDanglingIncidence == Attached(base, current) /\ (Idle => Attached(base, delta))

\* A subject that is not visible shows no property, in any layer: a tombstone
\* masks what the base holds for it.
NoOrphanProperty ==
  \A o \in {current, delta}, s \in Subjects, k \in Keys :
    Property(base, o, s, k) # Absent => Visible(base, o, s)

\* An id at or above the watermark has never been used in any layer, so a
\* creation overwrites neither a record nor a tombstone.
FreshIds ==
  \A o \in {current, delta} :
    /\ \A e \in Elements : e >= o.next.element =>
         o.elements[e] = Unset /\ base.elements[e] = Absent
    /\ \A r \in Relations : r >= o.next.relation =>
         o.relations[r] = Unset /\ base.relations[r] = Absent
    /\ \A i \in Incidences : i >= o.next.incidence =>
         o.incidences[i] = Unset /\ base.incidences[i] = Absent

\* A retain is never refused half-way: whatever its own cascades removed, the
\* subjects it has still to tombstone are there.
RetainCompletes == \A s \in stale : Visible(base, delta, s)

\* Upserts keep identities unique: two subjects never share an identity value.
IdentityUnique ==
  \A k \in IdentityKeys, s, t \in Subjects :
    Property(base, delta, s, k) # Absent /\ Property(base, delta, s, k) = Property(base, delta, t, k)
      => s = t

\* The visible graph is whole in every layer: no incidence has lost an end and no property
\* its subject, whatever cascades, tombstones and folds came before.
GraphIntact == TypeOK /\ NoDanglingIncidence /\ NoOrphanProperty

\* The reconcile verbs keep the graph one: retain finishes although its cascades remove what
\* it has listed, upserts find what any layer holds, and neither leaves a loose incidence.
Reconciled == NoDanglingIncidence /\ RetainCompletes /\ IdentityUnique
=============================================================================
