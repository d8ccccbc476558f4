----------------------------- MODULE OxgPageRank -----------------------------
(***************************************************************************)
(* The PageRank kernel of oxgraph-algo as operators, for graphs and for    *)
(* the element and relation states of a directed hypergraph.  A rank is an *)
(* integer number of parts of Scale, so the arithmetic is exact as long as *)
(* Scale has the divisors that occur; damping is one half.                 *)
(***************************************************************************)
EXTENDS Integers, Sequences, SequencesExt, FiniteSetsExt

CONSTANT Scale   \* the parts a total rank of one is divided into

ASSUME ScaleAssumption == Scale \in Nat \ {0}

RankOk(v) == [err |-> "Ok", val |-> v]
RankErr(e) == [err |-> e, val |-> <<>>]

\* FoldLeft, with every intermediate result evaluated once: TLC passes arguments unevaluated.
Loop(op(_, _), base, seq) ==
  LET After[k \in 0..Len(seq)] ==
        IF k = 0 THEN base ELSE CHOOSE r \in {op(acc, seq[k]) : acc \in {After[k - 1]}} : TRUE
  IN  After[Len(seq)]

SumOver(f, S) == FoldSet(LAMBDA i, acc : f[i] + acc, 0, S)

validate_config(config) ==
  /\ config.damping_num >= 0 /\ config.damping_num <= config.damping_den
  /\ config.tolerance >= 0
  /\ config.max_iterations > 0

-----------------------------------------------------------------------------
(* Scratch.  Index 0 .. bound-1 holds states; a reused buffer may be longer. *)

Buffers(bound) == [teleport |-> [i \in 0..(bound - 1) |-> 0], visible |-> [i \in 0..(bound - 1) |-> 0]]

\* ensure_element_bound and ensure_bounds: a workspace only grows.
ensure_bounds(scratch, bound) ==
  [field \in {"teleport", "visible"} |->
     [i \in DOMAIN scratch[field] \cup 0..(bound - 1) |->
        IF i \in DOMAIN scratch[field] THEN scratch[field][i] ELSE 0]]
\* Mutant: the marks of an earlier call stay.
clear_Keeps(buffer, bound) == buffer

clear(buffer, bound) == [i \in DOMAIN buffer |-> IF i < bound THEN 0 ELSE buffer[i]]

is_visible(scratch, index) == scratch.visible[index] # 0

\* The states in order: marked once each, with their personalization, or refused.
\* An error returns with the marks made so far.
FillStep(acc, index, bound, personalization) ==
  CASE acc.err # "Ok" -> acc
    [] index >= bound -> [acc EXCEPT !.err = "ElementIndexOutOfBounds"]
    [] acc.scratch.visible[index] # 0 -> [acc EXCEPT !.err = "DuplicateElement"]
    [] personalization[index] < 0 -> [acc EXCEPT !.err = "InvalidPersonalization",
                                                 !.scratch.visible[index] = 1]
    [] OTHER -> [acc EXCEPT !.scratch.visible[index] = 1,
                            !.scratch.teleport[index] = personalization[index],
                            !.sum = @ + personalization[index], !.count = @ + 1]

\* personalization is a function on 0 .. bound-1, all ones when the caller gives none.
build_personalization_into(scratch, states, bound, personalization) ==
  LET cleared == [teleport |-> clear(scratch.teleport, bound), visible |-> clear(scratch.visible, bound)]
      filled == Loop(LAMBDA acc, index : FillStep(acc, index, bound, personalization),
                         [scratch |-> cleared, sum |-> 0, count |-> 0, err |-> "Ok"], states)
  IN  CASE filled.err # "Ok" -> filled
        [] filled.count = 0 -> [filled EXCEPT !.err = "EmptyState"]
        [] filled.sum <= 0 -> [filled EXCEPT !.err = "ZeroPersonalization"]
        [] OTHER -> filled

\* The normalized teleport vector gives each state its share of the whole.
Share(scratch, sum, index, whole) == (whole * scratch.teleport[index]) \div sum

initialize_ranks(ranks, states, scratch, sum, bound) ==
  [i \in DOMAIN ranks |->
     IF i \in Range(states) THEN Share(scratch, sum, i, Scale) ELSE clear(ranks, bound)[i]]

-----------------------------------------------------------------------------
(* Distribution.  A row is a sequence of <<target state, weight>>.           *)

\* Only entries whose target takes part count.
VisibleRow(row, scratch) == SelectSeq(row, LAMBDA e : is_visible(scratch, e[1]))

row_weight_total(row) == Loop(LAMBDA acc, e : acc + e[2], 0, row)

\* A row without weight gives its rank to the dangling reservoir.
distribute(row, rank, next, scratch) ==
  LET seen == VisibleRow(row, scratch)
      total == row_weight_total(seen)
      Gain(i) == Loop(LAMBDA acc, e : acc + IF e[1] = i /\ is_visible(scratch, e[1])
                                                 THEN (rank * e[2]) \div total ELSE 0, 0, seen)
  IN  CASE \E i \in DOMAIN seen : seen[i][2] < 0 -> RankErr("InvalidWeight")
        [] total <= 0 -> RankOk([next |-> next, dangling |-> rank])
        [] OTHER -> RankOk([next |-> [i \in DOMAIN next |-> next[i] + Gain(i)], dangling |-> 0])

\* Uniform gives every entry the weight one, Weighted the relation's weight.
distribute_outgoing(g, u, uniform) ==
  [i \in DOMAIN g.rows[u] |-> <<g.rows[u][i], IF uniform THEN 1 ELSE g.weights[u][i]>>]

\* Hypergraph states: element v is state v, relation r is state n + r.
distribute_from_element(h, v, uniform) ==
  [i \in DOMAIN h.outgoing[v] |->
     <<h.n + h.outgoing[v][i], IF uniform THEN 1 ELSE h.relation_weights[h.outgoing[v][i]]>>]
distribute_from_relation(h, r, uniform) ==
  [i \in DOMAIN h.targets[r] |-> <<h.targets[r][i], IF uniform THEN 1 ELSE h.incidence_weights[r][i]>>]

StateRow(topology, state, uniform) ==
  CASE topology.kind = "graph" -> distribute_outgoing(topology, state, uniform)
    [] topology.kind = "hyper" /\ state < topology.n -> distribute_from_element(topology, state, uniform)
    [] OTHER -> distribute_from_relation(topology, state - topology.n, uniform)

-----------------------------------------------------------------------------
(* One power iteration *)

\* (damping * accumulated) + (1 - damping + damping * dangling) * teleport
teleport_update(accumulated, dangling, share) == (accumulated + share) \div 2
\* Mutant: the dangling rank is not given back.
apply_teleport_NoDangling(states, ranks, next, dangling, scratch, sum) ==
  [i \in DOMAIN ranks |->
     IF i \in Range(states) THEN teleport_update(next[i], dangling, Share(scratch, sum, i, Scale))
     ELSE ranks[i]]

apply_teleport(states, ranks, next, dangling, scratch, sum) ==
  [i \in DOMAIN ranks |->
     IF i \in Range(states)
     THEN teleport_update(next[i], dangling, Share(scratch, sum, i, Scale + dangling)) ELSE ranks[i]]

\* Every state gives its rank away, to its visible targets or to the dangling reservoir.
distribute_all(topology, states, bound, uniform, scratch, ranks) ==
  LET zero == [i \in 0..(bound - 1) |-> 0]
      Step(acc, s) ==
        IF acc.err # "Ok" THEN acc
        ELSE LET given == distribute(StateRow(topology, s, uniform), ranks[s], acc.val.next, scratch) IN
               IF given.err # "Ok" THEN given
               ELSE RankOk([next |-> given.val.next, dangling |-> acc.val.dangling + given.val.dangling])
  IN  Loop(Step, RankOk([next |-> zero, dangling |-> 0]), states)

\* The sum of the changes, which decides convergence.
Delta(states, ranks, new) ==
  SumOver([i \in DOMAIN new |-> IF new[i] > ranks[i] THEN new[i] - ranks[i] ELSE ranks[i] - new[i]],
          Range(states))
=============================================================================
