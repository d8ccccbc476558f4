------------------------------ MODULE OxgOxql ------------------------------
(***************************************************************************)
(* OxQL: a query is a sequence of tokens (what splitting on white space    *)
(* leaves); it is parsed, bound to a catalog and executed over a view.     *)
(***************************************************************************)
EXTENDS OxgRead, Integers

\* Keywords are compared in upper case; any other token is its own upper case.
Lower ==
  ("match" :> "MATCH") @@ ("elements" :> "ELEMENTS") @@ ("where" :> "WHERE") @@ ("and" :> "AND")
    @@ ("or" :> "OR") @@ ("both" :> "BOTH") @@ ("graph" :> "GRAPH")
to_ascii_uppercase(token) == IF token \in DOMAIN Lower THEN Lower[token] ELSE token

\* The integer and quoted tokens of the model; no other token is a literal.
Integer ==
  ("0" :> 0) @@ ("1" :> 1) @@ ("2" :> 2) @@ ("3" :> 3) @@ ("-1" :> -1)
Quoted == ("'a'" :> 0) @@ ("'b'" :> 1)

parse_value_token(token) ==
  CASE token \in {"true", "false"} -> Answer([type |-> "boolean", val |-> IF token = "true" THEN 1 ELSE 0])
    [] token \in DOMAIN Integer -> Answer([type |-> "integer", val |-> Integer[token]])
    [] token \in DOMAIN Quoted -> Answer([type |-> "text", val |-> Quoted[token]])
    [] OTHER -> Failed("unsupported")

\* parse::<usize> and parse::<u64>: no sign.
Unsigned(token) == token \in DOMAIN Integer /\ Integer[token] >= 0

-----------------------------------------------------------------------------
(* WHERE predicates: OR of ANDs of factors, with a cursor over the tokens   *)

At(tokens, cursor) == IF cursor \in DOMAIN tokens THEN tokens[cursor] ELSE "<end>"
Parsed(val, cursor) == [err |-> "Ok", val |-> val, cursor |-> cursor]
Unparsed == [err |-> "unsupported", val |-> <<>>, cursor |-> 0]

CompareOps == {"=", "<", "<=", ">", ">="}

parse_comparison(tokens, cursor) ==
  IF cursor + 2 > Len(tokens) \/ At(tokens, cursor + 1) \notin CompareOps THEN Unparsed
  ELSE Parsed([node |-> "compare", key |-> tokens[cursor], op |-> tokens[cursor + 1],
               value |-> tokens[cursor + 2]], cursor + 3)

RECURSIVE parse_predicate_or(_, _), and_operands_Flat(_, _), and_operands(_, _), or_operands(_, _)

parse_predicate_factor(tokens, cursor) ==
  IF At(tokens, cursor) # "(" THEN parse_comparison(tokens, cursor)
  ELSE LET inner == parse_predicate_or(tokens, cursor + 1) IN
         CASE inner.err # "Ok" -> inner
           [] At(tokens, inner.cursor) # ")" -> Unparsed
           [] OTHER -> Parsed(inner.val, inner.cursor + 1)

WordAt(tokens, cursor) == to_ascii_uppercase(At(tokens, cursor))
Join(word, left, right) ==
  IF right.err # "Ok" THEN right
  ELSE Parsed([node |-> word, left |-> left.val, right |-> right.val], right.cursor)
\* Mutant: AND and OR bind alike.
and_operands_Flat(tokens, left) ==
  IF left.err # "Ok" \/ WordAt(tokens, left.cursor) \notin {"AND", "OR"} THEN left
  ELSE and_operands_Flat(tokens, Join(WordAt(tokens, left.cursor), left,
                                      parse_predicate_factor(tokens, left.cursor + 1)))

\* The loops: while the next word continues the list, the node grows to the left.
and_operands(tokens, left) ==
  IF left.err # "Ok" \/ WordAt(tokens, left.cursor) # "AND" THEN left
  ELSE and_operands(tokens, Join("AND", left, parse_predicate_factor(tokens, left.cursor + 1)))

parse_predicate_and(tokens, cursor) == and_operands(tokens, parse_predicate_factor(tokens, cursor))

or_operands(tokens, left) ==
  IF left.err # "Ok" \/ WordAt(tokens, left.cursor) # "OR" THEN left
  ELSE or_operands(tokens, Join("OR", left, parse_predicate_and(tokens, left.cursor + 1)))

parse_predicate_or(tokens, cursor) == or_operands(tokens, parse_predicate_and(tokens, cursor))

\* One equality is answered by the index instead of a filter.
parse_element_where(tokens) ==
  LET p == parse_predicate_or(tokens, 1) IN
    CASE p.err # "Ok" -> Failed(p.err)
      [] p.cursor # Len(tokens) + 1 -> Failed("unsupported")
      [] p.val.node = "compare" /\ p.val.op = "=" ->
           Answer([op |-> "element_property_equal", key |-> p.val.key, value |-> p.val.value])
      [] OTHER -> Answer([op |-> "element_where", predicate |-> p.val])

-----------------------------------------------------------------------------
(* The other queries *)

DefaultWalk == [max_depth |-> 1, direction |-> "outgoing", limit |-> 1000, include_start |-> FALSE]

Directions == ("OUTGOING" :> "outgoing") @@ ("INCOMING" :> "incoming") @@ ("BOTH" :> "both")

WalkOp(projection, element, options) ==
  [op |-> "graph_walk", projection |-> projection, element |-> element, options |-> options]

\* Options come in pairs behind the depth; each at most once.
parse_walk_options(tokens, upper, options) ==
  Loop(LAMBDA acc, i :
         CASE acc.err # "Ok" -> acc
           [] i + 1 > Len(tokens) -> Failed("unsupported")
           [] upper[i] = "DIRECTION" /\ "direction" \notin acc.seen /\ upper[i + 1] \in DOMAIN Directions ->
                [acc EXCEPT !.val.direction = Directions[upper[i + 1]], !.seen = @ \cup {"direction"}]
           [] upper[i] = "LIMIT" /\ "limit" \notin acc.seen /\ Unsigned(tokens[i + 1]) ->
                [acc EXCEPT !.val.limit = Integer[tokens[i + 1]], !.seen = @ \cup {"limit"}]
           [] OTHER -> Failed("unsupported"),
       [err |-> "Ok", val |-> options, seen |-> {}],
       [n \in 1..((Len(tokens) - 6) \div 2) |-> 6 + 2 * n])

parse_graph_walk(tokens, upper) ==
  LET options == parse_walk_options(tokens, upper, [DefaultWalk EXCEPT !.max_depth = Integer[tokens[7]]]) IN
    CASE ~Unsigned(tokens[7]) -> Failed("unsupported")
      [] options.err # "Ok" -> Failed("unsupported")
      [] OTHER -> Answer(WalkOp(tokens[2], tokens[5], options.val))

parse_oxql(tokens) ==
  LET upper == [i \in DOMAIN tokens |-> to_ascii_uppercase(tokens[i])]
      Starts(words) == Len(upper) >= Len(words) /\ SubSeq(upper, 1, Len(words)) = words
      Is(words) == upper = words
  IN  CASE Starts(<<"MATCH", "ELEMENTS", "WHERE">>) -> parse_element_where(SubSeq(tokens, 4, Len(tokens)))
        [] Is(<<"CATALOG">>) -> Answer([op |-> "catalog_scan"])
        [] Is(<<"MATCH", "ELEMENTS">>) -> Answer([op |-> "element_scan"])
        [] Is(<<"MATCH", "RELATIONS">>) -> Answer([op |-> "relation_scan"])
        [] Is(<<"MATCH", "INCIDENCES">>) -> Answer([op |-> "incidence_scan"])
        [] Starts(<<"MATCH", "ELEMENTS", "HAS", "LABEL">>) /\ Len(tokens) = 5 ->
             Answer([op |-> "element_label_scan", name |-> tokens[5]])
        [] Starts(<<"MATCH", "RELATIONS", "TYPE">>) /\ Len(tokens) = 4 ->
             Answer([op |-> "relation_type_scan", name |-> tokens[4]])
        [] Len(tokens) = 4 /\ upper[1] = "GRAPH" /\ upper[3] = "NEIGHBORS" ->
             Answer(WalkOp(tokens[2], tokens[4], DefaultWalk))
        [] Len(tokens) >= 7 /\ upper[1] = "GRAPH" /\ SubSeq(upper, 3, 4) = <<"WALK", "FROM">>
             /\ upper[6] = "DEPTH" -> parse_graph_walk(tokens, upper)
        [] OTHER -> Failed("unsupported")

-----------------------------------------------------------------------------
(* Binding names to ids *)

bind_comparison(cat, key, token) ==
  LET value == parse_value_token(token)
      id == IdOf(cat, "property_key", key)
      refused == validate_lookup_value_for_family(cat, id, "element", value.val)
  IN  CASE ~Named(cat, "property_key", key) -> Failed("unsupported")
        [] value.err # "Ok" -> value
        [] refused # "Ok" -> Failed(refused)
        [] OTHER -> Answer([key |-> id, value |-> value.val])

RECURSIVE bind_predicate(_, _)
bind_predicate(cat, p) ==
  IF p.node = "compare"
  THEN LET c == bind_comparison(cat, p.key, p.value) IN
         IF c.err # "Ok" THEN c
         ELSE Answer([node |-> "compare", key |-> c.val.key, op |-> p.op, value |-> c.val.value])
  ELSE LET left == bind_predicate(cat, p.left)
           right == bind_predicate(cat, p.right)
       IN  CASE left.err # "Ok" -> left
             [] right.err # "Ok" -> right
             [] OTHER -> Answer([node |-> p.node, left |-> left.val, right |-> right.val])

lower_graph_walk(cat, op) ==
  CASE ~Named(cat, "projection", op.projection) -> Failed("unsupported")
    [] DefOf(cat, "projection", IdOf(cat, "projection", op.projection)).def.shape = "hypergraph" ->
         Failed("not a graph")
    [] ~Unsigned(op.element) -> Failed("unsupported")
    [] OTHER -> Answer([plan |-> "graph_walk", projection |-> IdOf(cat, "projection", op.projection),
                        element |-> Integer[op.element], options |-> op.options])

bind_name(cat, plan, kind, name) ==
  IF Named(cat, kind, name) THEN Answer([plan |-> plan, id |-> IdOf(cat, kind, name)])
  ELSE Failed("unsupported")

bind_and_lower(cat, op) ==
  CASE op.op \in {"element_scan", "relation_scan", "incidence_scan", "catalog_scan"} ->
         Answer([plan |-> op.op])
    [] op.op = "element_label_scan" -> bind_name(cat, op.op, "label", op.name)
    [] op.op = "relation_type_scan" -> bind_name(cat, op.op, "relation_type", op.name)
    [] op.op = "element_property_equal" ->
         LET c == bind_comparison(cat, op.key, op.value) IN
           IF c.err # "Ok" THEN c
           ELSE Answer([plan |-> op.op, key |-> c.val.key, value |-> c.val.value])
    [] op.op = "element_where" ->
         LET p == bind_predicate(cat, op.predicate) IN
           IF p.err # "Ok" THEN p ELSE Answer([plan |-> "element_filter", predicate |-> p.val])
    [] OTHER -> lower_graph_walk(cat, op)

prepare(cat, tokens) ==
  LET op == parse_oxql(tokens) IN
    CASE tokens = <<>> -> Failed("Empty")
      [] op.err # "Ok" -> op
      [] OTHER -> bind_and_lower(cat, op.val)

-----------------------------------------------------------------------------
(* Execution.  The answer is a sequence of rows.                            *)

Matches(op, actual, value) ==
  CASE op = "=" -> actual = value [] op = "<" -> actual < value [] op = "<=" -> actual <= value
    [] op = ">" -> actual > value [] OTHER -> actual >= value

RECURSIVE evaluate(_, _, _, _)
evaluate(b, o, p, e) ==
  CASE p.node = "compare" ->
         LET actual == Property(b, o, ElementSubject(e), p.key) IN
           actual # Absent /\ Matches(p.op, actual, p.value.val)
    [] p.node = "AND" -> evaluate(b, o, p.left, e) /\ evaluate(b, o, p.right, e)
    [] OTHER -> evaluate(b, o, p.left, e) \/ evaluate(b, o, p.right, e)

filter_elements(b, o, p) == SelectSeq(elements(b, o), LAMBDA e : evaluate(b, o, p, e))
scan_elements_with_property(cat, b, o, key, value) ==
  LET found == typed_property_equal_for_family(cat, b, o, key, "element", value) IN
    IF found.err # "Ok" THEN found
    ELSE Answer(Sorted({s[2] : s \in {s \in found.val : s[1] = "element"}}))

WalkRows(found) ==
  IF found.err = "Ok" THEN Answer([i \in DOMAIN found.val.nodes |-> found.val.nodes[i][1]]) ELSE found

execute_graph_walk(cat, b, o, plan) ==
  WalkRows(WalkOver(graph_projection(cat, b, o, plan.projection), <<plan.element>>, plan.options))

execute(cat, b, o, plan) ==
  CASE plan.plan = "element_scan" -> Answer(elements(b, o))
    [] plan.plan = "relation_scan" -> Answer(relations(b, o))
    [] plan.plan = "incidence_scan" -> Answer(incidences(b, o))
    [] plan.plan = "catalog_scan" -> Answer(Sorted(DOMAIN cat["projection"].defs))
    [] plan.plan = "element_label_scan" -> Answer(Sorted(elements_with_label(b, o, plan.id)))
    [] plan.plan = "relation_type_scan" -> Answer(Sorted(relations_with_type(b, o, plan.id)))
    [] plan.plan = "element_property_equal" ->
         scan_elements_with_property(cat, b, o, plan.key, plan.value)
    [] plan.plan = "element_filter" -> Answer(filter_elements(b, o, plan.predicate))
    [] OTHER -> execute_graph_walk(cat, b, o, plan)
=============================================================================
