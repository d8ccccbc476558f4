-------------------------------- MODULE MCAlgo --------------------------------
EXTENDS OxgAlgo

CONSTANTS MaxEdges, Vertices, Hyperedges

MCNodes == 0..3

Ascending(S) == SetToSortSeq(S, <)

\* All simple graphs with at most MaxEdges edges, rows ascending, every other entry of a
\* row without weight.
MCGraphs ==
    {[kind |-> "graph", n |-> 4, m |-> 0,
      rows |-> [n \in MCNodes |-> Ascending({t \in MCNodes : <<n, t>> \in edges})],
      weights |-> [n \in MCNodes |->
                     [i \in 1..Cardinality({t \in MCNodes : <<n, t>> \in edges}) |-> i % 2]]] :
       edges \in UNION {kSubset(k, MCNodes \X MCNodes) : k \in 0..MaxEdges}}

\* Hypergraphs by the sources and the targets of each hyperedge.
MCHypers ==
  {[kind |-> "hyper", n |-> Vertices, m |-> Hyperedges,
    outgoing |-> [v \in 0..(Vertices - 1) |-> Ascending({h \in 0..(Hyperedges - 1) : v \in src[h]})],
    targets |-> [h \in 0..(Hyperedges - 1) |-> Ascending(tgt[h])],
    relation_weights |-> [h \in 0..(Hyperedges - 1) |-> h % 2],
    incidence_weights |-> [h \in 0..(Hyperedges - 1) |-> [i \in 1..Cardinality(tgt[h]) |-> i % 2]]] :
     src \in [0..(Hyperedges - 1) -> SUBSET (0..(Vertices - 1))],
     tgt \in [0..(Hyperedges - 1) -> SUBSET (0..(Vertices - 1))]}

MCElementLists == {<<>>, <<0, 1, 2, 3>>, <<2, 3, 1>>, <<0, 0, 9, 1>>}
=============================================================================
