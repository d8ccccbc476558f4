------------------------------ MODULE MCEngine ------------------------------
(* The schema of the integration tests, smaller: three nodes, of which the   *)
(* second has a loop, and a table of visits to a second node table, in which *)
(* only one place exists.                                                    *)
EXTENDS OxgExtension

MCMembers == [nodes |-> 1..3, places |-> {1}]
MCPairs == {<<1, 3>>, <<2, 8>>}
MCChain == <<<<1, 2>>, <<2, 2>>>>
=============================================================================
