-------------------------- MODULE MCGatewayIngest --------------------------
(* Instances of GatewayIngest for model checking.                          *)
EXTENDS GatewayIngest, TLC

\* Streams are interchangeable, and so are agents.
Symmetry == Permutations(Handlers) \cup Permutations(Agents)
=============================================================================
