------------------------- MODULE MCDiscoveryHandoff -------------------------
(***************************************************************************)
(* DiscoveryHandoff for three tokens and two campaigns.  Tokens without a  *)
(* history are interchangeable.                                            *)
(***************************************************************************)
EXTENDS DiscoveryHandoff, TLC

Symmetry == Permutations(Token \ Known)
=============================================================================
