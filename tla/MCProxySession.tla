--------------------------- MODULE MCProxySession ---------------------------
(* ProxySession with interchangeable UDP peers. *)
EXTENDS ProxySession, TLC

Symmetry == Permutations(UdpPeers)
=============================================================================
