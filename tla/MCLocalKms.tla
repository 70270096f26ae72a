---------------------------- MODULE MCLocalKms ----------------------------
(***************************************************************************)
(* LocalKms for TLC.  Hosts are alike and so are keysets, and no property  *)
(* checked with the symmetry is a temporal one.                            *)
(***************************************************************************)
EXTENDS LocalKms, TLC

HostAndKeysetSymmetry == Permutations(Host) \cup Permutations(Keyset)
=============================================================================
