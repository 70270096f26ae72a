--------------------------- MODULE MCGenesisCore ---------------------------
(***************************************************************************)
(* GenesisCore for TLC.                                                    *)
(***************************************************************************)
EXTENDS GenesisCore

CONSTANTS t1, t2   \* two Secrets

\* The host's lists: none, the bootstrap's own namespace, an additional one.
MCRequests == {<<>>, <<t1>>, <<t1, t2>>}
=============================================================================
