------------------------- MODULE MCGenesisOperator -------------------------
(***************************************************************************)
(* GenesisOperator for TLC, with what the repository's comments say of the *)
(* operator and TLC refutes.  The instances are in the .cfg files.         *)
(***************************************************************************)
EXTENDS GenesisOperator

(***************************************************************************)
(* Statements of the repository's comments that the code does not meet.    *)
(***************************************************************************)


\* applyRotationAnnotations "updates secret annotations after a successful
\* rotation".
RotationAnnotated ==
  rpc = "status" /\ rPol.cond = "succeeded" => sec[Primary].ann = rPol.count
=============================================================================
