-------------------------- MODULE MCGenesisHandle --------------------------
(***************************************************************************)
(* GenesisHandle for TLC, with what the repository's comments say of the   *)
(* handles and TLC refutes.                                                *)
(***************************************************************************)
EXTENDS GenesisHandle, TLC

\* The allocator may pick any free address: they are interchangeable.
AddrSymmetry == Permutations(Addr)

\* recoverHandle: "This ensures the handle is not left dangling after an
\* error".
NotDanglingAfterError == dangling = {}
=============================================================================
