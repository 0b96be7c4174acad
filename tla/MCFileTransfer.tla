-------------------------- MODULE MCFileTransfer --------------------------
(* A file of two blocks and one of a single block.                         *)
EXTENDS FileTransfer, TLC

MCSize == (0 :> 2) @@ (1 :> 1)
===========================================================================
