-------------------------------- MODULE MCIter --------------------------------
(***************************************************************************)
(* The instances of MCStore, with the history variables of CFGStoreIter.     *)
(***************************************************************************)
EXTENDS MCStore, CFGStoreIter
=============================================================================
