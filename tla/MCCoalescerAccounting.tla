----------------------- MODULE MCCoalescerAccounting ------------------------
(***************************************************************************)
(* The instance of MCCoalescer with the history of CoalescerAccounting.    *)
(***************************************************************************)
EXTENDS MCCoalescer, CoalescerAccounting
=============================================================================
