--------------------------- MODULE MCDeliveryTrace --------------------------
(***************************************************************************)
(* A few hops of messages in slots of one and of two digits.               *)
(***************************************************************************)
EXTENDS DeliveryTrace
=============================================================================
