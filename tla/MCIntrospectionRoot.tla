------------------------ MODULE MCIntrospectionRoot -------------------------
(***************************************************************************)
(* The root with a few requests and a table of one or two rows.            *)
(***************************************************************************)
EXTENDS IntrospectionRoot
=============================================================================
