-------------------------- MODULE MCTraceIngestion --------------------------
(***************************************************************************)
(* Trace ingestion with one or two components and a table of two rows.     *)
(***************************************************************************)
EXTENDS TraceIngestion
=============================================================================
