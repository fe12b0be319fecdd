-------------------------- MODULE MCIngestCounter --------------------------
(***************************************************************************)
(* IngestCounter for TLC.                                                  *)
(***************************************************************************)
EXTENDS IngestCounter
=============================================================================
