---------------------------- MODULE MCIngestion ----------------------------
(* The ingestion worker on a short stream, for TLC.                        *)
EXTENDS Ingestion

\* Two documents of one minute, then one of each of the next two.
MCMinuteOf == <<1, 1, 2, 3>>
=============================================================================
