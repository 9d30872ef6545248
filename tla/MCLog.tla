------------------------------- MODULE MCLog --------------------------------
(* The log and its refinement with few records.                            *)
EXTENDS LogJournal
=============================================================================
