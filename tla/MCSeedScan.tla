----------------------------- MODULE MCSeedScan -----------------------------
(* Instance of SeedScan for TLC. *)
EXTENDS SeedScan

(* No file, the file of a run in which a node died in round 1. *)
MCOldFiles == {Missing, WithRows(<<[round |-> 1, dead |-> TRUE]>>)}

=============================================================================
