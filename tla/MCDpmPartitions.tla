---------------------------- MODULE MCDpmPartitions ----------------------------
(* Small instances of DpmPartitions for TLC. *)
EXTENDS DpmPartitions

CONSTANTS c1, c2, p1, p2, d1

MCClient    == {c1, c2}
MCLimited   == {c1}
MCPartition == {p1, p2}
MCDomain    == {d1}
================================================================================
