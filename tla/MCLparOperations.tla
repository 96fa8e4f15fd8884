---------------------------- MODULE MCLparOperations ----------------------------
(* Small instances of LparOperations for TLC. *)
EXTENDS LparOperations

CONSTANTS c1, c2

MCClient == {c1, c2}
MCOne    == {c1}
================================================================================
